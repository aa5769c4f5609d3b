------------------------------- MODULE NameSale -------------------------------
(***************************************************************************)
(* A name in a seller's lock, on the chain and in the wallet's node.  None *)
(* of this is the repository's code: it is hsd and the other actors of a   *)
(* sale, modelled from how src/src-tauri/src/shakedex_jobs.rs reads them.  *)
(*                                                                         *)
(* A name has one owner coin.  Each coin is named for the transaction that *)
(* made it: the seller's lock, our purchase of it (a TRANSFER), the        *)
(* FINALIZE of that TRANSFER to our destination (anyone may send it), what *)
(* its owner made of the name since, a rival's purchase, and that rival's  *)
(* FINALIZE when the rival is another device of the same seed, which pays  *)
(* the same destination.                                                   *)
(***************************************************************************)
EXTENDS Naturals, Sequences

CONSTANTS
    None,           \* no transaction
    Nodes,          \* which indexes the node may keep: sets of "tx", "address"
    MaxFaults       \* bound: reorgs and evictions

ASSUME SaleAssumption ==
    /\ None \notin {"purchase", "rival", "finalized", "moved", "rivalhome"}
    /\ Nodes \subseteq SUBSET {"tx", "address"}
    /\ MaxFaults \in Nat

VARIABLES
    owners,         \* the name's owner coins in the best chain, oldest first
    pool,           \* the coin a transaction in the node's mempool makes of it
    life,           \* has the name expired; was it opened again since
    relayed,        \* some node was handed our purchase
    landed,         \* our purchase has been in a block at some time
    price,          \* where the step we pay stands at the node's median time
    indexes,        \* the indexes the node keeps
    faults          \* how many of the MaxFaults events have happened

saleVars == <<owners, pool, life, relayed, landed, price, indexes, faults>>

\* The coins a transaction may make of each coin.
After == [lock |-> {"purchase", "rival"}, purchase |-> {"finalized"},
          finalized |-> {"moved"}, moved |-> {},
          rival |-> {"rivalhome"}, rivalhome |-> {}]

OwnerCoins == DOMAIN After

Prices == <<"early", "current", "cheaper">>

SaleTypeOK ==
    /\ owners \in Seq(OwnerCoins) /\ owners # <<>>
    /\ pool \in OwnerCoins \cup {None}
    /\ life \in {"live", "expired", "reopened"}
    /\ relayed \in BOOLEAN
    /\ landed \in BOOLEAN
    /\ price \in 1..Len(Prices)
    /\ indexes \subseteq {"tx", "address"}
    /\ faults \in Nat

SaleInit ==
    /\ owners = <<"lock">>
    /\ pool = None
    /\ life = "live"
    /\ relayed = FALSE
    /\ landed = FALSE
    /\ price = 1
    /\ indexes \in Nodes
    /\ faults = 0

-----------------------------------------------------------------------------
(* What the node answers.                                                  *)

owner == owners[Len(owners)]

Mined(t) == \E i \in 1..Len(owners) : owners[i] = t

\* GET /tx/:hash of the purchase: the mempool, then the chain by its index.
TxAnswer ==
    CASE pool = "purchase" -> "mempool"
      [] pool # "purchase" /\ Mined("purchase") /\ "tx" \in indexes -> "mined"
      [] OTHER -> "null"

\* GET /coin of the lock: a spend in the mempool hides it.
LockCoin == owner = "lock" /\ pool = None

\* GET /coin of the purchase's TRANSFER.
TransferCoin ==
    CASE pool = "purchase" -> "mempool"
      [] owner = "purchase" /\ pool = None -> "mined"
      [] OTHER -> "none"

\* getnameinfo, which reads the chain only.
NameOwner ==
    CASE life = "live" -> owner
      [] life = "expired" -> "nobody"
      [] life = "reopened" -> "newcomer"

\* GET /coin of an owner coin read before.
OwnerCoinAt(o) ==
    CASE o = "newcomer" -> "elsewhere"
      [] o = owner /\ pool = None ->
            IF o \in {"finalized", "rivalhome"} THEN "home" ELSE "elsewhere"
      [] OTHER -> "none"

\* GET /tx/address of our destination: the FINALIZE of our TRANSFER.
FinalizeListed ==
    CASE indexes # {"tx", "address"} -> "none"
      [] indexes = {"tx", "address"} /\ pool = "finalized" -> "mempool"
      [] indexes = {"tx", "address"} /\ Mined("finalized") -> "mined"
      [] OTHER -> "none"

-----------------------------------------------------------------------------
(* What happens to the name.                                               *)

Valid(t) ==
    /\ life = "live" /\ t \in After[owner]
    /\ t = "purchase" => relayed

Arrive(t) ==
    /\ Valid(t) /\ pool = None
    /\ pool' = t
    /\ UNCHANGED <<owners, life, relayed, landed, price, indexes, faults>>

Mine(t) ==
    /\ Valid(t)
    /\ owners' = Append(owners, t)
    /\ pool' = None
    /\ landed' = (landed \/ t = "purchase")
    /\ UNCHANGED <<life, relayed, price, indexes, faults>>

\* The median time passes the next step of the listing.
PriceStep ==
    /\ price < Len(Prices)
    /\ price' = price + 1
    /\ UNCHANGED <<owners, pool, life, relayed, landed, indexes, faults>>

\* The node forgets a transaction: its peers need not.
Evict ==
    /\ pool # None /\ faults < MaxFaults
    /\ faults' = faults + 1
    /\ pool' = None
    /\ UNCHANGED <<owners, life, relayed, landed, price, indexes>>

\* The last transaction leaves the chain, into the mempool or not, and the
\* median time may go back.
Reorg ==
    /\ Len(owners) > 1 /\ life = "live" /\ faults < MaxFaults
    /\ faults' = faults + 1
    /\ owners' = SubSeq(owners, 1, Len(owners) - 1)
    /\ pool' \in {None, owner}
    /\ price' \in {price, IF price > 1 THEN price - 1 ELSE price}
    /\ UNCHANGED <<life, relayed, landed, indexes>>

\* A name nobody finalized expires, and what was waiting for it is invalid.
Expire ==
    /\ life = "live" /\ owner \in {"lock", "purchase"}
    /\ life' = "expired"
    /\ pool' = None
    /\ UNCHANGED <<owners, relayed, landed, price, indexes, faults>>

Reopen ==
    /\ life = "expired"
    /\ life' = "reopened"
    /\ UNCHANGED <<owners, pool, relayed, landed, price, indexes, faults>>

SaleNext ==
    \/ \E t \in OwnerCoins : Arrive(t) \/ Mine(t)
    \/ PriceStep
    \/ Evict
    \/ Reorg
    \/ Expire
    \/ Reopen

\* sendrawtransaction reaches the node, which relays the purchase whatever its
\* own mempool makes of it.
DeliverPurchase ==
    /\ relayed' = TRUE
    /\ pool' \in {pool} \cup
         (IF life = "live" /\ owner = "lock" /\ pool = None THEN {"purchase"} ELSE {})
    /\ UNCHANGED <<owners, life, landed, price, indexes, faults>>
=============================================================================
