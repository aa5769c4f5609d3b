----------------------------- MODULE LockChain -----------------------------
(***************************************************************************)
(* The environment of a Shakedex listing: one name of the seller's on the  *)
(* chain and in the node's mempool, as hsd shows it.  Each transaction of  *)
(* the name spends the one before it, so a transaction is the path of      *)
(* kinds that leads to it, the best chain is one path, and the mempool     *)
(* continues it.                                                           *)
(*                                                                         *)
(*   lock             the lock TRANSFER of the seller's name               *)
(*   abort, leave     our Cancel transfer; another way out of the TRANSFER *)
(*                    (a Cancel transfer sent elsewhere, a REVOKE)         *)
(*   Finals           a FINALIZE into the lock; "there" is one that        *)
(*                    another device of the same phrase sent               *)
(*   Purchases        a price step's purchase of the lock coin             *)
(*   Cancels          a TRANSFER out of the lock to an address of ours:    *)
(*                    this device's, another device's                      *)
(*   home             the FINALIZE of a cancel                             *)
(*   away             the buyer's FINALIZE                                 *)
(***************************************************************************)
EXTENDS Naturals, Sequences, FiniteSets

CONSTANTS
    Finals,      \* the FINALIZEs into the lock that may exist
    Purchases,   \* the buyers' transactions
    Cancels,     \* the cancels of one lock that may exist
    Foreign,     \* the kinds sent without this device
    MaxFaults,   \* bound: reorganisations, evictions and the expiry
    Depths,      \* how many transactions of the name one may take out
    MayExpire    \* whether the name may expire

ASSUME ChainAssumption ==
    /\ MaxFaults \in Nat /\ Depths \subseteq {1, 2} /\ MayExpire \in BOOLEAN
    /\ Foreign \subseteq
         {"lock", "leave", "home", "away"} \cup Finals \cup Purchases \cup Cancels

\* A kind is one sort of transaction.
ASSUME KindsAssumption ==
    /\ Finals \cap Purchases = {}
    /\ Cancels \cap (Finals \cup Purchases) = {}
    /\ (Finals \cup Purchases \cup Cancels) \cap {"lock", "abort", "leave", "home", "away"} = {}

VARIABLES
    mined,    \* the path of the best chain
    pool,     \* what the mempool adds to it
    ripe,     \* the transfer lockup of the last mined TRANSFER is over
    gone,     \* no live name
    relayed,  \* the paths this device handed to a node
    faults    \* how many reorganisations and evictions there were

chainVars == <<mined, pool, ripe, gone, relayed, faults>>

Last(path) == path[Len(path)]
IsPrefix(p, q) == Len(p) <= Len(q) /\ SubSeq(q, 1, Len(p)) = p
None == <<"none">>

\* The kinds that may spend a coin of this kind.
SpendersOf(kind) ==
    CASE kind = "lock" -> {"abort", "leave"} \cup Finals
      [] kind \in Finals -> Purchases \cup Cancels
      [] kind \in Cancels -> {"home"}
      [] kind \in Purchases -> {"away"}
      [] OTHER -> {}

\* A FINALIZE waits for the lockup of the TRANSFER it ends.
Waits(kind) == kind \in Finals \cup {"home", "away"}

Next1(path) == IF path = <<>> THEN {"lock"} ELSE SpendersOf(Last(path))

Tip == mined \o pool
Seen(path) == IsPrefix(path, Tip)
Confirmed(path) == IsPrefix(path, mined)

\* GET /coin: hsd answers 404 for a coin a block or its mempool spends.
Coin(path) ==
    IF path = None \/ path # Tip THEN "none"
    ELSE IF path = mined THEN "mined" ELSE "mempool"

-----------------------------------------------------------------------------
Acceptable(kind) ==
    ~gone /\ kind \in Next1(mined) /\ (Waits(kind) => ripe)

Exists(kind) == kind \in Foreign \/ Append(mined, kind) \in relayed

\* sendrawtransaction: the mempool takes what spends its own tip.
Accepts(path) == pool = <<>> /\ path = Append(mined, Last(path)) /\ Acceptable(Last(path))

Hand(path) ==
    /\ relayed' = relayed \cup {path}
    /\ \/ (Accepts(path) /\ pool' = <<Last(path)>>)
       \/ UNCHANGED pool
    /\ UNCHANGED <<mined, ripe, gone, faults>>

\* A transaction of the name enters the mempool from elsewhere.
Arrive ==
    /\ pool = <<>>
    /\ \E kind \in Next1(mined) :
         Acceptable(kind) /\ Exists(kind) /\ pool' = <<kind>>
    /\ UNCHANGED <<mined, ripe, gone, relayed, faults>>

\* A block holds one, and what conflicts with it leaves the mempool.
Connect ==
    /\ \E kind \in Next1(mined) :
         /\ Acceptable(kind) /\ (Exists(kind) \/ (pool # <<>> /\ kind = Head(pool)))
         /\ mined' = Append(mined, kind)
         /\ pool' = IF pool # <<>> /\ kind = Head(pool) THEN Tail(pool) ELSE <<>>
    /\ ripe' = FALSE
    /\ UNCHANGED <<gone, relayed, faults>>

Ripen ==
    /\ mined # <<>> /\ Last(mined) \in {"lock"} \cup Cancels \cup Purchases
    /\ ~ripe /\ ripe' = TRUE
    /\ UNCHANGED <<mined, pool, gone, relayed, faults>>

Fault == faults.reorgs + faults.evictions < MaxFaults /\ ~gone

\* Transactions leave the best chain; the mempool keeps what is
\* still valid of them, or less.
Reorg ==
    /\ Fault /\ faults' = [faults EXCEPT !.reorgs = @ + 1]
    /\ \E n \in Depths :
         LET kept == SubSeq(mined, 1, Len(mined) - n)
             out  == SubSeq(mined, Len(kept) + 1, Len(mined))
             valid == IF n > 1 /\ Waits(out[2]) THEN 1 ELSE n
         IN  /\ n <= Len(mined)
             /\ mined' = kept
             /\ ripe' = Waits(out[1])
             /\ \E k \in 0 .. valid : pool' = SubSeq(out, 1, k)
    /\ UNCHANGED <<gone, relayed>>

Evict ==
    /\ Fault /\ faults' = [faults EXCEPT !.evictions = @ + 1]
    /\ pool # <<>> /\ pool' = <<>>
    /\ UNCHANGED <<mined, ripe, gone, relayed>>

Expire ==
    /\ MayExpire /\ Fault /\ mined # <<>>
    /\ gone' = TRUE /\ pool' = <<>>
    /\ UNCHANGED <<mined, ripe, relayed, faults>>

ChainInit(path) ==
    /\ mined = path /\ pool = <<>> /\ ripe = FALSE /\ gone = FALSE /\ relayed = {}
    /\ faults = [reorgs |-> 0, evictions |-> 0]

ChainNext == Arrive \/ Connect \/ Ripen \/ Reorg \/ Evict \/ Expire
=============================================================================
