-------------------------------- MODULE Chain --------------------------------
(***************************************************************************)
(* The node and the Handshake network as the wallet meets them.  None of   *)
(* this is the repository's code: it is hsd and its peers, modelled from   *)
(* how src/src-tauri/src/noncustodial/tx_evidence.rs and                   *)
(* src/src-tauri/src/commands/tx.rs use them.                              *)
(*                                                                         *)
(* A transaction is named by the draft it was built by and spends          *)
(* Inputs[d].  A transaction once handed to a node may be mined whatever   *)
(* that node's own mempool made of it: hsd relays before it decides, and   *)
(* other nodes keep what this one evicted.                                 *)
(***************************************************************************)
EXTENDS Naturals, FiniteSets

CONSTANTS
    Drafts,         \* ids of the wallet's transactions
    Coins,          \* the wallet's coins
    Inputs,         \* [Drafts -> SUBSET Coins]: what each transaction spends
    HasTxIndex,     \* does the node keep a transaction index
    MaxFaults       \* bound: reorgs, evictions, late relays, foreign spends, crashes

ASSUME ChainAssumption ==
    /\ Inputs \in [Drafts -> SUBSET Coins]
    /\ HasTxIndex \in BOOLEAN
    /\ MaxFaults \in Nat

VARIABLES
    relayed,        \* transactions some node has been handed
    mempool,        \* transactions in the wallet's node's mempool
    mined,          \* transactions in the best chain
    buried,         \* mined beyond the finality depth: no reorg reaches them
    landed,         \* transactions that have been in a block at some time
    taken,          \* coins a transaction of another wallet has spent on chain
    faults          \* how many of the MaxFaults events have happened

chainVars == <<relayed, mempool, mined, buried, landed, taken, faults>>

ChainTypeOK ==
    /\ relayed \subseteq Drafts
    /\ mempool \subseteq Drafts
    /\ mined \subseteq Drafts
    /\ buried \subseteq Drafts
    /\ landed \subseteq Drafts
    /\ taken \subseteq Coins
    /\ faults \in Nat

ChainInit ==
    /\ relayed = {}
    /\ mempool = {}
    /\ mined = {}
    /\ buried = {}
    /\ landed = {}
    /\ taken = {}
    /\ faults = 0

-----------------------------------------------------------------------------
(* What the node answers.                                                  *)

SpentBy(c, txs) == \E t \in txs : c \in Inputs[t]

SpentOnChain(c) == c \in taken \/ SpentBy(c, mined)

\* The coins hsd lists or returns: unspent in the chain and in its mempool.
NodeCoins == {c \in Coins : ~SpentOnChain(c) /\ ~SpentBy(c, mempool)}

Accepts(t) == t \notin mempool \cup mined /\ Inputs[t] \subseteq NodeCoins

\* The answers to "where is this transaction": getrawtransaction, then the
\* coins of its outputs and of its inputs.  Without a transaction index a
\* mined one shows only while one of its outputs is a coin, and spent inputs
\* prove nothing.
Answers(t) ==
    IF t \in mempool THEN {"mempool"}
    ELSE IF t \in mined THEN (IF HasTxIndex THEN {"mined"} ELSE {"mined", "hidden"})
    ELSE IF Inputs[t] \subseteq NodeCoins THEN {"unspent"}
    ELSE IF HasTxIndex THEN {"spent"} ELSE {"hidden"}

-----------------------------------------------------------------------------
(* What happens to transactions once handed over.                          *)

\* sendrawtransaction reaches the node, whatever its mempool decides.
Deliver(t) ==
    /\ relayed' = relayed \cup {t}
    /\ mempool' = IF Accepts(t) THEN mempool \cup {t} ELSE mempool
    /\ UNCHANGED <<mined, buried, landed, taken, faults>>

Without(txs, cs) == {t \in txs : Inputs[t] \cap cs = {}}

Mine(t) ==
    /\ t \in relayed \ mined
    /\ \A c \in Inputs[t] : ~SpentOnChain(c)
    /\ mined' = mined \cup {t}
    /\ landed' = landed \cup {t}
    /\ mempool' = Without(mempool, Inputs[t]) \ {t}
    /\ UNCHANGED <<relayed, buried, taken, faults>>

Bury(t) ==
    /\ t \in mined \ buried
    /\ buried' = buried \cup {t}
    /\ UNCHANGED <<relayed, mempool, mined, landed, taken, faults>>

Fault == faults < MaxFaults /\ faults' = faults + 1

\* A reorg un-mines t; the node may take it back into its mempool.
Reorg(t) ==
    /\ Fault
    /\ t \in mined \ buried
    /\ mined' = mined \ {t}
    /\ mempool' \in {mempool, mempool \cup {t}}
    /\ UNCHANGED <<relayed, buried, landed, taken>>

\* The node restarts or its mempool is full: it forgets t.
Evict(t) ==
    /\ Fault
    /\ t \in mempool
    /\ mempool' = mempool \ {t}
    /\ UNCHANGED <<relayed, mined, buried, landed, taken>>

\* A peer that still holds t relays it to the node.
RelayAgain(t) ==
    /\ Fault
    /\ t \in relayed
    /\ Accepts(t)
    /\ mempool' = mempool \cup {t}
    /\ UNCHANGED <<relayed, mined, buried, landed, taken>>

\* The same seed, used elsewhere, spends c in a block.
SpendElsewhere(c) ==
    /\ Fault
    /\ ~SpentOnChain(c)
    /\ taken' = taken \cup {c}
    /\ mempool' = Without(mempool, {c})
    /\ UNCHANGED <<relayed, mined, buried, landed>>

\* A reorg un-mines the foreign spend of c.
UnspendElsewhere(c) ==
    /\ Fault
    /\ taken' = taken \ {c}
    /\ c \in taken
    /\ UNCHANGED <<relayed, mempool, mined, buried, landed>>

ChainNext ==
    \/ \E t \in Drafts : Mine(t) \/ Bury(t) \/ Reorg(t) \/ Evict(t) \/ RelayAgain(t)
    \/ \E c \in Coins : SpendElsewhere(c) \/ UnspendElsewhere(c)
=============================================================================
