----------------------------- MODULE MCTxDrafts -----------------------------
(* TxDrafts on small instances. *)
EXTENDS TxDrafts, TLC

CONSTANTS d1, d2, c1, c2

\* Two drafts over the same coin.
OneCoin == [d \in Drafts |-> Coins]

\* One draft spends both coins, the other only the second.
TwoCoins == [d \in Drafts |-> IF d = d1 THEN {c1, c2} ELSE {c2}]

Symmetry == Permutations(Drafts)
=============================================================================
