----------------------------- MODULE CoinClaims -----------------------------
(***************************************************************************)
(* What the reservations of coins promise, apart from rows, statuses,      *)
(* sweeps and polls: a draft claims all the coins it spends or none, no    *)
(* two claims share a coin, and the claim of a draft in flight ends only   *)
(* when the draft stops being in flight.                                   *)
(*                                                                         *)
(* This is the promise of src/src-tauri/src/db/queries.rs                  *)
(* (insert_tx_draft_reserving_coins: "a double-spend is impossible") and   *)
(* src/src-tauri/src/noncustodial/send.rs (release_stale_reservations).    *)
(***************************************************************************)
EXTENDS Naturals, FiniteSets

CONSTANTS
    Drafts,         \* ids of the wallet's transactions
    Inputs          \* the coins each of them spends

VARIABLES
    claims,         \* drafts that hold every coin they spend
    out             \* drafts that may have reached the chain

vars == <<claims, out>>

Disjoint(d, e) == Inputs[d] \cap Inputs[e] = {}

Init == claims = {} /\ out = {}

\* Only claims of drafts that are not in flight make way for another.
Yields(freed) == freed \subseteq claims /\ freed \cap out = {}

Claim(d) ==
    \E freed \in SUBSET claims :
        /\ Yields(freed)
        /\ d \notin claims \ freed
        /\ \A e \in claims \ freed : Disjoint(d, e)
        /\ claims' = (claims \ freed) \cup {d}
        /\ UNCHANGED out

\* Discarded, failed before it was sent, or too old.
Return(freed) ==
    /\ Yields(freed)
    /\ claims' = claims \ freed
    /\ UNCHANGED out

\* Sent, given up, taken up again: what leaves its claim is no longer in flight.
Settle(freed) ==
    /\ claims' = claims \ freed
    /\ out' \in SUBSET Drafts
    /\ freed \cap out' = {}

Next ==
    \/ \E d \in Drafts : Claim(d)
    \/ \E freed \in SUBSET claims : Return(freed) \/ Settle(freed)

Spec == Init /\ [][Next]_vars

-----------------------------------------------------------------------------
\* No coin is promised to two transactions (insert_tx_draft_reserving_coins).
Exclusive == \A d, e \in claims : d # e => Disjoint(d, e)
=============================================================================
