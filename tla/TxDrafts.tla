------------------------------- MODULE TxDrafts -------------------------------
(***************************************************************************)
(* The life of a transaction draft: built over reserved coins, signed,     *)
(* broadcast, and judged from the chain by the confirmation poll, while    *)
(* the wallet sync rewrites the coin cache under it.                       *)
(*                                                                         *)
(* Code: src/src-tauri/src/commands/tx.rs (commands), db/queries.rs (rows),*)
(* noncustodial/send.rs (reservations), noncustodial/sync.rs (coin cache), *)
(* noncustodial/tx_evidence.rs (what the chain says of a transaction).     *)
(*                                                                         *)
(* The database lock makes each locked section one step; everything the    *)
(* code awaits (a prompt, a Ledger, an RPC) separates two steps, and the   *)
(* in-flight half of a command is held in signing, sending, polled, view.  *)
(* The drafts of Shakedex purchases and locks, which their own jobs and    *)
(* gates also judge and discard, are not drafts here.                      *)
(***************************************************************************)
EXTENDS Chain

CONSTANTS
    None,           \* no draft (a NULL reserved_by_draft_id)
    Sends,          \* drafts that are plain sends; the others are covenants
    Grace,          \* EVICTION_GRACE_SECS, in ticks
    Ttl,            \* RESERVATION_TTL_SECS, in ticks
    Watch,          \* RELEASED_WATCH_SECS, in ticks
    Overlap,        \* may commands on one draft overlap (the backend lets them)
    ReleaseByHand,  \* is release_tx_draft_reservation called (the UI never does)
    MaxSubmits,     \* bound: sendrawtransaction calls
    MaxCrashes      \* bound: application crashes

ASSUME DraftsAssumption ==
    /\ None \notin Drafts
    /\ Sends \subseteq Drafts
    /\ Grace \in Nat /\ Ttl \in Nat /\ Watch \in Nat
    /\ Grace < Ttl /\ Ttl < Watch
    /\ Overlap \in BOOLEAN
    /\ ReleaseByHand \in BOOLEAN
    /\ MaxSubmits \in Nat
    /\ MaxCrashes \in Nat

VARIABLES
    status,         \* wallet_tx_drafts.status; "absent" or "deleted": no row
    age,            \* ticks since created_at, up to Ttl
    idle,           \* ticks since updated_at, up to Watch
    height,         \* what confirmation_height says, while confirmed (Heights)
    reservedBy,     \* tracked_utxos.reserved_by_draft_id
    spent,          \* coins whose spent_by_txid is set
    signing,        \* drafts a sign command has loaded and not yet stored
    sending,        \* where each draft's broadcast command is
    polled,         \* the confirmation poll: what it read, then its verdict
    view,           \* the wallet sync: the coin lists it has fetched
    submits,        \* how many sendrawtransaction calls were made
    crashes         \* how many crashes have happened

rowVars == <<status, age, idle, height>>
coinVars == <<reservedBy, spent>>
commandVars == <<signing, sending, submits>>
jobVars == <<polled, view>>
vars == <<chainVars, rowVars, coinVars, commandVars, jobVars, crashes>>

-----------------------------------------------------------------------------
(* Statuses (DraftStatus) and the questions the code asks of them.         *)

Unsent == {"draft", "signed"}
Reached == {"broadcast_pending", "broadcasted", "confirmed"}
GivenUp == {"failed", "dropped"}
NoRow == {"absent", "deleted"}
Status == Unsent \cup Reached \cup GivenUp \cup NoRow

\* refuse_unless_sendable
Sendable == Unsent \cup {"broadcast_pending"}

Exists(d) == status[d] \notin NoRow

Holds(d, c) == reservedBy[c] = d

Todo == {"broadcast_pending", "broadcasted", "confirmed", "released"}
Verdicts == {"confirm", "revert", "promote", "drop", "fail"}
Sending == {"no", "loaded", "submitted", "unanswered", "refused"}

\* Of a confirmed row: the height of the block the transaction is in, one it
\* is not in (a reorg moved it, or the tip did between the probe and the
\* look-up), or one the finality depth below the tip.  Unset: not confirmed.
Heights == {"unset", "block", "other", "final"}

TypeOK ==
    /\ ChainTypeOK
    /\ status \in [Drafts -> Status]
    /\ age \in [Drafts -> 0..Ttl]
    /\ idle \in [Drafts -> 0..Watch]
    /\ height \in [Drafts -> Heights]
    /\ reservedBy \in [Coins -> Drafts \cup {None}]
    /\ spent \subseteq Coins
    /\ signing \subseteq Drafts
    /\ sending \in [Drafts -> Sending]
    /\ polled \in [Drafts -> {"off"} \cup Todo \cup Verdicts]
    /\ view \subseteq SUBSET Coins
    /\ submits \in Nat
    /\ crashes \in Nat

Init ==
    /\ ChainInit
    /\ status = [d \in Drafts |-> "absent"]
    /\ age = [d \in Drafts |-> 0]
    /\ idle = [d \in Drafts |-> 0]
    /\ height = [d \in Drafts |-> "unset"]
    /\ reservedBy = [c \in Coins |-> None]
    /\ spent = {}
    /\ signing = {}
    /\ sending = [d \in Drafts |-> "no"]
    /\ polled = [d \in Drafts |-> "off"]
    /\ view = {}
    /\ submits = 0
    /\ crashes = 0

-----------------------------------------------------------------------------
(* Writes to the two tables.                                               *)

\* The height written with a confirmation: raw_tx_mined_height counts back
\* from the probe's tip, so an answer that comes late gives another block's.
HeightWritten(d, to, late) ==
    CASE to # "confirmed" -> "unset"
      [] late \/ d \notin mined -> "other"
      [] d \in buried -> "final"
      [] OTHER -> "block"

\* UPDATE wallet_tx_drafts SET status, confirmation_height, updated_at = now
\* WHERE id IN ds: a row that is gone is not written.
SetStatus(ds, to) ==
    LET hit == {d \in ds : Exists(d)}
    IN  /\ status' = [d \in Drafts |-> IF d \in hit THEN to[d] ELSE status[d]]
        /\ idle' = [d \in Drafts |-> IF d \in hit THEN 0 ELSE idle[d]]
        /\ \E late \in SUBSET {d \in hit : to[d] = "confirmed"} :
             height' = [d \in Drafts |->
                          IF d \in hit THEN HeightWritten(d, to[d], d \in late)
                          ELSE height[d]]

\* release_reserved_utxos_for_draft, for every draft of ds.
Release(ds) ==
    reservedBy' = [c \in Coins |-> IF reservedBy[c] \in ds THEN None ELSE reservedBy[c]]

\* Mutant of Stale: the sweep forgets to ask whether the draft was sent.
StaleWhateverTheStatus ==
    {d \in Drafts : ~Exists(d) \/ age[d] >= Ttl}

\* release_stale_reservations: the row is gone, or it is past the TTL and
\* may not have reached the chain.
Stale == {d \in Drafts : ~Exists(d) \/ (age[d] >= Ttl /\ status[d] \notin Reached)}

Busy(d) == d \in signing \/ sending[d] # "no"

\* One command at a time on a draft, unless commands may overlap.
Free(d) == Overlap \/ ~Busy(d)

-----------------------------------------------------------------------------
(* Building and discarding.                                                *)

\* load_spendable_coins: unspent, and held by nobody once the stale sweep ran.
Spendable == {c \in Coins : c \notin spent /\ reservedBy[c] \in Stale \cup {None}}

\* Mutant of Claim: the inputs another draft took since the selection are
\* left to it, and the draft is stored all the same.
ClaimWhatIsLeft(d) ==
    reservedBy' = [c \in Coins |->
                     IF c \in Inputs[d] \cap Spendable THEN d
                     ELSE IF reservedBy[c] \in Stale THEN None ELSE reservedBy[c]]

\* insert_tx_draft_reserving_coins: every input is claimed, or nothing is.
Claim(d) ==
    /\ Inputs[d] \subseteq Spendable
    /\ reservedBy' = [c \in Coins |->
                        IF c \in Inputs[d] THEN d
                        ELSE IF reservedBy[c] \in Stale THEN None ELSE reservedBy[c]]

\* Coin selection, the row, and the claim, in one transaction.
Build(d) ==
    /\ status[d] = "absent"
    /\ Claim(d)
    /\ status' = [status EXCEPT ![d] = "draft"]
    /\ UNCHANGED <<chainVars, age, idle, height, spent, commandVars, jobVars, crashes>>

\* A selection that builds nothing (a fee estimate, insufficient funds): only
\* the sweep of load_spendable_coins is kept.
Estimate ==
    /\ Release(Stale)
    /\ UNCHANGED <<chainVars, rowVars, spent, commandVars, jobVars, crashes>>

\* Mutants of Delete: the row goes and its coins stay claimed; a draft in
\* flight can be discarded.
DeleteKeepsCoins(d) ==
    /\ Exists(d) /\ status[d] \notin Reached
    /\ Free(d)
    /\ status' = [status EXCEPT ![d] = "deleted"]
    /\ age' = [age EXCEPT ![d] = 0]
    /\ idle' = [idle EXCEPT ![d] = 0]
    /\ UNCHANGED <<chainVars, height, coinVars, commandVars, jobVars, crashes>>

DeleteInFlight(d) ==
    /\ Exists(d) /\ status[d] # "confirmed"
    /\ Free(d)
    /\ Release({d})
    /\ status' = [status EXCEPT ![d] = "deleted"]
    /\ age' = [age EXCEPT ![d] = 0]
    /\ idle' = [idle EXCEPT ![d] = 0]
    /\ UNCHANGED <<chainVars, height, spent, commandVars, jobVars, crashes>>

\* delete_tx_draft
Delete(d) ==
    /\ Exists(d) /\ status[d] \notin Reached
    /\ Free(d)
    /\ Release({d})
    /\ status' = [status EXCEPT ![d] = "deleted"]
    /\ age' = [age EXCEPT ![d] = 0]
    /\ idle' = [idle EXCEPT ![d] = 0]
    /\ UNCHANGED <<chainVars, height, spent, commandVars, jobVars, crashes>>

\* release_tx_draft_reservation: whatever the status.
ReleaseReservation(d) ==
    /\ ReleaseByHand
    /\ Exists(d)
    /\ Release({d})
    /\ UNCHANGED <<chainVars, rowVars, spent, commandVars, jobVars, crashes>>

-----------------------------------------------------------------------------
(* Signing.                                                                *)

\* load_reserved_coins: every coin the draft was reviewed with is still its
\* own, and unspent.
StillReserved(d) == \A c \in Inputs[d] : Holds(d, c) /\ c \notin spent

\* The checks of sign_tx_draft, made again once the user has confirmed; only a
\* send is built again from its reservation.
SignLoad(d) ==
    /\ status[d] \in Sendable
    /\ d \notin signing /\ Free(d)
    /\ d \in Sends => StillReserved(d)
    /\ signing' = signing \cup {d}
    /\ UNCHANGED <<chainVars, rowVars, coinVars, sending, submits, jobVars, crashes>>

\* persist_signed_draft: the status is written whatever it has become.
SignStore(d) ==
    /\ d \in signing
    /\ signing' = signing \ {d}
    /\ SetStatus({d}, [x \in Drafts |-> "signed"])
    /\ UNCHANGED <<chainVars, age, coinVars, sending, submits, jobVars, crashes>>

\* The device refuses, the wallet is locked, or the result is not the
\* reviewed transaction.
SignRefused(d) ==
    /\ d \in signing
    /\ signing' = signing \ {d}
    /\ UNCHANGED <<chainVars, rowVars, coinVars, sending, submits, jobVars, crashes>>

-----------------------------------------------------------------------------
(* Broadcasting.                                                           *)

To(d, s) == sending' = [sending EXCEPT ![d] = s]

\* The first locked section of broadcast_tx_draft: sendable, and signed.
SendLoad(d) ==
    /\ status[d] \in Sendable \ {"draft"}
    /\ sending[d] = "no" /\ Free(d)
    /\ To(d, "loaded")
    /\ UNCHANGED <<chainVars, rowVars, coinVars, signing, submits, jobVars, crashes>>

\* A gate refuses before anything is sent (node unreachable or on another
\* chain, remote node without the opt-in): the row is left as it is.
SendGated(d) ==
    /\ sending[d] = "loaded"
    /\ To(d, "no")
    /\ UNCHANGED <<chainVars, rowVars, coinVars, signing, submits, jobVars, crashes>>

Submit(d) == sending[d] = "loaded" /\ submits < MaxSubmits /\ submits' = submits + 1

\* sendrawtransaction reaches the node; its reply arrives, or is lost.
SubmitDelivered(d) ==
    /\ Submit(d)
    /\ Deliver(d)
    /\ \E s \in {"submitted", "unanswered"} : To(d, s)
    /\ UNCHANGED <<rowVars, coinVars, signing, jobVars, crashes>>

\* It does not reach the node; or hsd cannot decode it, and no node ever could.
SubmitLost(d) ==
    /\ Submit(d)
    /\ \/ To(d, "unanswered")
       \/ d \notin relayed /\ To(d, "refused")
    /\ UNCHANGED <<chainVars, rowVars, coinVars, signing, jobVars, crashes>>

\* What classify_broadcast_outcome may conclude from the look-ups after hsd
\* answered with a txid: taken (or no answer), mined, or not taken.
Outcomes(d) ==
    {"broadcasted"} \cup
    (IF "mined" \in Answers(d) /\ ~HasTxIndex THEN {"confirmed"} ELSE {}) \cup
    (IF Answers(d) \cap {"unspent", "spent", "hidden"} # {} THEN {"broadcast_pending"} ELSE {})

\* The last locked section of broadcast_tx_draft, on hsd's txid.
SendSettle(d) ==
    /\ sending[d] = "submitted"
    /\ \E s \in Outcomes(d) : SetStatus({d}, [x \in Drafts |-> s])
    /\ To(d, "no")
    /\ UNCHANGED <<chainVars, age, coinVars, signing, submits, jobVars, crashes>>

\* The same section when the call had no answer: the outcome is unknown.
SendUnknown(d) ==
    /\ sending[d] = "unanswered"
    /\ SetStatus({d}, [x \in Drafts |-> "broadcast_pending"])
    /\ To(d, "no")
    /\ UNCHANGED <<chainVars, age, coinVars, signing, submits, jobVars, crashes>>

\* Mutant of SendFailed: the refusal is recorded, the coins stay claimed.
SendFailedKeepsCoins(d) ==
    /\ sending[d] = "refused"
    /\ SetStatus({d}, [x \in Drafts |-> "failed"])
    /\ To(d, "no")
    /\ UNCHANGED <<chainVars, age, coinVars, signing, submits, jobVars, crashes>>

\* The same section on hsd's own refusal.
SendFailed(d) ==
    /\ sending[d] = "refused"
    /\ SetStatus({d}, [x \in Drafts |-> "failed"])
    /\ Release({d})
    /\ To(d, "no")
    /\ UNCHANGED <<chainVars, age, spent, signing, submits, jobVars, crashes>>

-----------------------------------------------------------------------------
(* The confirmation poll (refresh_tx_confirmations).                       *)

\* Mutant of ToPoll: drafts given up are not watched.
ToPollLive(d) ==
    CASE status[d] \in {"broadcast_pending", "broadcasted"} -> status[d]
      [] status[d] = "confirmed" /\ height[d] # "final" -> "confirmed"
      [] OTHER -> "off"

\* list_drafts_awaiting_confirmation and list_released_drafts_to_watch.  A
\* confirmed row leaves the poll by its recorded height, mined or not.
ToPoll(d) ==
    CASE status[d] \in {"broadcast_pending", "broadcasted"} -> status[d]
      [] status[d] = "confirmed" /\ height[d] # "final" -> "confirmed"
      [] status[d] \in GivenUp /\ idle[d] < Watch -> "released"
      [] OTHER -> "off"

Resting == \A d \in Drafts : polled[d] = "off"

\* The node answers the probe and the rows are read.
PollStart ==
    /\ Resting
    /\ polled' = [d \in Drafts |-> ToPoll(d)]
    /\ polled' # polled
    /\ UNCHANGED <<chainVars, rowVars, coinVars, commandVars, view, crashes>>

\* Mutants of Verdict: a transaction in the mempool counts as mined; one the
\* node has forgotten, its inputs unspent, is waited for.
VerdictUnmined(was, answer) ==
    CASE answer \in {"mined", "mempool"} -> "confirm"
      [] was = "broadcast_pending" /\ answer = "unspent" -> "fail"
      [] was \in {"broadcast_pending", "broadcasted"} /\ answer = "spent" -> "drop"
      [] OTHER -> "off"

VerdictPatient(was, answer) ==
    CASE answer = "mined" -> "confirm"
      [] was = "confirmed" /\ answer # "hidden" -> "revert"
      [] was = "broadcast_pending" /\ answer = "mempool" -> "promote"
      [] was \in {"broadcast_pending", "broadcasted"} /\ answer = "spent" -> "drop"
      [] OTHER -> "off"

\* The verdict on a draft read in status was, given the node's answer.
Verdict(was, answer) ==
    CASE answer = "mined" -> "confirm"
      [] was = "confirmed" /\ answer # "hidden" -> "revert"
      [] was = "broadcast_pending" /\ answer = "mempool" -> "promote"
      [] was = "broadcast_pending" /\ answer = "unspent" -> "fail"
      [] was = "broadcast_pending" /\ answer = "spent" -> "drop"
      [] was = "broadcasted" /\ answer \in {"unspent", "spent"} -> "drop"
      [] OTHER -> "off"

Look(d) ==
    /\ polled[d] \in Todo
    /\ \E answer \in Answers(d) :
         polled' = [polled EXCEPT ![d] = Verdict(polled[d], answer)]
    /\ UNCHANGED <<chainVars, rowVars, coinVars, commandVars, view, crashes>>

\* A transport error, or a reply that is not hsd's: no verdict.
LookUnanswered(d) ==
    /\ polled[d] \in Todo
    /\ polled' = [polled EXCEPT ![d] = "off"]
    /\ UNCHANGED <<chainVars, rowVars, coinVars, commandVars, view, crashes>>

Looked == \A d \in Drafts : polled[d] \notin Todo

Judging(d) == polled[d] \in {"drop", "fail"}

\* Giving up waits until the row has rested for the grace window.
Judged == {d \in Drafts : polled[d] \in Verdicts /\ (Judging(d) => idle[d] >= Grace)}

\* The age of a row that is gone cannot be read: the error ends the persist,
\* after the confirmations and some of the other verdicts.
Aborts == \E d \in Drafts : Judging(d) /\ ~Exists(d)

Applied == {ds \in SUBSET Judged :
              /\ \A d \in Judged : polled[d] = "confirm" => d \in ds
              /\ ~Aborts => ds = Judged}

\* Mutant of StatusAfter: the verdict is written for the status.
StatusAfterVerdict(d) ==
    CASE polled[d] = "confirm" -> "confirmed"
      [] polled[d] \in {"revert", "promote"} -> "broadcasted"
      [] OTHER -> polled[d]

StatusAfter(d) ==
    CASE polled[d] = "confirm" -> "confirmed"
      [] polled[d] \in {"revert", "promote"} -> "broadcasted"
      [] polled[d] = "drop" -> "dropped"
      [] polled[d] = "fail" -> "failed"
      [] OTHER -> status[d]

\* Mutant of PollPersist: a failed draft keeps its coins.
PollPersistFreesDropped ==
    /\ Looked /\ ~Resting
    /\ \E ds \in Applied :
         /\ SetStatus(ds, [d \in Drafts |-> StatusAfter(d)])
         /\ Release({d \in ds : polled[d] = "drop"})
    /\ polled' = [d \in Drafts |-> "off"]
    /\ UNCHANGED <<chainVars, age, spent, commandVars, view, crashes>>

\* The rows may have changed since they were read: only giving up looks at
\* them again, and only at their age.
PollPersist ==
    /\ Looked /\ ~Resting
    /\ \E ds \in Applied :
         /\ SetStatus(ds, [d \in Drafts |-> StatusAfter(d)])
         /\ Release({d \in ds : Judging(d)})
    /\ polled' = [d \in Drafts |-> "off"]
    /\ UNCHANGED <<chainVars, age, spent, commandVars, view, crashes>>

-----------------------------------------------------------------------------
(* The wallet sync (sync_wallet_state).                                    *)

SyncFetch ==
    /\ view = {}
    /\ view' = {NodeCoins}
    /\ UNCHANGED <<chainVars, rowVars, coinVars, commandVars, polled, crashes>>

\* Mutant of MarkMissing: a coin that is listed again keeps its mark.
MarkMissingOnly(listed) == spent' = spent \cup (Coins \ listed)

\* upsert_utxo clears the mark of every listed coin, mark_missing_as_spent
\* sets it on every other.
MarkMissing(listed) == spent' = Coins \ listed

SyncApply ==
    /\ \E listed \in view : MarkMissing(listed)
    /\ view' = {}
    /\ UNCHANGED <<chainVars, rowVars, reservedBy, commandVars, polled, crashes>>

\* A fetch fails part-way: nothing is written.
SyncFail ==
    /\ view # {}
    /\ view' = {}
    /\ UNCHANGED <<chainVars, rowVars, coinVars, commandVars, polled, crashes>>

-----------------------------------------------------------------------------
(* Time, crashes, the environment.                                         *)

Capped(n, cap) == IF n < cap THEN n + 1 ELSE cap

Tick ==
    /\ age' = [d \in Drafts |-> IF Exists(d) THEN Capped(age[d], Ttl) ELSE 0]
    /\ idle' = [d \in Drafts |-> IF Exists(d) THEN Capped(idle[d], Watch) ELSE 0]
    /\ UNCHANGED <<chainVars, status, height, coinVars, commandVars, jobVars, crashes>>

\* What a crash leaves of the locked section it falls into: nothing, the status
\* of a refused broadcast without the release, or some of the poll's writes.
CutShort ==
    \/ UNCHANGED <<status, idle, height, reservedBy>>
    \/ \E d \in Drafts :
         /\ sending[d] = "refused"
         /\ SetStatus({d}, [x \in Drafts |-> "failed"])
         /\ UNCHANGED reservedBy
    \/ /\ Looked
       /\ \E ds \in SUBSET Judged :
            /\ SetStatus(ds, [d \in Drafts |-> StatusAfter(d)])
            /\ \E freed \in SUBSET {d \in ds : Judging(d)} : Release(freed)

\* The process dies: every command and job is forgotten, the rows are kept.
Crash ==
    /\ Fault /\ crashes < MaxCrashes
    /\ crashes' = crashes + 1
    /\ CutShort
    /\ signing' = {}
    /\ sending' = [d \in Drafts |-> "no"]
    /\ polled' = [d \in Drafts |-> "off"]
    /\ view' = {}
    /\ UNCHANGED <<mempool, mined, buried, landed, relayed, taken, age, spent, submits>>

\* What a recorded height means once the chain has changed.
HeightsFollow ==
    height' = [d \in Drafts |->
                 CASE height[d] = "block" /\ d \notin mined' -> "other"
                   [] height[d] = "block" /\ d \in buried' -> "final"
                   [] OTHER -> height[d]]

Environment ==
    /\ ChainNext
    /\ HeightsFollow
    /\ UNCHANGED <<status, age, idle, coinVars, commandVars, jobVars, crashes>>

\* The tip passes the finality depth above a recorded height its transaction
\* is not at: one that nothing else here tells the time of.
TipPasses(d) ==
    /\ height[d] = "other"
    /\ height' = [height EXCEPT ![d] = "final"]
    /\ UNCHANGED <<chainVars, status, age, idle, coinVars, commandVars, jobVars, crashes>>

Command(d) ==
    \/ Build(d) \/ Delete(d) \/ ReleaseReservation(d)
    \/ SignLoad(d) \/ SignStore(d) \/ SignRefused(d)
    \/ SendLoad(d) \/ SendGated(d) \/ SubmitDelivered(d) \/ SubmitLost(d)
    \/ SendSettle(d) \/ SendUnknown(d) \/ SendFailed(d)

Poll == PollStart \/ PollPersist \/ \E d \in Drafts : Look(d) \/ LookUnanswered(d)

Sync == SyncFetch \/ SyncApply \/ SyncFail

Next ==
    \/ \E d \in Drafts : Command(d)
    \/ Estimate
    \/ Poll
    \/ Sync
    \/ Tick
    \/ Crash
    \/ Environment
    \/ \E d \in Drafts : TipPasses(d)

Spec == Init /\ [][Next]_vars

\* The UI polls every 15 s and syncs on a timer; a node that is asked again
\* and again answers again and again; a call in flight ends.
Polling ==
    /\ WF_polled(PollStart) /\ WF_polled(PollPersist)
    /\ \A d \in Drafts : SF_polled(Look(d))
    /\ \A d \in Drafts : WF_sending(SendSettle(d) \/ SendUnknown(d) \/ SendFailed(d))

Syncing == WF_view(SyncFetch) /\ SF_view(SyncApply)

\* Time passes while a verdict may wait for the grace window.
Waiting == \E d \in Drafts : status[d] \in {"broadcast_pending", "broadcasted"}

FairSpec == Spec /\ Polling /\ Syncing /\ WF_<<age, idle>>(Tick /\ Waiting)

-----------------------------------------------------------------------------
(* Safety.                                                                 *)

\* A reservation always names a draft that exists and spends that coin: the
\* sweep of dangling reservations (release_stale_reservations) finds none.
ReservationsAreOwned ==
    \A c \in Coins : reservedBy[c] # None =>
        Exists(reservedBy[c]) /\ c \in Inputs[reservedBy[c]]

\* A failed or dropped draft holds no coin, whatever raced its verdict; only
\* a crash between the two writes of a verdict leaves it holding some, for
\* the TTL sweep to free.
GivenUpHoldsNothing ==
    crashes = 0 =>
        \A d \in Drafts : status[d] \in GivenUp => \A c \in Coins : ~Holds(d, c)

\* What a row says was sent was sent: a broadcasted transaction was handed to
\* a node, a confirmed one has been in a block, however stale the poll or
\* the broadcast that wrote it (BroadcastOutcome, refresh_tx_confirmations).
SentMeansSent ==
    \A d \in Drafts :
        /\ status[d] = "broadcasted" => d \in relayed
        /\ status[d] = "confirmed" => d \in landed

\* A coin held by a draft that may have reached the chain is freed only by a
\* verdict that gives the draft up: never by the TTL sweep, by a discard, or
\* by another draft's claim (release_stale_reservations, send.rs:185).
CoinFreedByVerdict ==
    \A d \in Drafts, c \in Coins :
        Holds(d, c) /\ status[d] \in Reached /\ ~Holds(d, c)' => status'[d] \in GivenUp

InFlightCoinsFreedOnlyByVerdict == [][CoinFreedByVerdict]_vars

\* queries.rs:1468 says of draft and signed: "the draft statuses of a draft
\* never sent", and delete_tx_draft and the TTL sweep rely on it.
NeverSentWasNeverSent ==
    \A d \in Drafts : status[d] \in Unsent /\ ~Busy(d) => d \notin relayed

\* The reservations, read as claims of whole drafts.
Claiming == {d \in Drafts : \E c \in Coins : Holds(d, c)}

InFlight == {d \in Drafts : status[d] \in Reached}

Claims == INSTANCE CoinClaims WITH claims <- Claiming, out <- InFlight

\* Reservations keep the promise of CoinClaims through every race of builds,
\* sweeps, verdicts, discards and crashes: claimed whole or not at all, never
\* twice, and given back in flight only when the draft leaves it.
ClaimsKept == Claims!Spec

\* send.rs:190: no coin of a draft in flight is selected by another draft.
InFlightCoinsNotReselected ==
    [][\A d, e \in Drafts :
         Build(d) /\ status[e] \in Reached => Inputs[d] \cap Inputs[e] = {}]_vars

-----------------------------------------------------------------------------
(* Liveness.                                                               *)

\* Once the chain and the user come to rest, so do the rows: nothing stays
\* pending, what reads as broadcasted is in the mempool, what reads as
\* confirmed is in the chain.  Not a confirmed row whose recorded height has
\* passed the finality depth while a reorg had un-mined it and nobody polled
\* (the application closed, the node unreachable): list_drafts_awaiting_
\* confirmation goes by that height alone and never looks at it again.
TrackedDraftsConverge ==
    <>[](\A d \in Drafts :
            /\ status[d] # "broadcast_pending"
            /\ status[d] = "broadcasted" => d \in mempool
            /\ status[d] = "confirmed" => d \in mined \/ height[d] = "final")

\* The coin cache catches up with the node, however stale the list a sync
\* applied: in the end the marked coins are those the node does not list.
CacheCatchesUp == <>[](spent = Coins \ NodeCoins)

\* A payment that is mined after it was given up never goes on reading as not
\* sent, while it is watched.
MinedAfterAllIsConfirmed ==
    \A d \in Drafts :
        status[d] \in GivenUp /\ d \in mined /\ idle[d] < Watch
            ~> status[d] \notin GivenUp \/ d \notin mined \/ idle[d] >= Watch
=============================================================================
