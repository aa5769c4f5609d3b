--------------------------- MODULE ShakedexPurchase ---------------------------
(***************************************************************************)
(* One purchase of a name from a Shakedex listing: built, sent, followed   *)
(* on chain by the purchase job of every sync, rebroadcast once, given up, *)
(* found paid after all, undone by a reorg.                                *)
(*                                                                         *)
(* Code: src/src-tauri/src/shakedex_jobs.rs (the job), commands/shakedex.rs*)
(* (build), commands/tx.rs (send, discard, confirmation poll),             *)
(* db/queries.rs (rows).                                                   *)
(*                                                                         *)
(* The job judges a row it read before a series of requests, each a step   *)
(* here: the chain, the user and the confirmation poll move in between.    *)
(* What the job reads is in `job`, what it decides is written when it ends.*)
(* One job runs at a time (SyncLock), the app's or the daemon's.  Coin     *)
(* reservations and re-signing are TxDrafts'; the FINALIZE is sent by      *)
(* anyone (NameSale), for once the lockup is over nothing keeps it ours.   *)
(***************************************************************************)
EXTENDS NameSale

CONSTANTS
    MissingBlocks,  \* MISSING_BLOCKS, in blocks
    ExpiryBlocks,   \* MEMPOOL_EXPIRY_BLOCKS, in blocks
    Window          \* REVIVE_WINDOW_DAYS, in ticks

ASSUME PurchaseAssumption ==
    /\ MissingBlocks \in Nat \ {0} /\ ExpiryBlocks \in Nat
    /\ MissingBlocks < ExpiryBlocks
    /\ Window \in Nat \ {0}

VARIABLES
    state,          \* shakedex_purchases.state; "none" or "gone": no row
    missing,        \* blocks since missing_since_height; None: not missing
    resent,         \* rebroadcast_count
    said,           \* what lost_reason says of the money; None: no reason
    rest,           \* ticks since the row's updated_at, once lost or owned
    draft,          \* the purchase draft's status; "deleted": no row
    age,            \* of a draft not sent: 1 past the TTL, 2 past the grace too
    sending,        \* where the broadcast command is
    polled,         \* the confirmation poll's verdict, not written yet
    job,            \* what the purchase job has read so far
    steady          \* the world of this behaviour, for liveness: nothing crashes,
                    \*   no request of the job fails, the user sends but once

rowVars == <<state, missing, resent, said, rest>>
draftVars == <<draft, age>>
vars == <<saleVars, rowVars, draftVars, sending, polled, job, steady>>

-----------------------------------------------------------------------------

Open == {"pending_send", "unconfirmed", "awaiting_finalize"}
PurchaseState == Open \cup {"owned", "lost"}
NoRow == {"none", "gone"}

Unsent == {"draft", "signed"}
Reached == {"broadcast_pending", "broadcasted", "confirmed"}
GivenUp == {"failed", "dropped"}
DraftStatus == Unsent \cup Reached \cup GivenUp

\* The job asleep.  `at` is its next request, `task` what it does with the row;
\* `missing`, `resent`, `dropped` are the row and draft it read, as long as they are
\* needed, `seen` the owner the node named last.  `since` is for the properties
\* only: no reorg and no expiry since it began, with the purchase in a block
\* then or not.
Asleep == [at |-> "asleep", task |-> None, missing |-> None, resent |-> 0,
           dropped |-> FALSE, seen |-> None, since |-> "calm"]

Requests == {"asleep", "draft", "tx", "lock", "price", "send", "taken", "transfer",
             "name", "owner", "moved", "still", "byhash", "history"}

Missing == 0..ExpiryBlocks \cup {None}

JobType ==
    [at : Requests, task : {"refresh", "mined", "lose", "revive", "recheck", None},
     missing : Missing, resent : 0..1, dropped : BOOLEAN,
     seen : OwnerCoins \cup {"newcomer", None}, since : {"paid", "calm", "stirred"}]

TypeOK ==
    /\ SaleTypeOK
    /\ state \in PurchaseState \cup NoRow
    /\ missing \in Missing
    /\ resent \in 0..1
    /\ said \in {"unpaid", "paid", None}
    /\ rest \in 0..Window
    /\ draft \in DraftStatus \cup {"absent", "deleted"}
    /\ age \in 0..2
    /\ sending \in {"no", "loaded", "reloaded", "checked", "submitted", "unanswered", "refused"}
    /\ polled \in {"off", "broadcasted", "confirmed"}
    /\ job \in JobType
    /\ steady \in BOOLEAN

Init ==
    /\ SaleInit
    /\ state = "none" /\ missing = None /\ resent = 0 /\ said = None /\ rest = 0
    /\ draft = "absent" /\ age = 0
    /\ sending = "no"
    /\ polled = "off"
    /\ job = Asleep
    /\ steady \in BOOLEAN

-----------------------------------------------------------------------------
(* Writes to the two rows.  An UPDATE of a row that is gone writes nothing.*)

\* update_shakedex_purchase_state, whatever the row's state has become.
Save(to, since, count, words) ==
    IF state \in NoRow THEN UNCHANGED rowVars
    ELSE /\ state' = to /\ missing' = since /\ resent' = count /\ said' = words
         /\ rest' = 0

\* update_tx_draft_status
SetDraft(to) ==
    /\ draft' = IF draft = "deleted" THEN draft ELSE to
    /\ age' = 0

ForgetRow ==
    /\ state' = "gone" /\ missing' = None /\ resent' = 0 /\ said' = None /\ rest' = 0

DeleteDraft == draft' = "deleted" /\ age' = 0

\* delete_tx_draft: a purchase not sent yet goes with its draft.
DiscardDraft ==
    /\ DeleteDraft
    /\ IF state = "pending_send" THEN ForgetRow ELSE UNCHANGED rowVars

-----------------------------------------------------------------------------
(* The user: build, sign, discard.                                         *)

\* shakedex_build_purchase_draft: the listing was just verified at its current
\* step; the draft and the row are one transaction.
Build ==
    /\ state = "none"
    /\ LockCoin /\ life = "live" /\ Prices[price] = "current"
    /\ state' = "pending_send"
    /\ draft' = "draft"
    /\ UNCHANGED <<saleVars, missing, resent, said, rest, age, sending, polled, job>>

Sign ==
    /\ draft = "draft"
    /\ draft' = "signed"
    /\ UNCHANGED <<saleVars, rowVars, age, sending, polled, job>>

\* Discard in the list of drafts to finish, one command at a time on a draft.
Discard ==
    /\ draft \in Unsent \cup GivenUp
    /\ sending = "no"
    /\ DiscardDraft
    /\ UNCHANGED <<saleVars, sending, polled, job>>

-----------------------------------------------------------------------------
(* The user: send (broadcast_tx_draft).                                    *)

\* The first locked section: an unsent draft past the TTL is deleted with its
\* purchase.  A draft that may have been sent before is `reloaded`.
SendLoad ==
    /\ draft \in {"signed", "broadcast_pending"} /\ sending = "no" /\ polled = "off"
    /\ draft = "broadcast_pending" => ~steady
    /\ IF draft = "signed" /\ age > 0
       THEN DeleteDraft /\ ForgetRow /\ UNCHANGED sending
       ELSE /\ sending' = IF draft = "signed" THEN "loaded" ELSE "reloaded"
            /\ UNCHANGED <<draftVars, rowVars>>
    /\ UNCHANGED <<saleVars, polled, job>>

\* A gate refuses (node unreachable, on another chain, without the opt-in).
SendGated ==
    /\ sending \in {"loaded", "reloaded"}
    /\ sending' = "no"
    /\ UNCHANGED <<saleVars, rowVars, draftVars, polled, job>>

SendChecked ==
    /\ sending \in {"loaded", "reloaded"}
    /\ Prices[price] = "current"
    /\ sending' = "checked"
    /\ UNCHANGED <<saleVars, rowVars, draftVars, polled, job>>

\* Mutant of SendRecheckFails: a retry that is refused is discarded too.
SendRecheckDiscards ==
    /\ sending \in {"loaded", "reloaded"}
    /\ sending' = "no"
    /\ DeleteDraft /\ ForgetRow
    /\ UNCHANGED <<saleVars, polled, job>>

\* recheck_purchase refuses, or cannot tell: a purchase never sent is
\* discarded, an attempt the node may hold is left to the sync.
SendRecheckFails ==
    /\ sending \in {"loaded", "reloaded"}
    /\ sending' = "no"
    /\ IF sending = "loaded" /\ draft \notin Reached \cup {"deleted"}
       THEN DiscardDraft
       ELSE UNCHANGED <<draftVars, rowVars>>
    /\ UNCHANGED <<saleVars, polled, job>>

SubmitDelivered ==
    /\ sending = "checked"
    /\ DeliverPurchase
    /\ sending' \in {"submitted", "unanswered"}
    /\ UNCHANGED <<rowVars, draftVars, polled, job>>

\* The call does not reach the node; or hsd cannot decode what it was sent.
SubmitLost ==
    /\ sending = "checked"
    /\ sending' \in {"unanswered"} \cup (IF relayed THEN {} ELSE {"refused"})
    /\ UNCHANGED <<saleVars, rowVars, draftVars, polled, job>>

\* Does the node show the purchase, in the mempool, by its index or by a coin
\* (taken_by_node_with_client)?
Shown == TxAnswer # "null" \/ TransferCoin # "none"

\* The last locked section: hsd answered with the txid.
SendSettle ==
    /\ sending = "submitted"
    /\ \E s \in {"broadcasted"} \cup
           (IF Shown THEN {} ELSE {"broadcast_pending"}) \cup
           (IF TxAnswer = "null" /\ TransferCoin = "mined" THEN {"confirmed"} ELSE {}) :
         SetDraft(s)
    /\ sending' = "no"
    /\ UNCHANGED <<saleVars, rowVars, polled, job>>

\* The same section with no answer, or with hsd's refusal.
SendFails ==
    /\ sending \in {"unanswered", "refused"}
    /\ SetDraft(IF sending = "refused" THEN "failed" ELSE "broadcast_pending")
    /\ sending' = "no"
    /\ UNCHANGED <<saleVars, rowVars, polled, job>>

-----------------------------------------------------------------------------
(* The confirmation poll of a purchase draft: it never gives one up.       *)

\* The verdict on the draft as read; a refusal to judge is no verdict.  Bound: a
\* poll and a send do not overlap (in TxDrafts they do).
PollRead ==
    /\ polled = "off" /\ sending = "no" /\ draft \in Reached
    /\ polled' =
         CASE TxAnswer = "mined" -> "confirmed"
           [] TxAnswer = "mempool" /\ draft # "broadcasted" -> "broadcasted"
           [] draft = "confirmed" /\ TxAnswer = "null" ->
                IF TransferCoin = "mined" THEN "confirmed"
                ELSE IF "tx" \in indexes \/ LockCoin THEN "broadcasted" ELSE "off"
           [] OTHER -> "off"
    /\ UNCHANGED <<saleVars, rowVars, draftVars, sending, job>>

\* Written over whatever the draft has become.
PollWrite ==
    /\ polled # "off"
    /\ SetDraft(polled)
    /\ polled' = "off"
    /\ UNCHANGED <<saleVars, rowVars, sending, job>>

-----------------------------------------------------------------------------
(* The purchase job (refresh_purchases_with_client).  The app may rebroadcast *)
(* and the daemon may not: that is one of the outcomes of JobLock.            *)

Ask(request) == job' = [job EXCEPT !.at = request]
End == job' = Asleep

Conclude(to, since, count, words) == Save(to, since, count, words) /\ End

Unconfirmed(since, count) == Conclude("unconfirmed", since, count, None) /\ UNCHANGED draftVars
AwaitFinalize == Conclude("awaiting_finalize", None, job.resent, None)
Owned == Conclude("owned", None, job.resent, None)
LostPaid == Conclude("lost", None, job.resent, "paid")

\* Mutant of MarkLost: the draft is given the purchase's status.
MarkLostDraftToo ==
    /\ Conclude("lost", None, job.resent, "unpaid")
    /\ IF draft \in {"confirmed", "failed"} THEN UNCHANGED draftVars ELSE SetDraft("lost")

\* A draft that never mined ends with its purchase; a confirmed one keeps its
\* status, and so does a refused one (save_lost).
MarkLost ==
    /\ Conclude("lost", None, job.resent, "unpaid")
    /\ IF draft \in {"confirmed", "failed"} THEN UNCHANGED draftVars ELSE SetDraft("dropped")

\* Mutant of Lose: given up without asking the chain again.
LoseUntraced(count) ==
    /\ Conclude("lost", None, count, "unpaid")
    /\ IF draft \in {"confirmed", "failed"} THEN UNCHANGED draftVars ELSE SetDraft("dropped")

\* Job::trace, for the sake of task.
Trace(task, count) ==
    /\ job' = [job EXCEPT !.at = "transfer", !.task = task, !.resent = count,
                          !.missing = None, !.dropped = FALSE]
    /\ UNCHANGED <<rowVars, draftVars>>

\* lose_unless_traced: the trace decides.
Lose(count) == Trace("lose", count)

\* A revived purchase did pay: its draft is tracked again.
Track == IF job.task = "revive" THEN SetDraft("broadcasted") ELSE UNCHANGED draftVars

Look == UNCHANGED <<rowVars, draftVars>>

\* Mutant of Task: a lost purchase is not looked at again.
TaskForgetsLost ==
    CASE state \in Open -> "refresh"
      [] state = "owned" /\ rest < Window -> "recheck"
      [] OTHER -> None

\* The lists the job reads: open purchases, those lost while paying nothing,
\* and those owned, the last two for REVIVE_WINDOW_DAYS.
Task ==
    CASE state \in Open -> "refresh"
      [] state = "lost" /\ rest < Window /\ draft \in GivenUp \cup {"deleted"} -> "revive"
      [] state = "owned" /\ rest < Window -> "recheck"
      [] OTHER -> None

JobStart ==
    /\ job.at = "asleep" /\ Task # None
    /\ job' = [Asleep EXCEPT !.at = IF Task = "refresh" THEN "draft" ELSE "transfer",
                             !.task = Task, !.missing = missing, !.resent = resent,
                             !.since = IF Mined("purchase") THEN "paid" ELSE "calm"]
    /\ Look /\ UNCHANGED saleVars

\* Mutant of JobDraft: the grace past the TTL is not waited for.
JobDraftNoGrace ==
    /\ job.at = "draft"
    /\ \/ draft = "deleted" /\ ForgetRow /\ End /\ UNCHANGED draftVars
       \/ draft = "failed" /\ Lose(job.resent)
       \/ draft \in Unsent /\ age = 0 /\ End /\ Look
       \/ draft \in Unsent /\ age > 0 /\ DeleteDraft /\ ForgetRow /\ End
       \/ /\ draft \in Reached \cup {"dropped"}
          /\ job' = [job EXCEPT !.at = "tx", !.dropped = (draft = "dropped")]
          /\ Look
    /\ UNCHANGED saleVars

\* Job::refresh, on the draft as it is now.
JobDraft ==
    /\ job.at = "draft"
    /\ \/ draft = "deleted" /\ ForgetRow /\ End /\ UNCHANGED draftVars
       \/ draft = "failed" /\ Lose(job.resent)
       \/ draft \in Unsent /\ age < 2 /\ End /\ Look
       \/ draft \in Unsent /\ age = 2 /\ DeleteDraft /\ ForgetRow /\ End
       \/ /\ draft \in Reached \cup {"dropped"}
          /\ job' = [job EXCEPT !.at = "tx", !.dropped = (draft = "dropped")]
          /\ Look
    /\ UNCHANGED saleVars

\* Job::refresh_from_chain
JobTx ==
    /\ job.at = "tx"
    /\ \/ TxAnswer = "null" /\ Ask("lock") /\ Look
       \/ TxAnswer = "mempool" /\ Unconfirmed(None, job.resent)
       \/ TxAnswer = "mined" /\ Trace("mined", job.resent)
    /\ UNCHANGED saleVars

\* How long it has been missing, from now on if it was not before.
Since == IF job.missing = None THEN 0 ELSE job.missing

\* Not sent from here: wait, until no mempool holds it any more.
Wait ==
    \/ Since >= ExpiryBlocks /\ Lose(job.resent)
    \/ Since < ExpiryBlocks /\ Unconfirmed(Since, job.resent)

\* Job::refresh_missing, up to the broadcast gates.
JobLock ==
    /\ job.at = "lock"
    /\ \/ ~LockCoin /\ Lose(job.resent)
       \/ LockCoin /\ Since < MissingBlocks /\ Unconfirmed(Since, job.resent)
       \/ /\ LockCoin /\ Since >= MissingBlocks
          /\ \/ (job.resent > 0 \/ job.dropped) /\ Lose(job.resent)
             \/ job.resent = 0 /\ ~job.dropped /\ (Wait \/ (Ask("price") /\ Look))
    /\ UNCHANGED saleVars

JobPrice ==
    /\ job.at = "price"
    /\ \/ Prices[price] = "cheaper" /\ Lose(job.resent)
       \/ Prices[price] = "early" /\ Wait
       \/ Prices[price] = "current" /\ Ask("send") /\ Look
    /\ UNCHANGED saleVars

\* The one rebroadcast; a reply that does not come leaves it unspent.  What hsd
\* could not decode once, it never can.
JobSend ==
    /\ job.at = "send"
    /\ \/ /\ sending # "refused" /\ draft # "failed"
          /\ DeliverPurchase
          /\ (Ask("taken") \/ End)
          /\ Look
       \/ ~relayed /\ Lose(1) /\ UNCHANGED saleVars

\* Taken, or no answer: the rebroadcast is spent either way.
JobTaken ==
    /\ job.at = "taken"
    /\ \/ Unconfirmed(None, 1)
       \/ ~Shown /\ Lose(1)
    /\ UNCHANGED saleVars

\* The TRANSFER coin: the first request of Job::trace, and recheck_owned's.
JobTransfer ==
    /\ job.at = "transfer"
    /\ \/ TransferCoin = "none" /\ job.task = "recheck" /\ End /\ Look
       \/ TransferCoin = "none" /\ job.task # "recheck" /\ Ask("name") /\ Look
       \/ TransferCoin = "mined" /\ job.task = "recheck" /\ AwaitFinalize /\ UNCHANGED draftVars
       \/ TransferCoin = "mined" /\ job.task # "recheck" /\ Ask("moved") /\ Look
       \/ TransferCoin = "mempool" /\ job.task = "mined" /\ Ask("moved") /\ Look
       \/ TransferCoin = "mempool" /\ job.task = "revive" /\ End /\ Look
       \/ TransferCoin = "mempool" /\ job.task \in {"lose", "recheck"}
            /\ Unconfirmed(None, job.resent)
    /\ UNCHANGED saleVars

\* The trace ends at a coin that is not ours.
NotOurs ==
    \/ job.task = "lose" /\ MarkLost
    \/ job.task = "mined" /\ Ask("history") /\ Look
    \/ job.task = "revive" /\ End /\ Look

\* Then the name's owner.
JobName ==
    /\ job.at = "name"
    /\ \/ NameOwner = "nobody" /\ NotOurs
       \/ NameOwner = "purchase" /\ job.task # "revive" /\ AwaitFinalize /\ UNCHANGED draftVars
       \/ NameOwner = "purchase" /\ job.task = "revive" /\ End /\ Look
       \/ /\ NameOwner \notin {"nobody", "purchase"}
          /\ job' = [job EXCEPT !.at = "owner", !.seen = NameOwner]
          /\ Look
    /\ UNCHANGED saleVars

\* Mutants of JobOwner: an owner coin spent in the mempool is read as someone
\* else's; a lost purchase is owned once the name is at its destination.
JobOwnerHidden ==
    /\ job.at = "owner"
    /\ \/ OwnerCoinAt(job.seen) \in {"none", "elsewhere"} /\ NotOurs
       \/ OwnerCoinAt(job.seen) = "home" /\ job.task # "revive" /\ Owned /\ UNCHANGED draftVars
       \/ OwnerCoinAt(job.seen) = "home" /\ job.task = "revive" /\ Ask("byhash") /\ Look
    /\ UNCHANGED saleVars

JobOwnerTrusted ==
    /\ job.at = "owner"
    /\ \/ OwnerCoinAt(job.seen) = "none" /\ End /\ Look
       \/ OwnerCoinAt(job.seen) = "elsewhere" /\ NotOurs
       \/ OwnerCoinAt(job.seen) = "home" /\ Owned /\ Track
    /\ UNCHANGED saleVars

\* Then where the owner coin is: spent in the mempool, it gives no verdict.  A
\* lost purchase is asked for by hash before it is owned, unless the node is
\* known to keep no index (its indexes may not have been read).
JobOwner ==
    /\ job.at = "owner"
    /\ \/ OwnerCoinAt(job.seen) = "none" /\ End /\ Look
       \/ OwnerCoinAt(job.seen) = "elsewhere" /\ NotOurs
       \/ /\ OwnerCoinAt(job.seen) = "home"
          /\ \/ job.task # "revive" /\ Owned /\ UNCHANGED draftVars
             \/ job.task = "revive" /\ "tx" \notin indexes /\ End /\ Look
             \/ job.task = "revive" /\ Ask("byhash") /\ Look
    /\ UNCHANGED saleVars

\* Mutant of JobMoved: the TRANSFER is not read again.
JobMovedOnce ==
    /\ job.at = "moved"
    /\ \/ NameOwner = "purchase" /\ AwaitFinalize /\ Track
       \/ NameOwner # "purchase" /\ LostPaid /\ Track
    /\ UNCHANGED saleVars

\* name_moved_on: a name that left its TRANSFER, unless the TRANSFER was spent
\* while the name was being read.
JobMoved ==
    /\ job.at = "moved"
    /\ \/ NameOwner = "purchase" /\ AwaitFinalize /\ Track
       \/ NameOwner # "purchase" /\ Ask("still") /\ Look
    /\ UNCHANGED saleVars

JobStill ==
    /\ job.at = "still"
    /\ \/ TransferCoin = "none" /\ End /\ Look
       \/ TransferCoin # "none" /\ LostPaid /\ Track
    /\ UNCHANGED saleVars

\* mined_height, of a lost purchase whose name is at its destination.
JobByHash ==
    /\ job.at = "byhash"
    /\ \/ TxAnswer # "mined" /\ End /\ Look
       \/ TxAnswer = "mined" /\ Owned /\ Track
    /\ UNCHANGED saleVars

\* after_transfer_spent
JobHistory ==
    /\ job.at = "history"
    /\ \/ FinalizeListed = "none" /\ End /\ Look
       \/ FinalizeListed = "mempool" /\ AwaitFinalize /\ UNCHANGED draftVars
       \/ FinalizeListed = "mined" /\ Owned /\ UNCHANGED draftVars
    /\ UNCHANGED saleVars

\* A request fails, or its reply is not hsd's: the purchase waits for the next
\* sync.
JobFails ==
    /\ job.at \notin {"asleep", "draft", "taken"}
    /\ End /\ Look /\ UNCHANGED <<saleVars, sending, polled>>

JobStep ==
    \/ JobDraft \/ JobTx \/ JobLock \/ JobPrice \/ JobSend \/ JobTaken
    \/ JobTransfer \/ JobName \/ JobOwner \/ JobMoved \/ JobStill
    \/ JobByHash \/ JobHistory

Job == (JobStart \/ JobStep) /\ UNCHANGED <<sending, polled>>

-----------------------------------------------------------------------------
(* Time, crashes, the chain.                                               *)

\* A job reads the tip and the clock when it begins: blocks and time count from
\* one job to the next.
Block ==
    /\ job.at = "asleep" /\ missing \in 0..(ExpiryBlocks - 1)
    /\ missing' = missing + 1
    /\ UNCHANGED <<saleVars, state, resent, said, rest, draftVars, sending, polled, job>>

\* A draft not sent ages; the grace outlasts a send that began within the TTL
\* (SEND_GRACE_SECS against a few bounded requests).
AgeTick ==
    /\ job.at = "asleep" /\ draft \in Unsent /\ age < 2
    /\ age = 1 => sending = "no"
    /\ age' = age + 1
    /\ UNCHANGED <<saleVars, rowVars, draft, sending, polled, job>>

RestTick ==
    /\ job.at = "asleep" /\ state \in {"owned", "lost"} /\ rest < Window
    /\ rest' = rest + 1
    /\ UNCHANGED <<saleVars, state, missing, resent, said, draftVars, sending, polled, job>>

\* Commands and syncs stop where they are; what they wrote stays.
Crash ==
    /\ sending' = "no" /\ polled' = "off" /\ job' = Asleep
    /\ UNCHANGED <<saleVars, rowVars, draftVars>>

Chain ==
    /\ SaleNext
    /\ job' = IF job.at = "asleep" \/ (Len(owners') >= Len(owners) /\ life' = life) THEN job
              ELSE [job EXCEPT !.since = "stirred"]
    /\ UNCHANGED <<rowVars, draftVars, sending, polled>>

User == Build \/ Sign \/ Discard

Send ==
    \/ SendLoad \/ SendGated \/ SendChecked \/ SendRecheckFails
    \/ SubmitDelivered \/ SubmitLost \/ SendSettle \/ SendFails

Answered ==
    \/ User \/ Send
    \/ PollRead \/ PollWrite
    \/ Job
    \/ Block \/ AgeTick \/ RestTick
    \/ Chain

Next == (Answered \/ (~steady /\ (JobFails \/ Crash))) /\ UNCHANGED steady

Spec == Init /\ [][Next]_vars

\* Every sync runs the job, whose requests are bounded by a timeout; a send in
\* progress ends; blocks come and an unsent draft ages; the reply to a rebroadcast
\* is not lost every time.  A job that fails or is cut short has written nothing,
\* as if it had not run: liveness is stated of the steady world.
Steadily(A) == steady /\ A /\ UNCHANGED steady

Fairness ==
    /\ WF_vars(Steadily(JobStart /\ UNCHANGED <<sending, polled>>))
    /\ WF_vars(Steadily(JobStep /\ UNCHANGED <<sending, polled>>))
    /\ SF_vars(Steadily(JobSend /\ job'.at = "taken" /\ UNCHANGED <<sending, polled>>))
    /\ WF_vars(Steadily(SendGated \/ SendSettle \/ SendFails \/ SubmitLost))
    /\ SF_vars(Steadily(Block)) /\ SF_vars(Steadily(AgeTick))

FairSpec == Spec /\ Fairness

-----------------------------------------------------------------------------
(* Safety.                                                                 *)

\* A purchase some node was handed is never forgotten by the job or by a
\* refused send, however late they come: its row goes only with a draft the
\* user discards, or one that reads as not sent while it is not at the node, as
\* a crash in the middle of a send leaves it (delete_abandoned_shakedex_purchase,
\* SEND_GRACE_SECS, broadcast_tx_draft).
AtNode == sending \in {"submitted", "unanswered", "refused"}

SentPurchaseKept ==
    [][state' = "gone" /\ state # "gone" /\ relayed =>
         draft = "deleted" \/ (draft \in Unsent /\ ~AtNode)]_vars

\* No purchase is declared lost while anything on chain still traces to it: a
\* verdict reached while no reorg or expiry came between its requests is true
\* (lose_unless_traced, name_moved_on).  "Nothing was paid" is said of no
\* purchase that was in a block when the job began (but on a node without the
\* index, once its owner moved the name on); "paid, but the name is lost" only
\* of a name that expired.
BecomesLost(words) == state' = "lost" /\ said' = words /\ (state # "lost" \/ said # words)

LossIsTrue ==
    [][/\ BecomesLost("unpaid") /\ job.since = "paid" =>
            owner = "moved" /\ "tx" \notin indexes
       /\ BecomesLost("paid") /\ job.since # "stirred" => life # "live"]_vars

\* A lost purchase becomes owned only if it was mined: the name may be at its
\* destination through another purchase of the same listing (Job::revive).
RevivedWasMined == [][state = "lost" /\ state' = "owned" => landed]_vars

-----------------------------------------------------------------------------
(* Liveness.                                                               *)

\* Once chain and mempool come to rest the row tells what became of the
\* purchase: nothing is pending or unconfirmed, what awaits its FINALIZE owns
\* the name (or has moved on, on a node whose history cannot show it), what
\* reads as owned does not await it, and no purchase that paid reads as unpaid
\* while it is looked at (refresh, revive, recheck_owned).
Told ==
    /\ state \notin {"pending_send", "unconfirmed"}
    /\ state = "awaiting_finalize" =>
          /\ life = "live"
          /\ owner = "purchase" \/ (owner = "moved" /\ indexes # {"tx", "address"})
    /\ state = "owned" /\ rest < Window => owner # "purchase"
    /\ state = "lost" /\ said = "unpaid" /\ draft \in GivenUp \cup {"deleted"} /\ rest < Window
          => owner # "purchase"

PurchaseSettles == steady => <>[](pool = None => Told)

\* queries.rs:1560 says "A purchase past `pending_send` is the chain's to
\* decide": once in the chain such a row is not deleted.
PaidPurchaseKept ==
    [][state' = "gone" /\ Mined("purchase") => state \in {"pending_send", "gone"}]_vars
=============================================================================
