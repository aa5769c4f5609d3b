-------------------------- MODULE ShakedexListing --------------------------
(***************************************************************************)
(* One Shakedex listing: its row (db/queries.rs, the guarded writes of     *)
(* ListingWrite), the sync job that follows it on chain (shakedex_jobs.rs) *)
(* and the seller's commands (commands/shakedex.rs, commands/names.rs).    *)
(*                                                                         *)
(* The job reads the row and then the node: its first request is a step,   *)
(* and the rest of them with the write another, so that the chain, the     *)
(* seller's commands and the drafts' poll move in between.  A command that *)
(* asks the seller first is two steps too.  The drafts' own life is        *)
(* TxDrafts; here a draft has the status the jobs read.                    *)
(***************************************************************************)
EXTENDS LockChain

CONSTANTS
    Ours,        \* the FINALIZEs this device may build
    OurCancels,  \* the Cancels it may build over one lock coin
    TxIndex,     \* the node has its transaction index
    Devices,     \* "seller": makes the listing; "fresh": restores its lock by name
    MaxCommands, \* the seller's commands
    MaxPrompts,  \* commands open at once
    MaxFails     \* syncs that end in an error

ASSUME ListingAssumption ==
    /\ Ours \subseteq Finals /\ OurCancels \subseteq Cancels /\ TxIndex \in BOOLEAN
    /\ Devices \subseteq {"seller", "fresh"} /\ "there" \in Finals \ Ours
    /\ MaxCommands \in Nat /\ MaxPrompts \in Nat /\ MaxFails \in Nat

VARIABLES
    row,     \* the listing, or NoRow
    drafts,  \* the status of the draft of each of our transactions
    signed,  \* the lock coins recorded as signed over
    sets,    \* history: step sets signed over each lock coin
    cmds,    \* the seller's commands that wait: at a prompt, for a request
    job,     \* the sync job
    budget,  \* commands and failures left
    device   \* which of Devices this one is

listingVars == <<row, drafts, signed, sets, cmds, job, budget, device>>
vars == <<chainVars, listingVars>>

T == <<"lock">>
A == <<"lock", "abort">>
Lock(f) == Append(T, f)
CancelsOf(lock) == {Append(lock, k) : k \in OurCancels}
HomeOf(c) == Append(c, "home")
Locks == {Lock(f) : f \in Finals}
OurCancelPaths == UNION {CancelsOf(l) : l \in Locks}
MinedCancels == {Append(l, c) : l \in Locks, c \in Cancels}

OurPaths ==
    {T, A} \cup {Lock(f) : f \in Ours} \cup OurCancelPaths \cup {HomeOf(c) : c \in MinedCancels}

-----------------------------------------------------------------------------
BeforeLock == {"locking", "ready_to_finalize"}
CancelMinedStates == {"cancel_awaiting_finalize", "cancel_finalizing"}
AfterLock ==
    {"finalizing", "listed", "sale_pending", "restored", "sold", "cancelling", "cancelled"}
        \cup CancelMinedStates
States == BeforeLock \cup AfterLock \cup {"aborted", "expired"}
ExportAllowed == {"listed", "sale_pending", "cancelling"} \cup CancelMinedStates

\* A transaction of ours is built once: "deleted" is a draft that was there.
DraftStatuses == {"none", "unsent", "out", "confirmed", "dead", "deleted"}
Alive(d) == d # None /\ drafts[d] \in {"unsent", "out", "confirmed"}
MayStillLand(d) == drafts[d] \in {"unsent", "out"}

NoRow == [state |-> "none"]

NewRow ==
    [state |-> "locking", transfer |-> TRUE, lock |-> None, final |-> None,
     file |-> None, pay |-> TRUE, abort |-> FALSE, sold |-> None,
     cancel |-> None, out |-> FALSE, cancelDraft |-> None, home |-> None,
     count |-> "null"]

RestoredRow(lock) ==
    [NewRow EXCEPT !.state = "restored", !.transfer = FALSE, !.lock = lock, !.pay = FALSE]

\* The states each write moves a listing from.
From(w) ==
    CASE w = "Ready" -> {"locking"}
      [] w = "LockingAgain" -> {"ready_to_finalize"}
      [] w = "Finalize" -> {"ready_to_finalize"}
      [] w \in {"RevertToReady", "Listed"} -> {"finalizing"}
      [] w = "FinalizingAgain" -> {"listed"}
      [] w = "EndBeforeLock" -> BeforeLock \cup {"finalizing"}
      [] w \in {"Unabort"} -> {"aborted"}
      [] w = "SalePending" -> {"finalizing", "listed", "sale_pending", "restored"}
      [] w = "Sell" -> {"finalizing", "listed", "sale_pending", "restored", "cancelling"}
                           \cup CancelMinedStates
      [] w = "ProvenLockSale" -> BeforeLock
      [] w = "Resell" -> {"sold"}
      [] w = "Unsell" -> {"sale_pending", "sold"}
      [] w = "ExpireLocked" -> {"listed", "sale_pending", "restored", "cancelling"}
                                   \cup CancelMinedStates
      [] w \in {"Unadopt", "Upgrade"} -> {"restored"}
      [] w = "Cancel" -> {"listed", "restored"}
      [] w = "Uncancel" -> {"cancelling"}
      [] w = "CancelMined" -> {"finalizing", "listed", "sale_pending", "sold", "restored",
                               "cancelling"} \cup CancelMinedStates
      [] w \in {"CancelUnmined", "CancelDone"} -> CancelMinedStates
      [] w = "FinalizeCancel" -> {"cancel_awaiting_finalize"}
      [] w = "RevertCancelFinalize" -> {"cancel_finalizing"}
      [] w \in {"CancelUndone", "CancelledUnmined"} -> {"cancelled"}

\* A guarded UPDATE of the row r: the row it leaves.
Moved(w, r, guard, new) == IF r.state \in From(w) /\ guard THEN new ELSE r

Dropped(r) == [r EXCEPT !.final = None, !.file = None]

\* Mutant: what ended the listing is believed whatever its FINALIZE may do.
EndsBeforeLockAnyway(r) == r = r

EndsBeforeLock(r) == r.state = "finalizing" => ~Alive(r.final)

Ready(r) == Moved("Ready", r, TRUE, [r EXCEPT !.state = "ready_to_finalize"])
LockingAgain(r) == Moved("LockingAgain", r, TRUE, [r EXCEPT !.state = "locking"])
EndBeforeLock(r, to) ==
    Moved("EndBeforeLock", r, EndsBeforeLock(r),
          [Dropped(r) EXCEPT !.state = to, !.lock = None])
\* Mutant: the steps of the dead FINALIZE stay.
AdoptElsewhereKeepsFile(r, lock) ==
    Moved("EndBeforeLock", r, EndsBeforeLock(r),
          [r EXCEPT !.state = "restored", !.lock = lock, !.abort = FALSE])

AdoptElsewhere(r, lock) ==
    Moved("EndBeforeLock", r, EndsBeforeLock(r),
          [Dropped(r) EXCEPT !.state = "restored", !.lock = lock, !.abort = FALSE])
Unabort(r) == Moved("Unabort", r, TRUE, [r EXCEPT !.state = "locking"])
Finalize(r, lock) ==
    Moved("Finalize", r, TRUE,
          [r EXCEPT !.state = "finalizing", !.lock = lock, !.final = lock, !.file = lock])
RevertToReady(r) ==
    Moved("RevertToReady", r, TRUE,
          [Dropped(r) EXCEPT !.state = "ready_to_finalize", !.lock = None])
Listed(r) == Moved("Listed", r, TRUE, [r EXCEPT !.state = "listed"])
FinalizingAgain(r) == Moved("FinalizingAgain", r, TRUE, [r EXCEPT !.state = "finalizing"])
SaleWrite(r, to, bought) == [r EXCEPT !.state = to, !.sold = bought, !.home = None, !.count = "null"]
SalePending(r, p, lock) ==
    Moved("SalePending", r, r.lock = lock, SaleWrite(r, "sale_pending", Append(lock, p)))
Sell(r, p, lock) == Moved("Sell", r, r.lock = lock, SaleWrite(r, "sold", Append(lock, p)))
ProvenLockSale(r, p, lock) ==
    Moved("ProvenLockSale", r, r.lock = None,
          [r EXCEPT !.state = "sold", !.sold = Append(lock, p), !.lock = lock])
Resell(r, to, p, lock) ==
    Moved("Resell", r, r.lock = lock, [r EXCEPT !.state = to, !.sold = Append(lock, p)])
Unsell(r, to) ==
    Moved("Unsell", r, to = "listed" => r.file # None, [r EXCEPT !.state = to, !.sold = None])
ExpireLocked(r) == Moved("ExpireLocked", r, TRUE, [r EXCEPT !.state = "expired"])
Unadopt(r) == Moved("Unadopt", r, r.transfer, [r EXCEPT !.state = "locking", !.lock = None])
Upgrade(r, lock) ==
    Moved("Upgrade", r, r.lock = lock, [r EXCEPT !.state = "listed", !.pay = TRUE, !.file = lock])
Cancel(r, c, lock) ==
    Moved("Cancel", r, r.lock = lock,
          [r EXCEPT !.state = "cancelling", !.cancel = c, !.out = FALSE, !.cancelDraft = c])
Uncancel(r, to) ==
    Moved("Uncancel", r, to = "listed" => r.file # None,
          [r EXCEPT !.state = to, !.cancelDraft = None, !.cancel = None, !.out = FALSE,
                    !.count = "null"])
\* Mutant: the lock coin stored in place of the cancel's.
CancelMinedOfLock(r, c, lock) ==
    Moved("CancelMined", r, r.lock = lock,
          [r EXCEPT !.state = "cancel_awaiting_finalize", !.cancel = lock, !.out = TRUE,
                    !.count = "null", !.home = None, !.sold = None])

CancelMined(r, c, lock) ==
    Moved("CancelMined", r, r.lock = lock,
          [r EXCEPT !.state = "cancel_awaiting_finalize", !.cancel = c, !.out = TRUE,
                    !.count = "null", !.home = None, !.sold = None])
Unmined(r) ==
    [r EXCEPT !.state = "cancelling", !.out = FALSE, !.count = "null", !.home = None]
CancelUnmined(r, c) == Moved("CancelUnmined", r, r.cancel = c, Unmined(r))
CancelledUnmined(r, c) == Moved("CancelledUnmined", r, r.cancel = c, Unmined(r))
FinalizeCancel(r, c) ==
    Moved("FinalizeCancel", r, r.cancel = c /\ r.out,
          [r EXCEPT !.state = "cancel_finalizing", !.home = HomeOf(c)])
RevertCancelFinalize(r, h) ==
    Moved("RevertCancelFinalize", r, r.home = h,
          [r EXCEPT !.state = "cancel_awaiting_finalize", !.home = None])
CancelDone(r, c) ==
    Moved("CancelDone", r, r.cancel = c /\ r.out, [r EXCEPT !.state = "cancelled", !.count = "null"])
CancelUndone(r, c) ==
    Moved("CancelUndone", r, r.cancel = c /\ r.out,
          [r EXCEPT !.state = "cancel_awaiting_finalize", !.count = "null", !.home = None])

\* release_cancel: a cancel of ours that lost its lock coin to the mined
\* spender is dropped; one the poll calls confirmed only when that is stale.
Released(r, spender, stale) ==
    LET d == r.cancelDraft
        lost == /\ r.state \in {"sold"} \cup CancelMinedStates
                /\ d # None /\ drafts[d] # "deleted"
                /\ drafts[d] = "confirmed" => stale
                /\ d # spender
    IN  IF lost THEN [drafts EXCEPT ![d] = "dead"] ELSE drafts

-----------------------------------------------------------------------------
(* What the node answers.                                                  *)

LockView ==
    CASE gone -> "noname"
      [] ~gone /\ mined = T -> "owner"
      [] ~gone /\ mined # T /\ Coin(T) # "none" -> "pending"
      [] OTHER -> "gone"

\* The cancel linked to a listing before the lock.
CancelOnChain ==
    CASE Coin(A) = "mined" -> "mined"
      [] Coin(A) = "mempool" \/ Coin(T) # "none" -> "not_mined"
      [] OTHER -> "unknown"

\* A purchase of the lock coin that pays this listing's address.
MinedPurchase(lock) == {p \in Purchases : Confirmed(Append(lock, p))}
FindSale(lock) ==
    IF MinedPurchase(lock) # {}
    THEN [seen |-> "mined", by |-> CHOOSE p \in MinedPurchase(lock) : TRUE]
    ELSE IF \E p \in Purchases : Seen(Append(lock, p))
         THEN [seen |-> "pending", by |-> CHOOSE p \in Purchases : Seen(Append(lock, p))]
         ELSE [seen |-> "none"]

\* A cancel out of this lock coin, from the name's owner: the owner itself,
\* or the TRANSFER its FINALIZE home spends, which only the index finds.
CancelOfLock(lock) ==
    LET found == {c \in {Append(lock, k) : k \in Cancels} :
                    \/ mined = c
                    \/ mined = HomeOf(c) /\ TxIndex}
    IN  IF Coin(mined) = "mined" /\ found # {} THEN CHOOSE c \in found : TRUE ELSE None

\* The owner a price step's purchase of a lock restored by name.
SaleOfRestoredLock(lock) ==
    {p \in Purchases : mined = Append(lock, p) /\ Coin(mined) = "mined"}

-----------------------------------------------------------------------------
(* The job's writes, of the row r as it is by then.                        *)

Write(r, d) == row' = r /\ drafts' = d
Leave == UNCHANGED <<row, drafts>>

\* The name left the lock TRANSFER: the owner read before says where to.
SettleLeft(l, view, owner) ==
    LET at    == Coin(owner)
        sale  == FindSale(l.lock)
        leads == {f \in Finals : MinedPurchase(Lock(f)) # {}}
        unsold ==
          IF Last(<<"name">> \o owner) \in Purchases \cup Cancels
             \/ (l.transfer /\ MayStillLand(T))
          THEN Leave
          ELSE Write(EndBeforeLock(row, "aborted"), drafts)
    IN  CASE view = "noname" -> Write(EndBeforeLock(row, "expired"), drafts)
          [] view \in {"owner", "pending"} -> Leave
          [] view = "gone" /\ at = "none" -> Leave
          [] view = "gone" /\ at # "none" /\ owner \in Locks ->
               Write(AdoptElsewhere(row, owner), drafts)
          [] view = "gone" /\ at # "none" /\ owner \notin Locks /\ l.lock # None ->
               IF sale.seen = "mined" THEN Write(Sell(row, sale.by, l.lock), drafts) ELSE unsold
          [] OTHER ->
               IF leads = {} THEN unsold
               ELSE LET f == CHOOSE f \in leads : TRUE
                    IN  IF TxIndex \/ Last(owner) \in Purchases
                        THEN Write(ProvenLockSale(row, FindSale(Lock(f)).by, Lock(f)), drafts)
                        ELSE Leave

UncancelTarget(l) == IF l.file # None THEN "listed" ELSE "restored"

UnsellTarget(l, seen) ==
    CASE seen \in {"mempool", "nowhere"} /\ l.final # None -> "finalizing"
      [] seen \in {"mined", "mempool"} /\ l.file # None
           /\ ~(seen = "mempool" /\ l.final # None) -> "listed"
      [] OTHER -> "restored"

\* Mutant: a cancel not seen spending the lock coin is taken for dead.
LockCoinHeldForgetsCancel(l, seen) ==
    IF l.state = "cancelling" THEN Write(Uncancel(row, UncancelTarget(l)), drafts) ELSE Leave

\* Mutant: what was sold stays sold.
LockCoinHeldStaysSold(l, seen) ==
    CASE l.state = "finalizing" /\ seen = "mined" -> Write(Listed(row), drafts)
      [] l.state = "listed" /\ seen = "mempool" -> Write(FinalizingAgain(row), drafts)
      [] l.state = "cancelling" /\ ~Alive(l.cancelDraft) ->
           Write(Uncancel(row, UncancelTarget(l)), drafts)
      [] OTHER -> Leave

LockCoinHeld(l, seen) ==
    CASE l.state = "finalizing" /\ seen = "mined" -> Write(Listed(row), drafts)
      [] l.state = "listed" /\ seen = "mempool" -> Write(FinalizingAgain(row), drafts)
      [] l.state \in {"sale_pending", "sold"} ->
           Write(Unsell(row, UnsellTarget(l, seen)), drafts)
      [] l.state \in {"listed", "restored", "cancelling"} /\ seen = "mined" /\ gone ->
           Write(ExpireLocked(row), drafts)
      [] l.state = "cancelling" /\ seen = "mined" /\ ~gone /\ ~Alive(l.cancelDraft) ->
           Write(Uncancel(row, UncancelTarget(l)), drafts)
      [] OTHER -> Leave

\* Both moves, or neither.
UncancelOverADeadFinalize(l) ==
    LET back  == Uncancel(row, UncancelTarget(l))
        moved == IF UncancelTarget(l) = "listed" THEN FinalizingAgain(back) ELSE Unadopt(back)
    IN  IF back # row /\ moved # back THEN moved ELSE row

\* The FINALIZE into the lock is nowhere: the lock TRANSFER is a coin again.
LockFinalizeNowhere(l) ==
    CASE l.state = "finalizing" /\ ~Alive(l.final) -> Write(RevertToReady(row), drafts)
      [] l.state = "listed" -> Write(FinalizingAgain(row), drafts)
      [] l.state \in {"sale_pending", "sold"} ->
           Write(Unsell(row, UnsellTarget(l, "nowhere")), drafts)
      [] l.state = "restored" -> Write(Unadopt(row), drafts)
      [] l.state = "cancelling" /\ ~Alive(l.cancelDraft) ->
           Write(UncancelOverADeadFinalize(l), drafts)
      [] OTHER -> Leave

\* The write and the release of a losing cancel, in one transaction.
SellReleasing(p, lock, stale) ==
    LET r == Sell(row, p, lock)
    IN  Write(r, IF r # row THEN Released(r, Append(lock, p), stale) ELSE drafts)

CancelMinedReleasing(c, lock, stale) ==
    LET r == CancelMined(row, c, lock)
    IN  Write(r, IF row.state \in From("CancelMined") /\ row.lock = lock
                 THEN Released(r, c, stale) ELSE drafts)

LockCoinGone(l) ==
    LET c    == CancelOfLock(l.lock)
        sale == FindSale(l.lock)
    IN  CASE gone -> Write(ExpireLocked(row), drafts)
          [] ~gone /\ c # None /\ l.state \in From("CancelMined") ->
               CancelMinedReleasing(c, l.lock, FALSE)
          [] ~gone /\ c = None /\ ~l.pay ->
               IF SaleOfRestoredLock(l.lock) = {} THEN Leave
               ELSE SellReleasing(CHOOSE p \in SaleOfRestoredLock(l.lock) : TRUE, l.lock, FALSE)
          [] ~gone /\ c = None /\ l.pay /\ sale.seen = "pending" /\ mined = l.lock ->
               Write(IF l.state = "sold" THEN Resell(row, "sale_pending", sale.by, l.lock)
                     ELSE SalePending(row, sale.by, l.lock), drafts)
          [] ~gone /\ c = None /\ l.pay /\ sale.seen = "mined" /\ mined # l.lock ->
               IF l.state # "sold" THEN SellReleasing(sale.by, l.lock, FALSE)
               ELSE IF l.sold = Append(l.lock, sale.by) THEN Leave
               ELSE Write(Resell(row, "sold", sale.by, l.lock), drafts)
          [] OTHER -> Leave

LockCoinSpent(l) ==
    IF l.transfer /\ Coin(T) # "none" THEN LockFinalizeNowhere(l)
    ELSE IF l.state = "finalizing" /\ ~Alive(l.final) THEN SettleLeft(l, LockView, mined)
    ELSE LockCoinGone(l)

\* The cancel's TRANSFER is a coin.
CancelTransferHeld(r, l, c, seen) ==
    LET counted == IF r.state \in CancelMinedStates
                   THEN [r EXCEPT !.count = IF ripe THEN "0" ELSE "left"] ELSE r
    IN  CASE seen = "mempool" -> CancelUnmined(r, c)
          [] seen = "mined" /\ gone -> ExpireLocked(r)
          [] seen = "mined" /\ ~gone /\ mined = c ->
               IF l.state = "cancel_finalizing" /\ l.home # None /\ ~Alive(l.home)
               THEN RevertCancelFinalize(counted, l.home) ELSE counted
          [] OTHER -> r
\* The cancel's TRANSFER and the lock coin are both spent.
CancelReplaced(l) ==
    LET c     == CancelOfLock(l.lock)
        sale  == FindSale(l.lock)
        stale == l.cancelDraft # None => ~Confirmed(l.cancelDraft)
    IN  CASE c # None /\ c # l.cancel -> CancelMinedReleasing(c, l.lock, stale)
          [] c = None /\ ~l.pay /\ SaleOfRestoredLock(l.lock) # {} ->
               SellReleasing(CHOOSE p \in SaleOfRestoredLock(l.lock) : TRUE, l.lock, stale)
          [] c = None /\ l.pay /\ sale.seen = "mined" /\ mined # l.lock ->
               SellReleasing(sale.by, l.lock, stale)
          [] OTHER -> Leave

CancelOnItsWayHome(l, seen) ==
    CASE seen # "none" -> Write(CancelTransferHeld(row, l, l.cancel, seen), drafts)
      [] seen = "none" /\ Coin(l.lock) # "none" -> Write(CancelUnmined(row, l.cancel), drafts)
      [] seen = "none" /\ Coin(l.lock) = "none" /\ gone -> Write(ExpireLocked(row), drafts)
      [] seen = "none" /\ Coin(l.lock) = "none" /\ ~gone
           /\ mined = HomeOf(l.cancel) /\ Coin(mined) = "mined" ->
           Write(CancelDone(row, l.cancel), drafts)
      [] OTHER -> CancelReplaced(l)

CancelledHomeUndone(l, owner) ==
    CASE owner = l.cancel -> Write(CancelUndone(row, l.cancel), drafts)
      [] owner # l.cancel /\ owner = l.lock -> Write(CancelledUnmined(row, l.cancel), drafts)
      [] OTHER -> Leave

-----------------------------------------------------------------------------
(* The sync job, one listing: it reads the row, asks the node for the coin *)
(* that decides where to look, then for the rest, and writes.              *)

NoJob == [at |-> "idle"]
Watched == BeforeLock \cup AfterLock \cup {"aborted"}

JobStart ==
    /\ job = NoJob /\ row.state \in Watched
    /\ job' = [at |-> "first", l |-> row]
    /\ UNCHANGED <<chainVars, row, drafts, signed, sets, cmds, budget, device>>

Then(l, saw) == [at |-> "rest", l |-> l, saw |-> saw]

JobFirstBeforeLock(l) ==
    LET abortable == l.state \in BeforeLock
        aborted   == l.state = "aborted"
        linked    == IF l.abort THEN CancelOnChain ELSE "unknown"
        judged    == \/ linked = "mined" /\ abortable
                     \/ linked = "not_mined" /\ aborted
                     \/ ~(LockView \in {"noname", "gone"} /\ abortable)
        new ==
          CASE linked = "mined" /\ abortable -> EndBeforeLock(row, "aborted")
            [] linked = "not_mined" /\ aborted -> Unabort(row)
            [] aborted /\ LockView \in {"owner", "pending"} -> Unabort(row)
            [] LockView = "owner" /\ l.state = "locking" /\ ripe -> Ready(row)
            [] LockView = "owner" /\ l.state = "ready_to_finalize" /\ ~ripe -> LockingAgain(row)
            [] LockView = "pending" /\ l.state = "ready_to_finalize" -> LockingAgain(row)
            [] OTHER -> row
    IN  \/ judged /\ Write(new, drafts) /\ job' = NoJob
        \/ ~judged /\ Leave /\ job' = Then(l, <<LockView, mined>>)

JobFirstAfterLock(l) ==
    /\ Leave
    /\ job' = CASE l.state = "cancelled" /\ gone -> NoJob
                [] l.state = "cancelled" /\ ~gone -> Then(l, <<"owner", mined>>)
                [] l.state \in CancelMinedStates -> Then(l, <<Coin(l.cancel)>>)
                [] OTHER -> Then(l, <<Coin(l.lock)>>)

JobFirst ==
    /\ job.at = "first"
    /\ IF job.l.state \in AfterLock THEN JobFirstAfterLock(job.l) ELSE JobFirstBeforeLock(job.l)
    /\ UNCHANGED <<chainVars, signed, sets, cmds, budget, device>>

\* A cancel seen mined just now has its lockup counted in the same sync.
ThenCount(l) ==
    job' = IF row'.state = "cancel_awaiting_finalize" /\ (l.state # "cancelled" \/ row' # row)
           THEN [at |-> "tail", l |-> row'] ELSE NoJob

JobRest ==
    /\ job.at = "rest"
    /\ LET l == job.l
       IN  CASE l.state \in BeforeLock ->
                  SettleLeft(l, job.saw[1], job.saw[2]) /\ job' = NoJob
             [] l.state = "cancelled" -> CancelledHomeUndone(l, job.saw[2]) /\ ThenCount(l)
             [] l.state \in CancelMinedStates ->
                  CancelOnItsWayHome(l, job.saw[1]) /\ job' = NoJob
             [] OTHER ->
                  /\ IF job.saw[1] # "none" THEN LockCoinHeld(l, job.saw[1]) ELSE LockCoinSpent(l)
                  /\ ThenCount(l)
    /\ UNCHANGED <<chainVars, signed, sets, cmds, budget, device>>

JobTail ==
    /\ job.at = "tail" /\ job' = NoJob
    /\ LET c == job.l.cancel
       IN  IF Coin(c) = "none" THEN Leave
           ELSE Write(CancelTransferHeld(row, job.l, c, Coin(c)), drafts)
    /\ UNCHANGED <<chainVars, signed, sets, cmds, budget, device>>

\* A request fails: nothing is written this sync.
JobFails ==
    /\ job # NoJob /\ budget.fails > 0
    /\ job' = NoJob /\ budget' = [budget EXCEPT !.fails = @ - 1]
    /\ UNCHANGED <<chainVars, row, drafts, signed, sets, cmds, device>>

-----------------------------------------------------------------------------
(* The seller's commands.  One that waits has checked what it will store;  *)
(* several may wait at once, and the write checks again.                   *)

Live == ~gone
Spend == budget.commands > 0 /\ budget' = [budget EXCEPT !.commands = @ - 1]
Without(i) == SubSeq(cmds, 1, i - 1) \o SubSeq(cmds, i + 1, Len(cmds))

Prompt(what, path) ==
    /\ Len(cmds) < MaxPrompts /\ cmds' = Append(cmds, [what |-> what, path |-> path]) /\ Spend
    /\ UNCHANGED <<chainVars, row, drafts, signed, sets, job, device>>

Stores(what, path) == \E i \in DOMAIN cmds :
    cmds[i] = [what |-> what, path |-> path] /\ cmds' = Without(i)

\* The prompt is refused, or the store's own checks refuse.
Refused ==
    /\ cmds # <<>> /\ \E i \in DOMAIN cmds : cmds' = Without(i)
    /\ UNCHANGED <<chainVars, row, drafts, signed, sets, job, budget, device>>

\* Of one coin of ours, a draft reserves it; an unsent one only for a while.
Reserved(d) == drafts[d] = "out"

LockName ==
    /\ device = "seller" /\ row = NoRow /\ mined = <<>> /\ pool = <<>> /\ T \notin relayed
    /\ Spend
    /\ row' = NewRow /\ drafts' = [drafts EXCEPT ![T] = "unsent"]
    /\ UNCHANGED <<chainVars, signed, sets, cmds, job, device>>

\* Finalize & sign (prepare_lock_finalize).
FinalizePrompt(f) ==
    /\ row.state = "ready_to_finalize"
    /\ row.abort => ~MayStillLand(A)
    /\ mined = T /\ Coin(T) = "mined" /\ ripe /\ Live
    /\ Lock(f) \notin signed
    /\ Prompt("finalize", Lock(f))

\* Mutant: only the prompt asks whether the coin was signed over.
FinalizeStoreUnchecked(f) ==
    /\ Stores("finalize", Lock(f)) /\ row.state \in From("Finalize")
    /\ signed' = signed \cup {Lock(f)}
    /\ sets' = [sets EXCEPT ![Lock(f)] = @ + 1]
    /\ row' = Finalize(row, Lock(f)) /\ drafts' = [drafts EXCEPT ![Lock(f)] = "unsent"]
    /\ UNCHANGED <<chainVars, job, budget, device>>

\* The FINALIZE, its steps, and the txid they are signed over, in one
\* transaction (finalize_and_sign_confirmed).
FinalizeStore(f) ==
    /\ Stores("finalize", Lock(f))
    /\ Lock(f) \notin signed /\ ~Reserved(A)
    /\ row.state \in From("Finalize")
    /\ signed' = signed \cup {Lock(f)}
    /\ sets' = [sets EXCEPT ![Lock(f)] = @ + 1]
    /\ row' = Finalize(row, Lock(f)) /\ drafts' = [drafts EXCEPT ![Lock(f)] = "unsent"]
    /\ UNCHANGED <<chainVars, job, budget, device>>

\* Cancel transfer (names.rs), refused while a listing past its lock is open.
AbortPrompt ==
    /\ row.state \notin AfterLock \ {"sold", "cancelled"}
    /\ mined = T /\ Coin(T) = "mined" /\ Live /\ drafts[A] = "none"
    /\ Prompt("abort", A)

AbortStore ==
    /\ Stores("abort", A) /\ drafts[A] = "none" /\ \A f \in Ours : ~Reserved(Lock(f))
    /\ drafts' = [drafts EXCEPT ![A] = "unsent"]
    /\ row' = IF row.state \in BeforeLock THEN [row EXCEPT !.abort = TRUE] ELSE row
    /\ UNCHANGED <<chainVars, signed, sets, job, budget, device>>

\* Cancel (R28): the TRANSFER out of the lock.  A listing taken off its
\* Cancel may be cancelled again, by another transaction.
CancelPrompt ==
    /\ row.state \in From("Cancel")
    /\ Coin(row.lock) = "mined" /\ Live
    /\ \E c \in CancelsOf(row.lock) : drafts[c] = "none"
    /\ Prompt("cancel", row.lock)

CancelStore(l) ==
    /\ Stores("cancel", l)
    /\ row.state \in From("Cancel") /\ row.lock = l
    /\ \E c \in CancelsOf(l) :
         /\ drafts[c] = "none"
         /\ row' = Cancel(row, c, l) /\ drafts' = [drafts EXCEPT ![c] = "unsent"]
    /\ UNCHANGED <<chainVars, signed, sets, job, budget, device>>

\* Finalize cancel: the FINALIZE home of the mined cancel.
HomePrompt ==
    /\ row.state = "cancel_awaiting_finalize" /\ row.count # "null"
    /\ mined = row.cancel /\ Coin(row.cancel) = "mined" /\ ripe /\ Live
    /\ drafts[HomeOf(row.cancel)] = "none"
    /\ Prompt("home", row.cancel)

HomeStore(c) ==
    /\ Stores("home", c) /\ drafts[HomeOf(c)] = "none"
    /\ row.state \in From("FinalizeCancel") /\ row.cancel = c /\ row.out
    /\ row' = FinalizeCancel(row, c) /\ drafts' = [drafts EXCEPT ![HomeOf(c)] = "unsent"]
    /\ UNCHANGED <<chainVars, signed, sets, job, budget, device>>

\* Restore a lock by name, and by the listing file another device made of
\* it (R32), whose lock coin may be spent by then.
RestoreByName ==
    /\ device = "fresh" /\ row = NoRow /\ mined \in Locks /\ Coin(mined) = "mined" /\ Live
    /\ row' = RestoredRow(mined)
    /\ UNCHANGED <<chainVars, drafts, signed, sets, cmds, job, budget, device>>

UpgradeByFile ==
    /\ row.state = "restored" /\ row.lock = Lock("there") /\ Spend
    /\ row' = Upgrade(row, row.lock) /\ signed' = signed \cup {row.lock}
    /\ UNCHANGED <<chainVars, drafts, sets, cmds, job, device>>

-----------------------------------------------------------------------------
(* The drafts: sent, deleted unsent, followed by the confirmation poll.    *)

\* hsd relays what its own mempool refuses; the answer may be lost.
Send(d) ==
    /\ drafts[d] = "unsent" /\ Hand(d)
    /\ \E to \in {"out", "dead"} : drafts' = [drafts EXCEPT ![d] = to]
    /\ UNCHANGED <<row, signed, sets, cmds, job, budget, device>>

\* delete_tx_draft of one never sent, with what its listing loses by it.
Discard(d) ==
    /\ drafts[d] = "unsent" /\ Spend
    /\ drafts' = [drafts EXCEPT ![d] = "deleted"]
    /\ row' = CASE d = T /\ row.state = "locking" -> NoRow
                [] row # NoRow /\ row.final = d -> RevertToReady(row)
                [] d = A /\ row # NoRow -> [row EXCEPT !.abort = FALSE]
                [] row # NoRow /\ row.cancelDraft = d -> Uncancel(row, UncancelTarget(row))
                [] row # NoRow /\ row.home = d -> RevertCancelFinalize(row, d)
                [] OTHER -> row
    /\ UNCHANGED <<chainVars, signed, sets, cmds, job, device>>

\* What the poll comes to say of a sent draft: TxDrafts has how.
Followed(d) ==
    CASE Confirmed(d) -> "confirmed"
      [] ~Confirmed(d) /\ drafts[d] = "confirmed" -> "out"
      [] ~Confirmed(d) /\ drafts[d] = "out" /\ ~Seen(d) -> "dead"
      [] OTHER -> drafts[d]

Poll(d) ==
    /\ drafts[d] \in {"out", "confirmed", "dead"} /\ Followed(d) # drafts[d]
    /\ drafts' = [drafts EXCEPT ![d] = Followed(d)]
    /\ UNCHANGED <<chainVars, row, signed, sets, cmds, job, budget, device>>

-----------------------------------------------------------------------------
Init ==
    /\ device \in Devices
    /\ ChainInit(IF device = "fresh" THEN Lock("there") ELSE <<>>)
    /\ row = NoRow /\ drafts = [d \in OurPaths |-> "none"]
    /\ signed = {} /\ sets = [l \in Locks |-> 0]
    /\ cmds = <<>> /\ job = NoJob
    /\ budget = [commands |-> MaxCommands, fails |-> MaxFails]

World == ChainNext /\ UNCHANGED listingVars

Commands ==
    \/ LockName \/ \E f \in Ours : FinalizePrompt(f) \/ FinalizeStore(f)
    \/ AbortPrompt \/ AbortStore \/ CancelPrompt \/ \E l \in Locks : CancelStore(l)
    \/ HomePrompt \/ \E c \in MinedCancels : HomeStore(c)
    \/ Refused \/ RestoreByName \/ UpgradeByFile
    \/ \E d \in OurPaths : Send(d) \/ Discard(d)

Job == JobStart \/ JobFirst \/ JobRest \/ JobTail

Next == World \/ Commands \/ Job \/ JobFails \/ \E d \in OurPaths : Poll(d)

Spec == Init /\ [][Next]_vars

\* The background sync goes on, and polls the drafts.
FairSpec ==
    /\ Spec /\ WF_vars(JobStart) /\ WF_vars(JobFirst) /\ WF_vars(JobRest) /\ WF_vars(JobTail)
    /\ \A d \in OurPaths : WF_vars(Poll(d))
-----------------------------------------------------------------------------
TypeOK ==
    /\ row = NoRow \/
         /\ row.state \in States
         /\ row.transfer \in BOOLEAN /\ row.pay \in BOOLEAN
         /\ row.abort \in BOOLEAN /\ row.out \in BOOLEAN
         /\ {row.lock, row.final, row.file} \subseteq Locks \cup {None}
         /\ row.sold \in {Append(l, p) : l \in Locks, p \in Purchases} \cup {None}
         /\ row.cancel \in MinedCancels \cup {None}
         /\ row.cancelDraft \in OurCancelPaths \cup {None}
         /\ row.home \in {HomeOf(c) : c \in MinedCancels} \cup {None}
         /\ row.count \in {"null", "left", "0"}
    /\ drafts \in [OurPaths -> DraftStatuses]
    /\ signed \subseteq Locks /\ sets \in [Locks -> Nat]
    /\ Len(cmds) <= MaxPrompts
    /\ job.at \in {"idle", "first", "rest", "tail"}

\* Finalize & sign keeps at most one set of price steps over one lock coin,
\* through drafts deleted unsent, dead FINALIZEs and prompts left open
\* (commands/shakedex.rs, record_signed_lock_txid_in_tx).  The steps that
\* Lower price and take over add to a set are MarketCopy's.
NeverSignedTwice == \A l \in Locks : sets[l] <= 1

\* The steps and the file a listing keeps are over the lock coin it follows:
\* those of a dead FINALIZE are dropped with it, in every state the seller
\* could export the file from or sell through (db/queries.rs,
\* DROP_DEAD_FINALIZE_SET).  The exception is a lock adopted from another
\* device, which unadopt_restored_lock gives up with its file.
FileIsOfItsLock ==
    (row # NoRow /\ row.file # None) =>
        row.file = row.lock \/ (row.final = None /\ row.transfer)

\* A listing does not lose a FINALIZE into the lock that may still land:
\* whatever the job saw, on a row and a chain it read before, it moves the
\* listing off one only once it is dead.  It does not hold:
\* revert_listing_to_ready is guarded by the state alone, and the FINALIZE a
\* job found dead may have been discarded and another one signed meanwhile.
LosesFinalize(f) ==
    /\ row # NoRow /\ row.final = Lock(f)
    /\ MayStillLand(Lock(f)) /\ drafts'[Lock(f)] = drafts[Lock(f)]
    /\ row' = NoRow \/ row'.final # Lock(f)
FinalizeNotLost == [][\A f \in Ours : ~LosesFinalize(f)]_vars

\* It holds of a job that read the listing with this FINALIZE, or before any.
OlderFinalize(f) == job # NoJob /\ job.l.final \notin {None, Lock(f)}
FinalizeKept == [][\A f \in Ours : LosesFinalize(f) => OlderFinalize(f)]_vars

\* Nor does it lose a Cancel of its lock coin that may still land, whatever
\* the job read before: a mined sale or another device's cancel keeps the
\* link, and only the seller's next Cancel takes its place.  The exception is
\* the same: uncancel_listing is guarded by the state alone too, and a job
\* that finds the Cancel it read discarded takes off the one signed since.
LosesCancel(c) ==
    /\ row # NoRow /\ row.cancelDraft = c /\ c \in CancelsOf(row.lock)
    /\ MayStillLand(c) /\ drafts'[c] = drafts[c]
    /\ row' = NoRow \/ row'.cancelDraft = None
OlderCancel(c) ==
    /\ job # NoJob /\ job.l.cancelDraft \notin {None, c}
    /\ drafts[job.l.cancelDraft] = "deleted"
CancelKept == [][\A c \in OurCancelPaths : LosesCancel(c) => OlderCancel(c)]_vars

\* What a followed listing says once the chain is quiet: who has the name.
Says ==
    LET kind == Last(<<"name">> \o mined)
    IN  CASE mined = <<>> -> {"locking", "aborted"}
          [] mined = T -> IF ripe THEN {"ready_to_finalize", "finalizing"} ELSE {"locking", "finalizing"}
          [] kind \in {"abort", "leave"} -> {"aborted"}
          [] mined \in Locks -> {"listed", "restored", "cancelling"}
          [] kind \in Purchases \cup {"away"} -> {"sold"}
          [] kind \in Cancels ->
               CancelMinedStates \cup (IF row.lock = None THEN BeforeLock \cup {"aborted"} ELSE {})
          [] kind = "home" -> {"cancelled", "aborted"}

\* What a reorg may leave untold: the code keeps an aborted listing as it is
\* when the TRANSFER was spent again meanwhile, and a listing past its lock
\* when another way out of the TRANSFER was mined in place of the FINALIZE.
Overtaken ==
    /\ faults.reorgs > 0 /\ mined # T
    /\ row.state = "aborted" \/ (row.lock # None /\ ~IsPrefix(row.lock, mined))

Settled == \A d \in OurPaths : drafts[d] # "unsent"

\* Once the chain and the seller rest, the sync job brings a listing to the
\* state that says who has the name: through a reorg, a late poll, commands
\* given on a state the chain had left, and purchases or cancels of another
\* device (shakedex_jobs.rs, refresh_listings_with_client).
ListingFollowsName ==
    <>[](row # NoRow /\ pool = <<>> /\ ~gone /\ Settled => row.state \in Says \/ Overtaken)
=============================================================================
