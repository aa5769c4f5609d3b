----------------------------- MODULE MarketCopy -----------------------------
(***************************************************************************)
(* A listing's copy on LearnHNS Market and the devices that keep it there: *)
(* the market jobs of shakedex_jobs.rs (publish, advance, keep listed),    *)
(* the bookkeeping they write (db/queries.rs, record_market_result and the *)
(* market fragments of the listing's writes) and the seller's commands     *)
(* that change what is sent (commands/shakedex.rs).                        *)
(*                                                                         *)
(* Every device holds the lock key, so each may sign price steps the other *)
(* never saw.  A job reads its row, asks the node, asks the market, sends, *)
(* and writes the answer over the row it read: each a step of its own.     *)
(* What becomes of the lock coin is the environment's (ShakedexListing has *)
(* the job that follows it).  A price is its step's number: a higher one   *)
(* is a lower price.  Delays of the back-off are not told apart: a next    *)
(* try is due or it is not.  Rows and files that do not read are left out. *)
(***************************************************************************)
EXTENDS Naturals, FiniteSets, FiniteSetsExt

CONSTANTS
    Devices,     \* devices of one recovery phrase
    Seller,      \* the one that locked the name in; the others imported its file
    Schedule,    \* the steps signed at Finalize & sign: {1} is a Buy Now
    Lowered,     \* the step each device signs when it lowers the price
    Worlds       \* what a behaviour has to spend, and who takes part in it:
                 \*   devices, a subset of Devices with the Seller in it;
                 \*   commands of the sellers; ticks of the clock; and events:
                 \*   lost answers, refusals, reorgs and uploads of others

\* Copies are told apart by who put them there.
ASSUME DevicesAssumption ==
    IsFiniteSet(Devices) /\ Devices \cap {"nobody", "other"} = {}

ASSUME MarketAssumption ==
    /\ Seller \in Devices /\ Schedule \in {{1}, {1, 2}}
    /\ Lowered \in [Devices -> Nat] /\ \A d \in Devices : Lowered[d] > 2
    /\ Worlds \subseteq [devices : SUBSET Devices, commands : Nat, ticks : Nat, events : Nat]

VARIABLES
    lockCoin, \* "none": FINALIZE not mined; "coin"; "sold", "cancelled": spent
    mtp,      \* median time, as the number of schedule steps past the first
    year,     \* expiry periods gone by
    market,   \* the market's copy of the listing, and what it was told;
              \*   `unheard`: whose listing lost track of something it took
    row,      \* each device's listing
    job,      \* each device's market job; `lost`: its listing had lost track
    prompt,   \* a command that waits for its seller or for the node
    budget    \* what is left of the world's

vars == <<lockCoin, mtp, year, market, row, job, prompt, budget>>

Steps == Schedule \cup {Lowered[d] : d \in Devices}
NoStep == 0
Others == "other"      \* whoever else uploads: no step of theirs verifies
NoCopy == [step |-> NoStep, exp |-> 0, by |-> "nobody"]

\* The cheapest step valid at median time t: the second one of a reverse
\* auction is valid later, a lowered one at once.
ValidAt(s, t) == s # 2 \/ t >= 1
Current(steps, t) == Max({s \in steps : ValidAt(s, t)})

\* A file's expiry is a period ahead of its writing, and near once it comes.
NearExpiry(e) == e <= year
Refreshed == year + 1

Ended == {"sold", "cancelled"}
Kept(r) ==
    /\ r.publish
    /\ r.state = "listed" \/ (r.state = "cancelling" /\ r.accepted /\ r.cancel = "unsent")
Reverse == Schedule # {1}

-----------------------------------------------------------------------------
(* What the bookkeeping writes do to a row. *)

\* A fresh listing: the publish job uploads it.
Reset(r) ==
    [r EXCEPT !.status = "none", !.due = TRUE, !.accepted = FALSE, !.changed = FALSE,
              !.sent = NoStep]

\* Mutant of Changed: not noted that the market's copy is an older one of ours.
ChangedUnnoted(r) == [r EXCEPT !.status = IF @ = "none" THEN "none" ELSE "retrying", !.due = TRUE]

\* What is sent changed: checked and uploaded over at the next sync.
Changed(r) ==
    [r EXCEPT !.status = IF @ = "none" THEN "none" ELSE "retrying", !.due = TRUE,
              !.changed = @ \/ r.accepted]

ReportDue(r) == [r EXCEPT !.due = @ \/ r.status # "none"]

\* The row is still the one that was read: state, steps and file.
Same(r, seen) == r.state = seen.state /\ r.steps = seen.steps /\ r.exp = seen.exp

\* Mutant of Recorded: a step the market did not take is not noted as a change.
RecordedUnmoved(r, seen, res) ==
    IF ~Same(r, seen) THEN r
    ELSE [r EXCEPT !.status = res.status, !.due = res.due,
                   !.accepted = @ \/ res.accepted,
                   !.changed = ~res.accepted /\ @,
                   !.told = @ \/ res.told,
                   !.sent = IF res.sent = NoStep THEN @ ELSE res.sent]

\* Mutant of Recorded: written over whatever the row has become.
RecordedAnyway(r, seen, res) ==
    [r EXCEPT !.status = res.status, !.due = res.due,
              !.accepted = @ \/ res.accepted,
              !.changed = ~res.accepted
                            /\ (@ \/ (r.accepted /\ r.sent # NoStep
                                        /\ res.sent \notin {NoStep, r.sent})),
              !.told = @ \/ res.told,
              !.sent = IF res.sent = NoStep THEN @ ELSE res.sent]

\* A market job's result, over the row it read and only over that one.
Recorded(r, seen, res) ==
    IF ~Same(r, seen) THEN r
    ELSE [r EXCEPT !.status = res.status, !.due = res.due,
                   !.accepted = @ \/ res.accepted,
                   !.changed = ~res.accepted
                                 /\ (@ \/ (r.accepted /\ r.sent # NoStep
                                             /\ res.sent \notin {NoStep, r.sent})),
                   !.told = @ \/ res.told,
                   !.sent = IF res.sent = NoStep THEN @ ELSE res.sent]

\* What an answer of the market makes of a try that would end as ok; a next
\* try is due in an hour, after the back-off, or has no time of its own.
AfterReply(reply, ok, holdsOurs, sent) ==
    [status   |-> CASE reply = "taken" -> ok
                    [] reply = "refused" -> "refused"
                    [] OTHER -> "retrying",
     due      |-> reply = "refused" \/ (reply = "taken" /\ ok \in {"pending", "reported"}),
     accepted |-> reply = "taken" /\ holdsOurs,
     told     |-> reply = "taken",
     sent     |-> sent]

\* Mutant of AfterReport: "not seen yet" is a refusal too.
AfterReportTooEarly(reply) ==
    IF reply \in {"refused", "not seen yet"}
    THEN [AfterReply("taken", "reported", FALSE, NoStep) EXCEPT !.told = FALSE]
    ELSE AfterReply(reply, "reported", FALSE, NoStep)

\* The report of an end is done with a refusal too.
AfterReport(reply) ==
    IF reply = "refused"
    THEN [AfterReply("taken", "reported", FALSE, NoStep) EXCEPT !.told = FALSE]
    ELSE AfterReply(reply, "reported", FALSE, NoStep)

\* Mutant of Marked: the step seen there is not kept.
MarkedStepless(r, seen, step) ==
    IF /\ r.steps = seen.steps /\ r.state \in {"listed", "cancelling"}
       /\ step # NoStep \/ r.elsewhere
    THEN [r EXCEPT !.elsewhere = TRUE, !.due = FALSE]
    ELSE r

\* Managed elsewhere, by a step seen there; a read without one changes only
\* a listing marked before.
Marked(r, seen, step) ==
    IF /\ r.steps = seen.steps /\ r.state \in {"listed", "cancelling"}
       /\ step # NoStep \/ r.elsewhere
    THEN [r EXCEPT !.elsewhere = TRUE, !.due = FALSE,
                   !.foreign = IF step = NoStep THEN @ ELSE step]
    ELSE r

-----------------------------------------------------------------------------
(* How a copy on the market reads to a device. *)

\* Mutant of ForeignIn: whatever is not the step last sent is another's.
ForeignUnsent(copy, r) == copy.step \in Steps \ {r.sent}

\* A step of this lock that the listing's device never signed.
ForeignIn(copy, r) == copy.step \in Steps \ r.steps

\* Mutant of SameOffer: any step of ours will do.
SameOfferOfAnyStep(copy, step, r) == copy.step \in r.steps /\ copy.exp <= Refreshed

\* Our offer, whatever its expiry: the market keeps the one it first took,
\* and none here is later than a refresh would write.
SameOffer(copy, step, r) ==
    /\ copy.step = step
    /\ \/ copy.exp <= r.exp
       \/ copy.exp > r.exp /\ copy.exp <= Refreshed

OurSentStep(copy, r) ==
    r.sent \in r.steps /\ copy.step = r.sent /\ copy.exp = r.exp

KeptLabel(r) == IF r.status = "replaced" THEN "replaced" ELSE "listed"

\* The label of an upload over a copy that differs.
Label(copy, r) ==
    IF copy = NoCopy \/ r.changed \/ OurSentStep(copy, r) THEN "listed" ELSE "replaced"

-----------------------------------------------------------------------------
NoRow ==
    [state |-> "none", cancel |-> "none", steps |-> {}, exp |-> 0, publish |-> FALSE,
     status |-> "none", due |-> TRUE, accepted |-> FALSE, changed |-> FALSE, told |-> FALSE,
     sent |-> NoStep, elsewhere |-> FALSE, foreign |-> NoStep]
Imported == [NoRow EXCEPT !.state = "listed", !.steps = Schedule, !.exp = 1]
Signed(publish) == [Imported EXCEPT !.state = "finalizing", !.publish = publish]

Idle ==
    [at |-> "idle", kind |-> "none", seen |-> NoRow, lost |-> FALSE, refreshed |-> FALSE,
     t |-> 0, step |-> NoStep, copy |-> NoCopy, ok |-> "none", reply |-> "none"]
NoPrompt == [kind |-> "none", old |-> {}, foreign |-> NoStep, new |-> {}, exp |-> 0]

Init ==
    /\ lockCoin = "none" /\ mtp = 0 /\ year = 0
    /\ market = [copy |-> NoCopy, pending |-> FALSE, said |-> {}, unheard |-> {}]
    /\ row \in {[d \in Devices |-> IF d = Seller THEN Signed(p) ELSE NoRow] : p \in BOOLEAN}
    /\ job = [d \in Devices |-> Idle]
    /\ prompt = [d \in Devices |-> NoPrompt]
    /\ budget \in Worlds

Spend(what) == budget[what] > 0 /\ budget' = [budget EXCEPT ![what] = @ - 1]
chainVars == <<lockCoin, mtp, year>>

-----------------------------------------------------------------------------
(* The market jobs.  A sync runs publish, advance and keep listed; only    *)
(* the last two can both have work with one listing.                       *)

Uploads == {"upload", "refresh", "keep", "advance"}

Work(r) ==
    IF r.state \in Ended
    THEN IF r.told /\ r.status # "reported" /\ r.due THEN {"report"} ELSE {}
    ELSE IF r.state = "finalizing"
    THEN IF r.status \in {"none", "retrying"} /\ r.due THEN {"announce"} ELSE {}
    ELSE IF ~Kept(r) THEN {}
    ELSE IF r.elsewhere THEN IF r.due THEN {"follow"} ELSE {}
    ELSE IF r.status = "none" THEN IF r.state = "listed" /\ r.due THEN {"upload"} ELSE {}
    ELSE LET moved == Reverse /\ Current(r.steps, mtp) # r.sent
         IN IF r.status = "refused"
            THEN (IF r.state = "listed" /\ r.due /\ NearExpiry(r.exp) THEN {"refresh"} ELSE {})
                 \cup (IF moved THEN {"advance"} ELSE {})
            ELSE (IF r.due THEN {"keep"} ELSE {})
                 \cup (IF r.status # "retrying" /\ moved THEN {"advance"} ELSE {})

\* A pass reads the published listing; advance reads the median time too.
Begin(d) ==
    /\ job[d].at = "idle" /\ row[d].publish
    /\ \E kind \in Work(row[d]) :
          job' = [job EXCEPT ![d] =
            [@ EXCEPT !.kind = kind, !.seen = row[d], !.lost = d \in market.unheard,
                      !.at = IF kind \in {"report", "announce"} THEN "send" ELSE "cut",
                      !.t = IF kind = "advance" THEN mtp ELSE 0]]
    /\ UNCHANGED <<chainVars, market, row, prompt, budget>>

Done(d) == job' = [job EXCEPT ![d] = Idle]

\* The node gives no verdict: the lock coin is not a coin, or a request fails.
NotNow(d) ==
    /\ job[d].at = "cut"
    /\ \/ lockCoin # "coin" /\ UNCHANGED budget
       \/ Spend("events")
    /\ Done(d)
    /\ UNCHANGED <<chainVars, market, row, prompt>>

\* The copy to send, cut at the median time; an expiry that is near is moved
\* ahead first, only over the listing and the file that were read.
Cut(d) ==
    LET j == job[d]
        t == IF j.kind = "advance" THEN j.t ELSE mtp
        refresh == j.kind # "follow" /\ j.seen.state = "listed" /\ NearExpiry(j.seen.exp)
        same == row[d].state = "listed" /\ row[d].steps = j.seen.steps /\ row[d].exp = j.seen.exp
        moved == [Changed(row[d]) EXCEPT !.exp = Refreshed]
        seen == IF refresh THEN moved ELSE j.seen
    IN /\ j.at = "cut" /\ lockCoin = "coin"
       /\ row' = IF refresh /\ same THEN [row EXCEPT ![d] = moved] ELSE row
       /\ IF (refresh /\ ~same) \/ j.kind = "refresh" THEN Done(d)
          ELSE job' = [job EXCEPT ![d] =
                 [j EXCEPT !.at = "look", !.seen = seen, !.refreshed = refresh, !.t = 0,
                           !.step = IF j.kind = "follow" THEN NoStep ELSE Current(seen.steps, t)]]
       /\ UNCHANGED <<chainVars, market, prompt, budget>>

\* The market's copy is always read before anything is sent.  A foreign step
\* marks the listing and sends nothing; otherwise a first or moved step goes
\* over whatever is there, and a checked copy is left when it is our offer.
Look(d) ==
    LET j == job[d]
        r == row[d]
        written(new) == row' = [row EXCEPT ![d] = new] /\ Done(d)
        sends(label, copy) == /\ job' = [job EXCEPT ![d] = [j EXCEPT !.at = "send", !.ok = label,
                                             !.copy = copy, !.refreshed = FALSE]]
                              /\ UNCHANGED row
        answered ==
            IF j.kind = "follow"
            THEN written(Marked(r, j.seen, IF ForeignIn(market.copy, j.seen)
                                           THEN market.copy.step ELSE NoStep))
            ELSE IF ForeignIn(market.copy, j.seen)
            THEN written(Marked(r, j.seen, market.copy.step))
            ELSE IF j.kind \in {"upload", "advance"} THEN sends(KeptLabel(j.seen), market.copy)
            ELSE IF SameOffer(market.copy, j.step, j.seen)
            THEN written(Recorded(r, j.seen, AfterReply("taken", KeptLabel(j.seen), TRUE, j.step)))
            ELSE sends(IF j.refreshed THEN "listed" ELSE Label(market.copy, j.seen), market.copy)
        unanswered ==
            IF j.kind = "follow" THEN written(Marked(r, j.seen, NoStep))
            ELSE IF j.kind \in {"upload", "advance"} THEN sends(KeptLabel(j.seen), NoCopy)
            ELSE IF j.refreshed THEN sends("listed", NoCopy)
            ELSE written(Recorded(r, j.seen, AfterReply("lost", "listed", TRUE, NoStep)))
    IN /\ j.at = "look"
       /\ \/ answered /\ UNCHANGED budget
          \/ unanswered /\ Spend("events")
       /\ UNCHANGED <<chainVars, market, prompt>>

Told(j) == [market EXCEPT !.said = @ \cup {j.seen.state}]

\* What the market makes of what is sent.  An upload never moves the expiry
\* the market holds, and is taken only while the lock coin is a coin.
Takes(j, d) ==
    CASE j.kind = "report" -> [Told(j) EXCEPT !.copy = NoCopy]
      [] j.kind = "announce" -> [market EXCEPT !.pending = TRUE]
      [] OTHER -> [market EXCEPT
            !.copy = [step |-> j.step, by |-> d,
                      exp |-> IF market.copy = NoCopy THEN j.seen.exp ELSE market.copy.exp]]

\* An answer may be a refusal, "not seen yet", or lost with or without the
\* market having taken what was sent.
Send(d) ==
    LET j == job[d]
        taken == CASE j.kind = "announce" -> TRUE
                   [] j.kind = "report" -> lockCoin = j.seen.state
                   [] OTHER -> lockCoin = "coin"
        answer(reply) == job' = [job EXCEPT ![d].at = "answer", ![d].reply = reply]
    IN /\ j.at = "send"
       /\ \/ taken /\ market' = Takes(j, d) /\ answer("taken") /\ UNCHANGED budget
          \/ taken /\ market' = [Takes(j, d) EXCEPT !.unheard = @ \cup {d}] /\ answer("lost") /\ Spend("events")
          \/ answer("lost") /\ Spend("events") /\ UNCHANGED market
          \/ /\ answer("refused") /\ Spend("events")
             /\ market' = IF j.kind = "report" THEN Told(j) ELSE market
          \/ ~taken /\ answer("not seen yet") /\ UNCHANGED <<market, budget>>
       /\ UNCHANGED <<chainVars, row, prompt>>

Record(d) ==
    LET j == job[d]
        result == CASE j.kind = "report" -> AfterReport(j.reply)
                    [] j.kind = "announce" -> AfterReply(j.reply, "pending", FALSE, NoStep)
                    [] OTHER -> AfterReply(j.reply, j.ok, TRUE, j.step)
    IN /\ j.at = "answer"
       /\ row' = [row EXCEPT ![d] = Recorded(row[d], j.seen, result)]
       /\ market' = IF j.reply # "taken" \/ j.kind \notin Uploads THEN market
                    ELSE [market EXCEPT !.unheard =
                            IF Same(row[d], j.seen) THEN @ \ {d} ELSE @ \cup {d}]
       /\ Done(d)
       /\ UNCHANGED <<chainVars, prompt, budget>>

Job(d) == Begin(d) \/ NotNow(d) \/ Cut(d) \/ Look(d) \/ Send(d) \/ Record(d)

-----------------------------------------------------------------------------
(* What the job that follows the lock coin writes of the bookkeeping.  It  *)
(* runs in the same sync as the market jobs, before them.                  *)

\* The listing starts over, and forgets what the market took of it.
StartOver(d, state) ==
    /\ row' = [row EXCEPT ![d] = Reset([@ EXCEPT !.state = state, !.cancel = "none"])]
    /\ market' = [market EXCEPT !.unheard = IF row[d].told THEN @ \cup {d} ELSE @]

FollowLock(d) ==
    LET r == row[d]
        to(new) == row' = [row EXCEPT ![d] = new] /\ UNCHANGED market
        dead == r.state = "cancelling" /\ r.cancel \in {"none", "dead"}
    IN /\ job[d].at = "idle"
       /\ \/ /\ r.state \in {"finalizing", "sold"} \/ dead
             /\ lockCoin = "coin"
             /\ StartOver(d, "listed")
          \/ /\ dead /\ lockCoin = "none"
             /\ StartOver(d, "finalizing")
          \/ /\ r.state \in IF d = Seller THEN {"listed", "sold"} ELSE {"listed"}
             /\ lockCoin = "none"
             /\ to([r EXCEPT !.state = "finalizing"])
          \/ /\ r.state \in {"listed", "cancelling"} \/ (r.state = "sold" /\ lockCoin = "cancelled")
             /\ lockCoin \in Ended
             /\ to(ReportDue([r EXCEPT !.state = lockCoin]))
          \/ /\ r.state = "cancelled" /\ lockCoin \in {"coin", "sold"}
             /\ LET back == [r EXCEPT !.state = "cancelling"]
                IN to(IF r.cancel = "unsent" /\ r.status # "refused" THEN Changed(back) ELSE back)
    /\ UNCHANGED <<chainVars, job, prompt, budget>>

-----------------------------------------------------------------------------
(* The sellers' commands. *)

Write(d, new) ==
    row' = [row EXCEPT ![d] = new] /\ UNCHANGED <<chainVars, market, job, prompt>>

\* A device without the listing restores the lock with its listing file.
Import(d) ==
    /\ row[d].state = "none" /\ lockCoin = "coin" /\ d \in budget.devices
    /\ Write(d, Imported) /\ UNCHANGED budget

Publish(d) ==
    /\ row[d].state = "listed" /\ ~row[d].publish
    /\ Write(d, [row[d] EXCEPT !.publish = TRUE]) /\ UNCHANGED budget

Cancel(d) ==
    /\ row[d].state = "listed" /\ lockCoin = "coin"
    /\ Write(d, [row[d] EXCEPT !.state = "cancelling", !.cancel = "unsent"]) /\ Spend("commands")

\* Deleting the unsent Cancel lists the name again and starts its bookkeeping
\* over at once, also while a job of the listing waits for an answer.
SendOrDropCancel(d) ==
    /\ row[d].cancel = "unsent" /\ row[d].state = "cancelling"
    /\ \/ row' = [row EXCEPT ![d].cancel = "sent"] /\ UNCHANGED market
       \/ StartOver(d, "listed")
    /\ Spend("commands") /\ UNCHANGED <<chainVars, job, prompt>>

\* Lower price signs one step cheaper than the current one, after a prompt.
LowerPrice(d) ==
    /\ prompt[d] = NoPrompt /\ row[d].state = "listed" /\ ~row[d].elsewhere /\ lockCoin = "coin"
    /\ Lowered[d] > Current(row[d].steps, mtp)
    /\ prompt' = [prompt EXCEPT ![d] =
          [kind |-> "lower", old |-> row[d].steps, foreign |-> NoStep, exp |-> row[d].exp,
           new |-> row[d].steps \cup {Lowered[d]}]]
    /\ Spend("commands") /\ UNCHANGED <<chainVars, market, row, job>>

\* A listing managed elsewhere takes the step seen there, or the file of the
\* other device, which must hold every step of ours.
TakeOver(d) ==
    /\ prompt[d] = NoPrompt /\ row[d].state = "listed" /\ row[d].elsewhere /\ lockCoin = "coin"
    /\ \E file \in {[steps |-> row[d].steps \cup {row[d].foreign}, exp |-> row[d].exp]}
                     \cup {[steps |-> row[e].steps, exp |-> row[e].exp] : e \in Devices \ {d}} :
          /\ row[d].steps \subseteq file.steps
          /\ prompt' = [prompt EXCEPT ![d] =
                [kind |-> "take over", old |-> row[d].steps, foreign |-> row[d].foreign,
                 exp |-> file.exp, new |-> file.steps]]
    /\ Spend("commands") /\ UNCHANGED <<chainVars, market, row, job>>

\* The write finds the listing as the command read it, or writes nothing; the
\* file and its expiry are those read before the prompt.
Answer(d) ==
    LET p == prompt[d]
        r == row[d]
        unchanged == /\ r.state = "listed" /\ r.steps = p.old
                     /\ p.kind = "take over" => r.elsewhere /\ r.foreign = p.foreign
        new == [r EXCEPT !.steps = p.new, !.exp = p.exp,
                         !.elsewhere = @ /\ p.kind = "lower",
                         !.foreign = IF p.kind = "lower" THEN @ ELSE NoStep]
    IN /\ p # NoPrompt
       /\ prompt' = [prompt EXCEPT ![d] = NoPrompt]
       /\ \/ UNCHANGED row
          \/ unchanged /\ row' = [row EXCEPT ![d] = Changed(new)]
       /\ UNCHANGED <<chainVars, market, job, budget>>

\* Only a renewal, signed with the lock key, moves the market's expiry.
Renew(d) ==
    /\ row[d].state = "listed" /\ row[d].publish /\ ~row[d].elsewhere
    /\ market.copy # NoCopy /\ market.copy.exp < Refreshed
    /\ market' = [market EXCEPT !.copy.exp = Refreshed]
    /\ Spend("commands") /\ UNCHANGED <<chainVars, row, job, prompt>>

Command(d) ==
    \/ Import(d) \/ Publish(d) \/ Cancel(d) \/ SendOrDropCancel(d)
    \/ LowerPrice(d) \/ TakeOver(d) \/ Answer(d) \/ Renew(d)

-----------------------------------------------------------------------------
(* The chain, the clock and everybody else. *)

\* A sent Cancel dies, and may still be mined; so may one of a device that is
\* not followed here.
CancelDies(d) ==
    /\ row[d].cancel = "sent" /\ row' = [row EXCEPT ![d].cancel = "dead"]
    /\ Spend("events") /\ UNCHANGED <<chainVars, market, job, prompt>>

LockCoinMoves ==
    /\ \/ lockCoin = "none" /\ lockCoin' = "coin" /\ UNCHANGED budget
       \/ lockCoin = "coin" /\ lockCoin' = "sold" /\ UNCHANGED budget
       \/ /\ lockCoin = "coin" /\ lockCoin' = "cancelled"
          /\ IF \E d \in Devices : row[d].cancel = "sent" THEN UNCHANGED budget
             ELSE Spend("events")
       \/ lockCoin \in Ended /\ lockCoin' = "coin" /\ Spend("events")
       \/ lockCoin = "coin" /\ lockCoin' = "none" /\ Spend("events")
    /\ UNCHANGED <<mtp, year, market, row, job, prompt>>

TimePasses ==
    /\ \/ mtp = 0 /\ mtp' = 1 /\ UNCHANGED year
       \/ year' = year + 1 /\ UNCHANGED mtp
    /\ Spend("ticks") /\ UNCHANGED <<lockCoin, market, row, job, prompt>>

\* What was put off is due again.
Hour ==
    /\ \E d \in Devices : ~row[d].due
    /\ row' = [d \in Devices |-> [row[d] EXCEPT !.due = TRUE]]
    /\ UNCHANGED <<chainVars, market, job, prompt, budget>>

\* Anyone may upload a file of this lock, a public one or one with a forged
\* step; a device that is not followed here may upload its own step.
OthersUpload ==
    /\ lockCoin = "coin"
    /\ \E s \in Schedule \cup {NoStep} \cup {Lowered[d] : d \in Devices \ budget.devices} :
          market' = [market EXCEPT !.copy = [step |-> s, by |-> Others,
                        exp |-> IF market.copy = NoCopy THEN 1 ELSE market.copy.exp]]
    /\ Spend("events") /\ UNCHANGED <<chainVars, row, job, prompt>>

Next ==
    \/ \E d \in Devices : Job(d) \/ FollowLock(d) \/ Command(d) \/ CancelDies(d)
    \/ LockCoinMoves \/ TimePasses \/ Hour \/ OthersUpload

Spec == Init /\ [][Next]_vars

\* Syncs go on for as long as there is a listing to keep, each step of a
\* pass ends, and hours pass.
Fairness ==
    /\ \A d \in Devices : WF_vars(Job(d)) /\ SF_vars(FollowLock(d)) /\ WF_vars(Answer(d))
    /\ WF_vars(Hour)

FairSpec == Spec /\ Fairness

-----------------------------------------------------------------------------
(* Properties. *)

Statuses == {"none", "pending", "listed", "replaced", "retrying", "refused", "reported"}

\* Rows, jobs and the market's copy keep their types; a job that is on its
\* way has read a published listing.
TypeOK ==
    /\ lockCoin \in {"none", "coin"} \cup Ended /\ mtp \in 0..1 /\ year \in Nat
    /\ market.copy.step \in Steps \cup {NoStep}
    /\ \A d \in Devices :
        /\ row[d].status \in Statuses /\ row[d].steps \subseteq Steps
        /\ row[d].state \in {"none", "finalizing", "listed", "cancelling"} \cup Ended
        /\ row[d].sent \in row[d].steps \cup {NoStep}
        /\ row[d].accepted => row[d].told
        /\ row[d].elsewhere <=> row[d].foreign # NoStep
        /\ job[d].at # "idle" => job[d].seen.publish

\* The warning that somebody else's copy was on the market is first given
\* only when the copy that was read there came from somebody else: also by a
\* result written over a listing that was cancelled and listed again meanwhile,
\* its bookkeeping started over (db/queries.rs, record_market_result).  Unless the
\* listing had lost track of what the market took when the job read it (an answer
\* got lost, or came when the listing had changed, or its bookkeeping had started
\* over, and no upload was taken since), or a reverse auction goes down by itself
\* over a copy with another expiry than the file, as it has once either is
\* renewed (shakedex_jobs.rs, keep_listed, is_our_sent_step).
WarnedOnlyOfOthers ==
    [][\A d \in Devices :
         row'[d].status = "replaced" /\ row[d].status # "replaced" =>
            \/ job[d].copy.by # d \/ job[d].lost
            \/ job[d].seen.status = "replaced"
            \/ job[d].copy.exp # job[d].seen.exp /\ job[d].step \in Schedule]_vars

\* Devices that see each other's prices do not all step back: while every
\* step on the market is of a device followed here, one of those that publish
\* the listing still manages it, through reorgs, lost answers, refusals and
\* whatever price is taken over (shakedex_jobs.rs, mark_elsewhere,
\* follow_elsewhere; commands/shakedex.rs, take_over_confirmed).
SomeoneKeeps ==
    budget.devices = Devices /\ (\E d \in Devices : row[d].publish)
        => \E d \in Devices : row[d].publish /\ ~row[d].elsewhere

\* The market comes to serve the current step of every device that keeps
\* the listing there: lowered prices, moved steps, lost answers and copies
\* put over ours are caught up with, and two devices do not go on putting
\* theirs over each other's (shakedex_jobs.rs, keep_listed, advance_one).
MarketFollows ==
    <>[](\A d \in Devices :
           /\ row[d].state = "listed" /\ row[d].publish /\ lockCoin = "coin"
           /\ ~row[d].elsewhere /\ row[d].status # "refused"
           => market.copy.step = Current(row[d].steps, mtp))

\* A market that took something of ours comes to be told that the listing
\* ended, by a sale or a cancel, or refuses to hear it, and only then does the
\* listing read as reported, whatever answers are lost or come too early (db/queries.rs,
\* list_listings_to_report).
EndReported ==
    <>[](\A d \in Devices :
           row[d].state \in Ended /\ row[d].told /\ row[d].publish
           => row[d].status = "reported" /\ market.said # {})

=============================================================================
