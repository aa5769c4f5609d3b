------------------------------ MODULE Reminders ------------------------------
(***************************************************************************)
(* The deadline reminders: one settings row holds the keys already sent,   *)
(* and two processes rewrite it.  The app's pass sends what is its own     *)
(* (reveals, renewals) and, while the daemon's heartbeat is not fresh, the *)
(* finalize reminders; the daemon's step sends those, and beats.           *)
(*                                                                         *)
(* Code: src/src-tauri/src/commands/deadlines.rs (the scans, the claim,    *)
(* the app's pass), daemon/mod.rs (the daemon's step), db/queries.rs (what *)
(* is ready, what is open).                                                *)
(*                                                                         *)
(* A claim is one BEGIN IMMEDIATE transaction, so one step.  The reminders *)
(* it returns are sent after it and never again: a process that dies in    *)
(* between, or an OS that refuses, loses them (at most once, by design),   *)
(* so "told" below is the claim.  Not modelled: a pass that fails (it is a *)
(* pass that has not run), lead times, grouping, a clock set back.         *)
(***************************************************************************)
EXTENDS Naturals

CONSTANTS
    Finalize,       \* purchases, cancels and listings, waiting for their FINALIZE
    Own,            \* reveals and renewals: the app's alone
    Fresh,          \* DAEMON_HEARTBEAT_FRESH_SECS, in ticks
    LastDay         \* bound: days

ASSUME RemindersAssumption ==
    /\ Finalize \cap Own = {}
    /\ Fresh \in Nat \ {0} /\ LastDay \in Nat \ {0}

VARIABLES
    daily,          \* the listings: reminded of every day, the others once (fixed)
    stays,          \* which process, once started, goes on for ever: one, or "neither" (fixed)
    stage,          \* of each episode, as its rows say
    day,            \* unix day
    on,             \* deadline_notify_enabled
    claimed,        \* deadline_notify_state
    beatAge,        \* ticks since finalize_reminders_daemon_at, up to Fresh: not fresh
    daemon,         \* the daemon's step
    app,            \* the app's pass: where, whether it leaves the finalize ones, its day
    told,           \* <<episode, day>> claimed to be sent since the episode opened (history)
    unseen,         \* episodes no scan has looked at since they closed (history)
    late            \* a pass of an earlier day claimed finalize reminders (history)

stored == <<on, claimed, beatAge>>
history == <<told, unseen, late>>
fixed == <<daily, stays>>
remindVars == <<fixed, stage, day, stored, daemon, app, history>>

Episodes == Finalize \cup Own

\* "waiting": open, its lockup not over.  "closed": its FINALIZE may have
\* reached the chain, or there is none yet.  A deadline is near or is not.
StagesOf(e) == IF e \in Own THEN {"closed", "ready"} ELSE {"closed", "waiting", "ready"}

Resting == [at |-> "idle", leaves |-> FALSE, day |-> 0]
Gone == [Resting EXCEPT !.at = "down"]

\* The day a reminder of e sent on day d stands for.
DayOf(e, d) == IF e \in daily THEN d ELSE 0

RemindersTypeOK ==
    /\ daily \subseteq Finalize
    /\ stays \in {"app", "daemon", "neither"}
    /\ \A e \in Episodes : stage[e] \in StagesOf(e)
    /\ day \in 1..LastDay
    /\ on \in BOOLEAN
    /\ claimed \subseteq {<<e, DayOf(e, d)>> : e \in Episodes, d \in 1..LastDay}
    /\ beatAge \in 0..Fresh
    /\ daemon \in {"down", "up", "claimed"}
    /\ app \in [at : {"down", "idle", "asked", "own"}, leaves : BOOLEAN, day : 0..LastDay]
    /\ told \subseteq {<<e, DayOf(e, d)>> : e \in Episodes, d \in 1..LastDay}
    /\ unseen \subseteq Episodes
    /\ late \in BOOLEAN

RemindersInit ==
    /\ daily \in SUBSET Finalize
    /\ stays \in {"app", "daemon", "neither"}
    /\ stage = [e \in Episodes |-> "closed"]
    /\ day = 1
    /\ on = FALSE
    /\ claimed = {}
    /\ beatAge = Fresh
    /\ daemon = "down"
    /\ app = Gone
    /\ told = {}
    /\ unseen = {}
    /\ late = FALSE

-----------------------------------------------------------------------------
(* The world: chain, user, clock.                                          *)

\* A sync finds the lockup running, over, or running again; a FINALIZE fails.
Opens(e) ==
    /\ \E s \in StagesOf(e) \ {"closed", stage[e]} : stage' = [stage EXCEPT ![e] = s]
    /\ UNCHANGED <<fixed, day, stored, daemon, app, history>>

\* The FINALIZE is sent; the name is revealed or renewed.
Closes(e) ==
    /\ stage[e] # "closed"
    /\ stage' = [stage EXCEPT ![e] = "closed"]
    /\ told' = {k \in told : k[1] # e}
    /\ unseen' = unseen \cup {e}
    /\ UNCHANGED <<fixed, day, stored, daemon, app, late>>

Toggle ==
    /\ on' = ~on
    /\ UNCHANGED <<fixed, stage, day, claimed, beatAge, daemon, app, history>>

Midnight ==
    /\ day < LastDay
    /\ day' = day + 1
    /\ UNCHANGED <<fixed, stage, stored, daemon, app, history>>

BeatAges ==
    /\ beatAge < Fresh
    /\ beatAge' = beatAge + 1
    /\ UNCHANGED <<fixed, stage, day, on, claimed, daemon, app, history>>

-----------------------------------------------------------------------------
(* The claim.                                                              *)

\* Mutant of Key: a listing's key without its day.
KeyOnce(e, d) == <<e, 0>>

\* purchase_finalize_key, cancel_finalize_key, listing_ready_key, ...
Key(e, d) == <<e, DayOf(e, d)>>

\* What the scans find due, among the episodes a writer owns.
Imminent(mine, d) == {Key(e, d) : e \in {e \in mine : stage[e] = "ready"}}

\* Mutant of StillOpen: a sent reminder is claimed only while it is due.
StillOpenNever(mine, d) == {}

\* A finalize reminder already sent stays claimed while its episode is open.
StillOpen(mine, d) ==
    claimed \cap {Key(e, d) : e \in {e \in mine \cap Finalize : stage[e] # "closed"}}

\* Mutant of Merged: the other writer's keys are dropped.
MergedDropping(mine, active) == active

\* merge_state: the other writer's keys stay as they are.
Merged(mine, active) == {k \in claimed : k[1] \notin mine} \cup active

\* claim_episodes.
Claim(mine, d) ==
    LET due == {e \in mine : Key(e, d) \in Imminent(mine, d) \ claimed}
    IN  /\ claimed' = Merged(mine, Imminent(mine, d) \cup StillOpen(mine, d))
        /\ told' = told \cup {<<e, DayOf(e, d)>> : e \in due}
        /\ unseen' = unseen \ {e \in mine : stage[e] = "closed"}

\* deliver_finalize_reminders: off, it sends nothing and leaves the keys alone.
DeliverFinalize(d) ==
    IF on
    THEN Claim(Finalize, d) /\ late' = (late \/ d # day)
    ELSE UNCHANGED <<claimed, history>>

-----------------------------------------------------------------------------
(* The daemon's step, after each cycle.                                    *)

DaemonStarts ==
    /\ daemon = "down"
    /\ daemon' = "up"
    /\ UNCHANGED <<fixed, stage, day, stored, app, history>>

DaemonDies ==
    /\ stays # "daemon"
    /\ daemon # "down"
    /\ daemon' = "down"
    /\ UNCHANGED <<fixed, stage, day, stored, app, history>>

DaemonClaims ==
    /\ daemon = "up"
    /\ daemon' = "claimed"
    /\ DeliverFinalize(day)
    /\ UNCHANGED <<fixed, stage, day, on, beatAge, app>>

\* record_daemon_heartbeat, with the reminders off too.
DaemonBeats ==
    /\ daemon = "claimed"
    /\ daemon' = "up"
    /\ beatAge' = 0
    /\ UNCHANGED <<fixed, stage, day, on, claimed, app, history>>

-----------------------------------------------------------------------------
(* The app's pass, every ten minutes.                                      *)

AppStarts ==
    /\ app.at = "down"
    /\ app' = Resting
    /\ UNCHANGED <<fixed, stage, day, stored, daemon, history>>

AppDies ==
    /\ stays # "app"
    /\ app.at # "down"
    /\ app' = Gone
    /\ UNCHANGED <<fixed, stage, day, stored, daemon, history>>

\* Mutant of DaemonFresh: by the PID file, a daemon that hangs is there.
DaemonThere == daemon # "down"

\* daemon_heartbeat_fresh.
DaemonFresh == beatAge < Fresh

\* The pass reads the settings and the day, then asks the node for its height.
AppBegins ==
    /\ app.at = "idle"
    /\ on
    /\ app' = [at |-> "asked", leaves |-> DaemonFresh, day |-> day]
    /\ UNCHANGED <<fixed, stage, day, stored, daemon, history>>

\* The reveal and renewal reminders, on what the settings were.
AppClaimsOwn ==
    /\ app.at = "asked"
    /\ app' = IF app.leaves THEN Resting ELSE [app EXCEPT !.at = "own"]
    /\ Claim(Own, app.day)
    /\ UNCHANGED <<fixed, stage, day, on, beatAge, daemon, late>>

\* The finalize ones, on what the settings are, and on the pass's day.
AppClaimsFinalize ==
    /\ app.at = "own"
    /\ app' = Resting
    /\ DeliverFinalize(app.day)
    /\ UNCHANGED <<fixed, stage, day, on, beatAge, daemon>>

AppPass == AppBegins \/ AppClaimsOwn \/ AppClaimsFinalize

DaemonStep == DaemonClaims \/ DaemonBeats

RemindersNext ==
    \/ \E e \in Episodes : Opens(e) \/ Closes(e)
    \/ Toggle \/ Midnight \/ BeatAges
    \/ DaemonStarts \/ DaemonDies \/ DaemonStep
    \/ AppStarts \/ AppDies \/ AppPass

DaemonGoesOn == stays = "daemon" /\ DaemonStep
AppGoesOn == stays = "app" /\ AppPass

\* Time passes.  The process that stays takes a pass every ten minutes, or a
\* cycle after the other; another one may hang.
RemindersSpec ==
    /\ RemindersInit
    /\ [][RemindersNext]_remindVars
    /\ WF_remindVars(BeatAges)
    /\ WF_remindVars(DaemonGoesOn)
    /\ WF_remindVars(AppGoesOn)

-----------------------------------------------------------------------------
(* No reminder is sent twice for one episode, a listing's twice for one    *)
(* day, whichever process sends it, while a lockup seems over and running  *)
(* again, the reminders are off for a while, and the daemon comes and goes *)
(* (deadlines.rs:808, 847).  Not so for a listing once a pass that asked   *)
(* its node before midnight claims after it, with yesterday's day.         *)
SentOnce ==
    [][\A k \in claimed' \ claimed : k \in told => k[1] \in daily /\ late']_remindVars

(* What stays due is reminded of, today too if it is a listing, while one  *)
(* process that sends it goes on running: a daemon that hangs or stops     *)
(* leaves its reminders to the app (deadlines.rs:823).  Not so for one     *)
(* that closed and opened again between two scans: its key is still there. *)
Able(e) ==
    \/ stays = "app" /\ app.at # "down"
    \/ stays = "daemon" /\ daemon # "down" /\ e \in Finalize

Reminded ==
    \A e \in Episodes :
        []<>(Able(e) /\ on /\ stage[e] = "ready" =>
                <<e, DayOf(e, day)>> \in told \/ e \in unseen)
=============================================================================
