------------------------------ MODULE SyncLock ------------------------------
(***************************************************************************)
(* One profile's sync lock: the row of sync_locks by which the app and the *)
(* background daemon agree on who syncs the profile, its heartbeat, and    *)
(* the runs that hold it, lose it, and find out.                           *)
(*                                                                         *)
(* Code: src/src-tauri/src/db/sync_lock.rs (the row), commands/sync.rs     *)
(* (start_full_sync, the heartbeat), daemon/mod.rs (sync_all_profiles),    *)
(* shakedex_jobs.rs (market_lock_lost).                                    *)
(*                                                                         *)
(* A process is one run of an executable: a restart is another process.    *)
(* Acquiring reads the row and then writes it, in two statements and no    *)
(* transaction: they are two steps.  The release build aborts on a panic,  *)
(* so a panic is the death of its process.                                 *)
(***************************************************************************)
EXTENDS Naturals, FiniteSets

CONSTANTS
    Procs,          \* processes, each started once
    Kind,           \* [Procs -> {"app", "daemon"}]
    Threads,        \* sync threads; a daemon has one, an app one per overlapping run
    Proc,           \* [Threads -> Procs]
    NoOne,          \* no row
    Beat,           \* HEARTBEAT_INTERVAL_SECS, in ticks
    StaleAfter,     \* STALE_THRESHOLD_SECS, in ticks
    MaxMisses,      \* bound: heartbeats that fail to write
    MaxMishaps      \* bound: the machine sleeps, the database cannot be opened

ASSUME LockAssumption ==
    /\ Kind \in [Procs -> {"app", "daemon"}]
    /\ Proc \in [Threads -> Procs]
    /\ NoOne \notin Procs
    /\ Beat \in Nat \ {0} /\ StaleAfter \in Nat /\ Beat <= StaleAfter
    /\ MaxMisses \in Nat /\ MaxMishaps \in Nat
    /\ \A t, u \in Threads : Proc[t] = Proc[u] /\ Kind[Proc[t]] = "daemon" => t = u

VARIABLES
    booted,         \* processes that have been started
    up,             \* processes that run
    owner,          \* owner_pid, or NoOne: no row
    age,            \* ticks since heartbeat_at, up to StaleAfter + 1
    since,          \* ticks awake since the owner acquired it, capped (history)
    running,        \* apps whose SyncStatus.running is set
    pc,             \* where each thread is
    lost,           \* threads whose LockLost is raised
    beat,           \* ticks since the thread's heartbeat last woke
    misses,         \* how many heartbeats failed to write
    mishaps         \* how many mishaps have happened

procVars == <<booted, up>>
rowVars == <<owner, age, since>>
runVars == <<running, pc, lost, beat>>
vars == <<procVars, rowVars, runVars, misses, mishaps>>

Steps == {"idle", "started", "insert", "refresh", "takeover", "syncing", "finished"}

SinceCap == StaleAfter + Beat + 1

IsApp(p) == Kind[p] = "app"

TypeOK ==
    /\ booted \subseteq Procs
    /\ up \subseteq booted
    /\ owner \in Procs \cup {NoOne}
    /\ age \in 0..(StaleAfter + 1)
    /\ since \in 0..SinceCap
    /\ running \subseteq up
    /\ pc \in [Threads -> Steps]
    /\ lost \subseteq Threads
    /\ beat \in [Threads -> 0..Beat]
    /\ misses \in Nat
    /\ mishaps \in Nat

Init ==
    /\ booted = {}
    /\ up = {}
    /\ owner = NoOne
    /\ age = 0
    /\ since = 0
    /\ running = {}
    /\ pc = [t \in Threads |-> "idle"]
    /\ lost = {}
    /\ beat = [t \in Threads |-> 0]
    /\ misses = 0
    /\ mishaps = 0

-----------------------------------------------------------------------------
(* Processes.                                                              *)

\* claim_single_instance: one daemon at a time.
Boot(p) ==
    /\ p \notin booted
    /\ ~IsApp(p) => \A q \in up : IsApp(q)
    /\ booted' = booted \cup {p}
    /\ up' = up \cup {p}
    /\ UNCHANGED <<rowVars, runVars, misses, mishaps>>

\* Mutant of Ends: the sync the process was running goes on as running.
EndsStillRunning(p) ==
    /\ p \in up
    /\ up' = up \ {p}
    /\ pc' = [t \in Threads |-> IF Proc[t] = p THEN "idle" ELSE pc[t]]
    /\ beat' = [t \in Threads |-> IF Proc[t] = p THEN 0 ELSE beat[t]]
    /\ lost' = {t \in lost : Proc[t] # p}
    /\ UNCHANGED <<booted, running, misses, mishaps>>

\* The process ends, its threads with it.
Ends(p) ==
    /\ p \in up
    /\ up' = up \ {p}
    /\ running' = running \ {p}
    /\ pc' = [t \in Threads |-> IF Proc[t] = p THEN "idle" ELSE pc[t]]
    /\ beat' = [t \in Threads |-> IF Proc[t] = p THEN 0 ELSE beat[t]]
    /\ lost' = {t \in lost : Proc[t] # p}
    /\ UNCHANGED <<booted, misses, mishaps>>

\* Killed, or aborted on a panic: the row stays.
Die(p) ==
    /\ Ends(p)
    /\ UNCHANGED rowVars

DeleteRowOf(p) ==
    /\ owner' = IF owner = p THEN NoOne ELSE owner
    /\ age' = IF owner = p THEN 0 ELSE age
    /\ since' = IF owner = p THEN 0 ELSE since

\* cleanup, on the daemon's SIGTERM: release_all_owned.
Quit(p) ==
    /\ ~IsApp(p)
    /\ Ends(p)
    /\ DeleteRowOf(p)

-----------------------------------------------------------------------------
(* Acquiring.                                                              *)

To(t, s) == pc' = [pc EXCEPT ![t] = s]

\* start_full_sync while none runs; the daemon's next cycle.
Start(t) ==
    /\ Proc[t] \in up
    /\ pc[t] = "idle"
    /\ IF IsApp(Proc[t])
       THEN Proc[t] \notin running /\ running' = running \cup {Proc[t]}
       ELSE UNCHANGED running
    /\ To(t, "started")
    /\ UNCHANGED <<procVars, rowVars, lost, beat, misses, mishaps>>

\* The run does not get the lock, or could not try.
GiveUp(t) ==
    /\ To(t, "idle")
    /\ running' = running \ {Proc[t]}

IsStale == age > StaleAfter

\* Mutant of Read: a stale row is not taken over.
ReadNeverStale(t) ==
    LET p == Proc[t]
        mine == owner = p
        free == owner # NoOne /\ IsApp(p) /\ ~IsApp(owner)
    IN  /\ pc[t] = "started"
        /\ \/ owner = NoOne /\ To(t, "insert") /\ UNCHANGED running
           \/ mine /\ ~IsApp(p) /\ To(t, "refresh") /\ UNCHANGED running
           \/ (IF mine THEN IsApp(p) ELSE free) /\ To(t, "takeover") /\ UNCHANGED running
           \/ owner # NoOne /\ ~mine /\ ~free /\ GiveUp(t)
        /\ UNCHANGED <<procVars, rowVars, lost, beat, misses, mishaps>>

\* The SELECT of acquire_for_app (an app) and try_acquire (the daemon), and
\* the branch it chooses.
Read(t) ==
    LET p == Proc[t]
        mine == owner = p
        free == owner # NoOne /\ (IsStale \/ (IsApp(p) /\ ~IsApp(owner)))
    IN  /\ pc[t] = "started"
        /\ \/ owner = NoOne /\ To(t, "insert") /\ UNCHANGED running
           \/ mine /\ ~IsApp(p) /\ To(t, "refresh") /\ UNCHANGED running
           \/ (IF mine THEN IsApp(p) ELSE free) /\ To(t, "takeover") /\ UNCHANGED running
           \/ owner # NoOne /\ ~mine /\ ~free /\ GiveUp(t)
        /\ UNCHANGED <<procVars, rowVars, lost, beat, misses, mishaps>>

Acquire(p) ==
    /\ owner' = p
    /\ age' = 0
    /\ since' = 0

\* The run and its heartbeat begin.
Begin(t) ==
    /\ To(t, "syncing")
    /\ beat' = [beat EXCEPT ![t] = 0]
    /\ UNCHANGED running

\* INSERT: the primary key refuses a second row.
Insert(t) ==
    /\ pc[t] = "insert"
    /\ \/ owner = NoOne /\ Acquire(Proc[t]) /\ Begin(t)
       \/ owner # NoOne /\ GiveUp(t) /\ UNCHANGED <<rowVars, beat>>
    /\ UNCHANGED <<procVars, lost, misses, mishaps>>

\* UPDATE ... SET owner_pid, heartbeat_at WHERE profile_id: whoever owns the
\* row by now, and nothing if there is none.
TakeOver(t) ==
    /\ pc[t] = "takeover"
    /\ IF owner # NoOne THEN Acquire(Proc[t]) ELSE UNCHANGED rowVars
    /\ Begin(t)
    /\ UNCHANGED <<procVars, lost, misses, mishaps>>

\* UPDATE ... SET heartbeat_at WHERE profile_id, of the daemon's own row.
Refresh(t) ==
    /\ pc[t] = "refresh"
    /\ age' = 0
    /\ Begin(t)
    /\ UNCHANGED <<procVars, owner, since, lost, misses, mishaps>>

Mishap == mishaps < MaxMishaps /\ mishaps' = mishaps + 1

\* The database cannot be opened: the daemon ends its cycle, the app goes on
\* without the lock.
Unopened(t) ==
    /\ Mishap
    /\ pc[t] = "started"
    /\ IF IsApp(Proc[t]) THEN Begin(t) ELSE GiveUp(t) /\ UNCHANGED beat
    /\ UNCHANGED <<procVars, rowVars, lost, misses>>

-----------------------------------------------------------------------------
(* Holding, losing, releasing.                                             *)

Syncing(t) == pc[t] = "syncing" /\ t \notin lost

\* Mutants of Heartbeat: it writes nothing; it does not look whose row it is.
HeartbeatUnwritten(t) ==
    /\ Syncing(t)
    /\ beat[t] = Beat
    /\ beat' = [beat EXCEPT ![t] = 0]
    /\ lost' = IF owner = Proc[t] THEN lost ELSE lost \cup {t}
    /\ UNCHANGED <<procVars, rowVars, running, pc, misses, mishaps>>

HeartbeatOfAnyRow(t) ==
    /\ Syncing(t)
    /\ beat[t] = Beat
    /\ beat' = [beat EXCEPT ![t] = 0]
    /\ age' = 0
    /\ UNCHANGED <<procVars, owner, since, running, pc, lost, misses, mishaps>>

\* refresh_heartbeat, every Beat ticks: the row is ours, or the lock is lost.
Heartbeat(t) ==
    /\ Syncing(t)
    /\ beat[t] = Beat
    /\ beat' = [beat EXCEPT ![t] = 0]
    /\ IF owner = Proc[t]
       THEN age' = 0 /\ UNCHANGED lost
       ELSE lost' = lost \cup {t} /\ UNCHANGED age
    /\ UNCHANGED <<procVars, owner, since, running, pc, misses, mishaps>>

\* The heartbeat cannot write: it logs, and sleeps again.
HeartbeatFails(t) ==
    /\ Syncing(t)
    /\ beat[t] = Beat
    /\ misses < MaxMisses
    /\ misses' = misses + 1
    /\ beat' = [beat EXCEPT ![t] = 0]
    /\ UNCHANGED <<procVars, rowVars, running, pc, lost, mishaps>>

\* market_lock_lost, before a listing: the row names another process.
MarketCheck(t) ==
    /\ Syncing(t)
    /\ owner \notin {NoOne, Proc[t]}
    /\ lost' = lost \cup {t}
    /\ beat' = [beat EXCEPT ![t] = 0]
    /\ UNCHANGED <<procVars, rowVars, running, pc, misses, mishaps>>

\* The steps end, the heartbeat is joined, finish_run clears running; the
\* next run has a flag of its own.
Ended(t) ==
    /\ To(t, "finished")
    /\ running' = running \ {Proc[t]}
    /\ lost' = lost \ {t}
    /\ beat' = [beat EXCEPT ![t] = 0]
    /\ UNCHANGED <<procVars, rowVars, misses, mishaps>>

Finish(t) == Syncing(t) /\ Ended(t)

\* stop_for_lost_lock, before the next step.
StopForLostLock(t) == pc[t] = "syncing" /\ t \in lost /\ Ended(t)

\* release: only our own row.
Release(t) ==
    /\ pc[t] = "finished"
    /\ DeleteRowOf(Proc[t])
    /\ To(t, "idle")
    /\ UNCHANGED <<procVars, running, lost, beat, misses, mishaps>>

ReleaseFails(t) ==
    /\ Mishap
    /\ pc[t] = "finished"
    /\ To(t, "idle")
    /\ UNCHANGED <<procVars, rowVars, running, lost, beat, misses>>

-----------------------------------------------------------------------------
(* Time.                                                                   *)

Capped(n, cap) == IF n < cap THEN n + 1 ELSE cap

\* A heartbeat thread that is due wakes before another tick passes.
Tick ==
    /\ \A t \in Threads : Syncing(t) => beat[t] < Beat
    /\ age' = IF owner = NoOne THEN 0 ELSE Capped(age, StaleAfter + 1)
    /\ since' = IF owner = NoOne THEN 0 ELSE Capped(since, SinceCap)
    /\ beat' = [t \in Threads |-> IF Syncing(t) THEN beat[t] + 1 ELSE beat[t]]
    /\ UNCHANGED <<procVars, owner, running, pc, lost, misses, mishaps>>

\* The machine sleeps past the threshold: the wall clock goes on, no thread does.
Sleep ==
    /\ Mishap
    /\ owner # NoOne
    /\ age' = StaleAfter + 1
    /\ UNCHANGED <<procVars, owner, since, runVars, misses>>

Run(t) ==
    \/ Start(t) \/ Read(t) \/ Insert(t) \/ TakeOver(t) \/ Refresh(t) \/ Unopened(t)
    \/ Heartbeat(t) \/ HeartbeatFails(t) \/ MarketCheck(t)
    \/ Finish(t) \/ StopForLostLock(t) \/ Release(t) \/ ReleaseFails(t)

Next ==
    \/ \E p \in Procs : Boot(p) \/ Die(p) \/ Quit(p)
    \/ \E t \in Threads : Run(t)
    \/ Tick
    \/ Sleep

Spec == Init /\ [][Next]_vars

\* The step a thread is about to take, the daemon's next cycle included; a sync
\* may take as long as it likes.
Goes(t) ==
    \/ Read(t) \/ Insert(t) \/ TakeOver(t) \/ Refresh(t)
    \/ Heartbeat(t) \/ StopForLostLock(t) \/ Release(t)
    \/ ~IsApp(Proc[t]) /\ Start(t)

\* Time passes; a running thread goes on; the daemon starts a cycle every
\* SYNC_INTERVAL_SECS.
Fairness ==
    /\ WF_vars(Tick)
    /\ \A t \in Threads : WF_vars(Goes(t))

FairSpec == Spec /\ Fairness

-----------------------------------------------------------------------------
(* Safety.                                                                 *)

\* While the machine stays awake and fewer heartbeats fail than the threshold
\* has room for, a stale row is nobody's who still syncs: taking it over
\* (try_acquire, acquire_for_app) takes it from a process that is gone.
StaleMeansGone ==
    mishaps = 0 /\ (misses + 1) * Beat <= StaleAfter /\ IsStale =>
        \A t \in Threads : Syncing(t) => owner # Proc[t]

\* A run that goes on syncing after another process acquired the lock finds
\* out within a heartbeat, plus one for each that failed to write: the time
\* two processes sync one profile is bounded (LockLost).
TakeoverNoticedInTime ==
    mishaps = 0 =>
        \A t \in Threads :
            Syncing(t) /\ owner \notin {NoOne, Proc[t]} => since <= (misses + 1) * Beat

\* sync.rs:366: a run whose heartbeat keeps its row fresh loses it to nobody
\* but an app.
FreshLockKept ==
    [][\A t \in Threads :
         Syncing(t) /\ owner = Proc[t] /\ ~IsStale /\ Syncing(t)' =>
             owner' # NoOne /\ (owner' = owner \/ IsApp(owner'))]_vars

-----------------------------------------------------------------------------
(* Liveness.                                                               *)

\* A run whose row is gone or another's stops, or gets the row back.
Stops(t) == pc[t] = "syncing" /\ owner # Proc[t] ~> pc[t] # "syncing" \/ owner = Proc[t]

LostRunStops == \A t \in Threads : Stops(t)

\* The row of a process that is gone does not keep the profile from being
\* synced: as long as a daemon runs, one takes it over (daemon/mod.rs).
HeldByTheDead == owner # NoOne /\ owner \notin up
DaemonUp == \E p \in up : ~IsApp(p)

DeadHolderReplaced == HeldByTheDead /\ DaemonUp ~> ~HeldByTheDead \/ ~DaemonUp
=============================================================================
