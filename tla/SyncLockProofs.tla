--------------------------- MODULE SyncLockProofs ---------------------------
(***************************************************************************)
(* What holds of the sync lock whatever the processes, the threads and the *)
(* lengths of the heartbeat and of the threshold.                          *)
(***************************************************************************)
EXTENDS SyncLock, TLAPS

-----------------------------------------------------------------------------
(* Type correctness.                                                       *)

\* A counter that is stepped under its cap stays under it.
LEMMA CappedTypes ==
    ASSUME NEW n \in Nat, NEW cap \in Nat, n <= cap
    PROVE  Capped(n, cap) \in 0..cap /\ Capped(n, cap) <= n + 1
  BY DEF Capped

\* What the end of a process leaves is of its type.
LEMMA EndsTypes ==
    ASSUME TypeOK, NEW p \in Procs, Ends(p)
    PROVE  /\ booted' \subseteq Procs /\ up' \subseteq booted'
           /\ running' \subseteq up' /\ pc' \in [Threads -> Steps]
           /\ lost' \subseteq Threads /\ beat' \in [Threads -> 0..Beat]
           /\ misses' \in Nat /\ mishaps' \in Nat
  BY LockAssumption DEF TypeOK, Ends, Steps

\* Every step of a sync thread keeps every variable within its type.
LEMMA RunTypes ==
    ASSUME TypeOK, NEW t \in Threads, Run(t)
    PROVE  TypeOK'
  <1> USE LockAssumption
  <1>0. 0 \in 0..Beat /\ 0 \in 0..(StaleAfter + 1) /\ 0 \in 0..SinceCap /\ Proc[t] \in Procs
    BY DEF SinceCap
  <1>1. CASE Start(t)
    BY <1>0, <1>1 DEF TypeOK, Start, To, Steps, procVars, rowVars
  <1>2. CASE Read(t)
    BY <1>0, <1>2 DEF TypeOK, Read, To, GiveUp, Steps, procVars, rowVars
  <1>3. CASE Insert(t)
    BY <1>0, <1>3 DEF TypeOK, Insert, Acquire, Begin, GiveUp, To, Steps, procVars, rowVars
  <1>4. CASE TakeOver(t)
    BY <1>0, <1>4 DEF TypeOK, TakeOver, Acquire, Begin, To, Steps, procVars, rowVars
  <1>5. CASE Refresh(t)
    BY <1>0, <1>5 DEF TypeOK, Refresh, Begin, To, Steps, procVars
  <1>6. CASE Unopened(t)
    BY <1>0, <1>6 DEF TypeOK, Unopened, Mishap, Begin, GiveUp, To, Steps, procVars, rowVars
  <1>7. CASE Heartbeat(t)
    BY <1>0, <1>7 DEF TypeOK, Heartbeat, procVars
  <1>8. CASE HeartbeatFails(t)
    BY <1>0, <1>8 DEF TypeOK, HeartbeatFails, procVars, rowVars
  <1>9. CASE MarketCheck(t)
    BY <1>0, <1>9 DEF TypeOK, MarketCheck, procVars, rowVars
  <1>10. CASE Finish(t) \/ StopForLostLock(t)
    BY <1>0, <1>10 DEF TypeOK, Finish, StopForLostLock, Ended, To, Steps, procVars, rowVars
  <1>11. CASE Release(t)
    BY <1>0, <1>11 DEF TypeOK, Release, DeleteRowOf, To, Steps, procVars
  <1>12. CASE ReleaseFails(t)
    BY <1>0, <1>12 DEF TypeOK, ReleaseFails, Mishap, To, Steps, procVars, rowVars
  <1> QED
    BY <1>1, <1>2, <1>3, <1>4, <1>5, <1>6, <1>7, <1>8, <1>9, <1>10, <1>11, <1>12 DEF Run

\* Every variable keeps its type (sync_locks, SyncStatus, LockLost).
THEOREM LockTypeCorrect == Spec => []TypeOK
  <1> USE LockAssumption
  <1>1. Init => TypeOK
    BY DEF Init, TypeOK, Steps, SinceCap
  <1>2. TypeOK /\ [Next]_vars => TypeOK'
    <2> SUFFICES ASSUME TypeOK, [Next]_vars
                 PROVE  TypeOK'
      OBVIOUS
    <2>1. CASE UNCHANGED vars
      BY <2>1 DEF TypeOK, vars, procVars, rowVars, runVars
    <2>2. ASSUME NEW p \in Procs, Boot(p)
          PROVE  TypeOK'
      BY <2>2 DEF TypeOK, Boot, rowVars, runVars
    <2>3. ASSUME NEW p \in Procs, Die(p)
          PROVE  TypeOK'
      BY <2>3, EndsTypes DEF TypeOK, Die, rowVars
    <2>4. ASSUME NEW p \in Procs, Quit(p)
          PROVE  TypeOK'
      BY <2>4, EndsTypes DEF TypeOK, Quit, DeleteRowOf, SinceCap
    <2>5. ASSUME NEW t \in Threads, Run(t)
          PROVE  TypeOK'
      BY <2>5, RunTypes
    <2>6. CASE Tick
      <3>1. age' \in 0..(StaleAfter + 1)
        BY <2>6, CappedTypes DEF TypeOK, Tick
      <3>2. SinceCap \in Nat /\ since' \in 0..SinceCap
        BY <2>6, CappedTypes DEF TypeOK, Tick, SinceCap
      <3>3. beat' \in [Threads -> 0..Beat]
        BY <2>6 DEF TypeOK, Tick
      <3> QED
        BY <2>6, <3>1, <3>2, <3>3 DEF TypeOK, Tick, procVars
    <2>7. CASE Sleep
      BY <2>7 DEF TypeOK, Sleep, Mishap, procVars, runVars
    <2> QED
      BY <2>1, <2>2, <2>3, <2>4, <2>5, <2>6, <2>7 DEF Next
  <1> QED
    BY <1>1, <1>2, PTL DEF Spec

-----------------------------------------------------------------------------
(* Staleness and takeover.                                                 *)

\* A thread at work runs in a process that is up.
ThreadsRun == \A t \in Threads : pc[t] # "idle" => Proc[t] \in up

\* A row names a process that was started.
OwnerBooted == owner = NoOne \/ owner \in booted

\* Without mishaps a daemon that runs holds the row only while its thread
\* syncs, or has synced and is about to release it; so it never refreshes
\* the row by acquiring it again.
DaemonHolds ==
    mishaps = 0 =>
        \A t \in Threads :
            /\ ~IsApp(Proc[t]) /\ Proc[t] \in up /\ owner = Proc[t] =>
                   pc[t] \in {"syncing", "finished"}
            /\ pc[t] # "refresh"

\* The time a syncing thread may have gone without writing or reading the row.
Room(t) == misses * Beat + beat[t]

\* Without mishaps the row of a syncing thread is no older than that, and
\* neither is the acquisition that took the row from it.
WithinRoom ==
    mishaps = 0 =>
        \A t \in Threads : Syncing(t) =>
            /\ owner = Proc[t] => age <= Room(t)
            /\ owner \notin {NoOne, Proc[t]} => since <= Room(t)

LockInv == ThreadsRun /\ OwnerBooted /\ DaemonHolds

\* Every step of a sync thread keeps the holders as they are described.
LEMMA RunKeepsHolders ==
    ASSUME TypeOK, LockInv, NEW t \in Threads, Run(t)
    PROVE  LockInv'
  <1> USE LockAssumption DEF LockInv, ThreadsRun, OwnerBooted, DaemonHolds, IsApp
  <1>0. Proc[t] \in Procs /\ NoOne # Proc[t] /\ pc \in [Threads -> Steps]
        /\ mishaps \in Nat /\ up \subseteq booted
    BY DEF TypeOK
  <1>1. CASE Start(t)
    BY <1>0, <1>1 DEF Start, To, procVars, rowVars
  <1>2. CASE Read(t)
    BY <1>0, <1>2 DEF Read, To, GiveUp, procVars, rowVars, IsStale
  <1>3. CASE Insert(t)
    BY <1>0, <1>3 DEF Insert, Acquire, Begin, GiveUp, To, procVars, rowVars
  <1>4. CASE TakeOver(t)
    BY <1>0, <1>4 DEF TakeOver, Acquire, Begin, To, procVars, rowVars
  <1>5. CASE Refresh(t)
    BY <1>0, <1>5 DEF Refresh, Begin, To, procVars
  <1>6. CASE Unopened(t)
    BY <1>0, <1>6 DEF Unopened, Mishap, Begin, GiveUp, To, procVars, rowVars
  <1>7. CASE Heartbeat(t) \/ HeartbeatFails(t) \/ MarketCheck(t)
    BY <1>0, <1>7 DEF Heartbeat, HeartbeatFails, MarketCheck, procVars, rowVars
  <1>8. CASE Finish(t) \/ StopForLostLock(t)
    BY <1>0, <1>8 DEF Finish, StopForLostLock, Syncing, Ended, To, procVars, rowVars
  <1>9. CASE Release(t)
    BY <1>0, <1>9 DEF Release, DeleteRowOf, To, procVars
  <1>10. CASE ReleaseFails(t)
    BY <1>0, <1>10 DEF ReleaseFails, Mishap, To, procVars, rowVars
  <1> QED
    BY <1>1, <1>2, <1>3, <1>4, <1>5, <1>6, <1>7, <1>8, <1>9, <1>10 DEF Run

\* The holders are as described in every reachable state.
LEMMA HoldersInvariant == Spec => []LockInv
  <1> USE LockAssumption DEF LockInv, ThreadsRun, OwnerBooted, DaemonHolds
  <1>1. Init => LockInv
    BY DEF Init
  <1>2. TypeOK /\ LockInv /\ [Next]_vars => LockInv'
    <2> SUFFICES ASSUME TypeOK, LockInv, [Next]_vars
                 PROVE  LockInv'
      OBVIOUS
    <2>1. CASE UNCHANGED vars
      BY <2>1 DEF vars, procVars, rowVars, runVars, IsApp
    <2>2. ASSUME NEW p \in Procs, Boot(p)
          PROVE  LockInv'
      BY <2>2 DEF Boot, rowVars, runVars, IsApp, TypeOK
    <2>3. ASSUME NEW p \in Procs, Die(p) \/ Quit(p)
          PROVE  LockInv'
      BY <2>3 DEF Die, Quit, Ends, DeleteRowOf, rowVars, IsApp, TypeOK
    <2>4. ASSUME NEW t \in Threads, Run(t)
          PROVE  LockInv'
      BY <2>4, RunKeepsHolders
    <2>5. CASE Tick
      BY <2>5 DEF Tick, procVars, IsApp, TypeOK
    <2>6. CASE Sleep
      BY <2>6 DEF Sleep, Mishap, procVars, runVars, IsApp, TypeOK
    <2> QED
      BY <2>1, <2>2, <2>3, <2>4, <2>5, <2>6 DEF Next
  <1> QED
    BY <1>1, <1>2, LockTypeCorrect, PTL DEF Spec

\* A heartbeat that fails leaves room for one more interval.
LEMMA RoomGrows ==
    ASSUME NEW m \in Nat, NEW b \in Nat
    PROVE  m * b \in Nat /\ (m + 1) * b = m * b + b
  OBVIOUS

\* Every step of a sync thread keeps row and takeover within that room.
LEMMA RunKeepsRoom ==
    ASSUME TypeOK, LockInv, WithinRoom, NEW t \in Threads, Run(t)
    PROVE  WithinRoom'
  <1> USE LockAssumption DEF WithinRoom, Room, Syncing
  <1>0. /\ Proc[t] \in Procs /\ NoOne # Proc[t] /\ pc \in [Threads -> Steps]
        /\ mishaps \in Nat /\ beat \in [Threads -> 0..Beat] /\ misses \in Nat
        /\ age \in Nat /\ since \in Nat /\ misses * Beat \in Nat
        /\ \A u \in Threads : misses * Beat + beat[u] \in Nat
    BY RoomGrows DEF TypeOK
  <1>1. CASE Start(t)
    BY <1>0, <1>1 DEF Start, To, procVars, rowVars
  <1>2. CASE Read(t)
    BY <1>0, <1>2 DEF Read, To, GiveUp, procVars, rowVars
  <1>3. CASE Insert(t)
    BY <1>0, <1>3 DEF Insert, Acquire, Begin, GiveUp, To, procVars, rowVars
  <1>4. CASE TakeOver(t)
    BY <1>0, <1>4 DEF TakeOver, Acquire, Begin, To, procVars, rowVars
  <1>5. CASE Refresh(t)
    BY <1>0, <1>5 DEF Refresh, LockInv, DaemonHolds
  <1>6. CASE Unopened(t) \/ ReleaseFails(t)
    BY <1>0, <1>6 DEF Unopened, ReleaseFails, Mishap
  <1>7. CASE Heartbeat(t)
    BY <1>0, <1>7 DEF Heartbeat, procVars
  <1>8. CASE HeartbeatFails(t)
    <2>1. misses' * Beat = misses * Beat + Beat
      BY <1>0, <1>8, RoomGrows DEF HeartbeatFails
    <2>2. \A u \in Threads : (Room(u))' >= Room(u)
      BY <1>0, <1>8, <2>1 DEF HeartbeatFails, procVars, rowVars
    <2> QED
      BY <1>0, <1>8, <2>1, <2>2 DEF HeartbeatFails, procVars, rowVars
  <1>9. CASE MarketCheck(t)
    BY <1>0, <1>9 DEF MarketCheck, procVars, rowVars
  <1>10. CASE Finish(t) \/ StopForLostLock(t)
    BY <1>0, <1>10 DEF Finish, StopForLostLock, Ended, To, procVars, rowVars
  <1>11. CASE Release(t)
    BY <1>0, <1>11 DEF Release, DeleteRowOf, To, procVars
  <1> QED
    BY <1>1, <1>2, <1>3, <1>4, <1>5, <1>6, <1>7, <1>8, <1>9, <1>10, <1>11 DEF Run

\* Row and takeover stay within that room in every reachable state.
LEMMA RoomInvariant == Spec => []WithinRoom
  <1> USE LockAssumption DEF WithinRoom, Room, Syncing
  <1>1. Init => WithinRoom
    BY DEF Init
  <1>2. TypeOK /\ LockInv /\ WithinRoom /\ [Next]_vars => WithinRoom'
    <2> SUFFICES ASSUME TypeOK, LockInv, WithinRoom, [Next]_vars
                 PROVE  WithinRoom'
      OBVIOUS
    <2>0. /\ pc \in [Threads -> Steps] /\ mishaps \in Nat
          /\ beat \in [Threads -> 0..Beat] /\ misses \in Nat
          /\ age \in Nat /\ since \in Nat /\ misses * Beat \in Nat
          /\ age <= StaleAfter + 1 /\ since <= SinceCap /\ SinceCap \in Nat
      BY RoomGrows DEF TypeOK, SinceCap
    <2>1. CASE UNCHANGED vars
      BY <2>1 DEF vars, procVars, rowVars, runVars
    <2>2. ASSUME NEW p \in Procs, Boot(p)
          PROVE  WithinRoom'
      BY <2>2 DEF Boot, rowVars, runVars
    <2>3. ASSUME NEW p \in Procs, Die(p) \/ Quit(p)
          PROVE  WithinRoom'
      BY <2>0, <2>3 DEF Die, Quit, Ends, DeleteRowOf, rowVars
    <2>4. ASSUME NEW t \in Threads, Run(t)
          PROVE  WithinRoom'
      BY <2>4, RunKeepsRoom
    <2>5. CASE Tick
      <3>1. age' <= age + 1 /\ since' <= since + 1
        <4>1. Capped(age, StaleAfter + 1) <= age + 1 /\ Capped(since, SinceCap) <= since + 1
          BY <2>0 DEF Capped
        <4> QED
          BY <2>0, <2>5, <4>1 DEF Tick
      <3>2. \A t \in Threads : Syncing(t) => beat'[t] = beat[t] + 1
        BY <2>0, <2>5 DEF Tick
      <3> QED
        BY <2>0, <2>5, <3>1, <3>2 DEF Tick, procVars
    <2>6. CASE Sleep
      BY <2>0, <2>6 DEF Sleep, Mishap
    <2> QED
      BY <2>1, <2>2, <2>3, <2>4, <2>5, <2>6 DEF Next
  <1> QED
    BY <1>1, <1>2, LockTypeCorrect, HoldersInvariant, PTL DEF Spec

\* A row goes stale under nobody who still syncs (STALE_THRESHOLD_SECS against
\* HEARTBEAT_INTERVAL_SECS), while the machine is awake and heartbeats write.
THEOREM StaleCorrect == Spec => []StaleMeansGone
  <1>1. TypeOK /\ WithinRoom => StaleMeansGone
    <2> SUFFICES ASSUME TypeOK, WithinRoom, mishaps = 0,
                        (misses + 1) * Beat <= StaleAfter, IsStale,
                        NEW t \in Threads, Syncing(t), owner = Proc[t]
                 PROVE  FALSE
      BY DEF StaleMeansGone
    <2>1. age <= misses * Beat + beat[t]
      BY DEF WithinRoom, Room
    <2>2. (misses + 1) * Beat = misses * Beat + Beat /\ misses * Beat \in Nat
      BY RoomGrows, LockAssumption DEF TypeOK
    <2>3. beat[t] <= Beat /\ beat[t] \in Nat /\ age \in Nat /\ age > StaleAfter
      BY LockAssumption DEF TypeOK, IsStale
    <2> QED
      BY <2>1, <2>2, <2>3, LockAssumption
  <1> QED
    BY <1>1, LockTypeCorrect, RoomInvariant, PTL

\* Two processes sync one profile for a bounded time only: the run that lost
\* the lock finds out at its next heartbeat that writes (LockLost).
THEOREM TakeoverCorrect == Spec => []TakeoverNoticedInTime
  <1>1. TypeOK /\ WithinRoom => TakeoverNoticedInTime
    <2> SUFFICES ASSUME TypeOK, WithinRoom, mishaps = 0,
                        NEW t \in Threads, Syncing(t), owner \notin {NoOne, Proc[t]}
                 PROVE  since <= (misses + 1) * Beat
      BY DEF TakeoverNoticedInTime
    <2>1. since <= misses * Beat + beat[t]
      BY DEF WithinRoom, Room
    <2>2. (misses + 1) * Beat = misses * Beat + Beat /\ misses * Beat \in Nat
      BY RoomGrows, LockAssumption DEF TypeOK
    <2>3. beat[t] <= Beat /\ beat[t] \in Nat /\ since \in Nat
      BY LockAssumption DEF TypeOK, SinceCap
    <2> QED
      BY <2>1, <2>2, <2>3, LockAssumption
  <1> QED
    BY <1>1, LockTypeCorrect, RoomInvariant, PTL
=============================================================================
