----------------------- MODULE ShakedexListingProofs -----------------------
(***************************************************************************)
(* No lock coin is signed over twice, a listing's file is over the lock    *)
(* coin it follows, and no step takes it off a FINALIZE or a Cancel that   *)
(* may still land, but a job that read it with an earlier one: for any     *)
(* transactions, any chain with any number of reorgs, any device and any   *)
(* number of commands that wait.                                           *)
(***************************************************************************)
EXTENDS ShakedexListing, SequenceTheorems, TLAPS

\* What makes NeverSignedTwice inductive: a set of steps is counted only
\* with the record of its lock coin, and a record is never taken back.
Recorded ==
    /\ sets \in [Locks -> Nat]
    /\ \A l \in Locks : sets[l] <= 1 /\ (l \notin signed => sets[l] = 0)

LEMMA RecordedInit == Init => Recorded
BY DEF Init, Recorded

\* Steps that sign nothing.
LEMMA RecordedKept == Recorded /\ UNCHANGED <<signed, sets>> => Recorded'
BY DEF Recorded

LEMMA RecordedNext == Recorded /\ [Next]_vars => Recorded'
<1> SUFFICES ASSUME Recorded, [Next]_vars PROVE Recorded'
  OBVIOUS
<1>1. ASSUME NEW f \in Ours, FinalizeStore(f) PROVE Recorded'
  <2>1. Lock(f) \in Locks
    BY ListingAssumption DEF Locks
  <2>2. /\ Lock(f) \notin signed
        /\ signed' = signed \cup {Lock(f)}
        /\ sets' = [sets EXCEPT ![Lock(f)] = @ + 1]
    BY <1>1 DEF FinalizeStore
  <2>3. sets[Lock(f)] = 0
    BY <2>1, <2>2 DEF Recorded
  <2>4. sets' \in [Locks -> Nat]
    BY <2>2, <2>1 DEF Recorded
  <2>5. \A l \in Locks : sets'[l] = IF l = Lock(f) THEN 1 ELSE sets[l]
    BY <2>2, <2>3, <2>1 DEF Recorded
  <2> QED BY <2>2, <2>4, <2>5 DEF Recorded
<1>2. CASE UpgradeByFile
  BY <1>2 DEF UpgradeByFile, Recorded
<1>3. CASE UNCHANGED vars
  BY <1>3, RecordedKept DEF vars, listingVars
<1>4. CASE World
  BY <1>4, RecordedKept DEF World, listingVars
<1>5. CASE Job \/ JobFails
  BY <1>5, RecordedKept DEF Job, JobFails, JobStart, JobFirst, JobRest, JobTail
<1>6. ASSUME NEW d \in OurPaths, Send(d) \/ Discard(d) \/ Poll(d) PROVE Recorded'
  BY <1>6, RecordedKept DEF Send, Discard, Poll
<1>7. CASE LockName \/ Refused \/ RestoreByName
  BY <1>7, RecordedKept DEF LockName, Refused, RestoreByName
<1>8. CASE AbortPrompt \/ AbortStore \/ CancelPrompt \/ HomePrompt
  BY <1>8, RecordedKept DEF AbortPrompt, AbortStore, CancelPrompt, HomePrompt, Prompt
<1>9. ASSUME NEW f \in Ours, FinalizePrompt(f) PROVE Recorded'
  BY <1>9, RecordedKept DEF FinalizePrompt, Prompt
<1>10. ASSUME NEW l \in Locks, CancelStore(l) PROVE Recorded'
  BY <1>10, RecordedKept DEF CancelStore
<1>11. ASSUME NEW c \in MinedCancels, HomeStore(c) PROVE Recorded'
  BY <1>11, RecordedKept DEF HomeStore
<1> QED
  BY <1>1, <1>2, <1>3, <1>4, <1>5, <1>6, <1>7, <1>8, <1>9, <1>10, <1>11 DEF Next, Commands

\* A lock coin gets one set of price steps, whatever is discarded, reverted
\* or left open at a prompt (record_signed_lock_txid_in_tx).
THEOREM SignedOnceCorrect == Spec => []NeverSignedTwice
<1>1. Recorded => NeverSignedTwice
  BY DEF Recorded, NeverSignedTwice
<1> QED
  BY <1>1, RecordedInit, RecordedNext, PTL DEF Spec

-----------------------------------------------------------------------------
(* The transactions of the name are told apart by their paths.             *)

LEMMA LockPaths ==
    \A l \in Locks : /\ l # None /\ l # T /\ l # A /\ l # <<>>
                     /\ \A c \in CancelsOf(l) : c # None /\ c # T /\ c # A
<1> SUFFICES ASSUME NEW f \in Finals
             PROVE  /\ Lock(f) # None /\ Lock(f) # T /\ Lock(f) # A /\ Lock(f) # <<>>
                    /\ \A c \in CancelsOf(Lock(f)) : c # None /\ c # T /\ c # A
  BY DEF Locks
<1>1. f # "abort"
  BY KindsAssumption
<1>2. Lock(f)[2] = f /\ A[2] = "abort"
  BY DEF Lock, T, A
<1>3. Lock(f) # None /\ Lock(f) # T /\ Lock(f) # <<>>
  BY DEF Lock, T, None
<1>4. ASSUME NEW k \in OurCancels
      PROVE  LET c == Append(Lock(f), k) IN c # None /\ c # T /\ c # A
  BY DEF Lock, T, A, None
<1> QED BY <1>1, <1>2, <1>3, <1>4 DEF CancelsOf

LEMMA CancelsApart ==
    ASSUME NEW l \in Locks, NEW k \in Locks, NEW c \in CancelsOf(l)
    PROVE  /\ c # k
           /\ \A x : c = Append(k, x) => l = k
           /\ \A p \in Purchases : c # Append(k, p)
           /\ \A m \in MinedCancels : HomeOf(m) # c
           /\ c \in MinedCancels /\ c \notin CancelsOf(None)
<1>1. PICK f \in Finals : l = Lock(f)
  BY DEF Locks
<1>2. PICK g \in Finals : k = Lock(g)
  BY DEF Locks
<1>3. PICK i \in OurCancels : c = Append(l, i)
  BY DEF CancelsOf
<1>4. c # k
  BY <1>1, <1>2, <1>3 DEF Lock, T
<1>5. \A x : c = Append(k, x) => l = k /\ x = i
  BY <1>1, <1>2, <1>3 DEF Lock, T
<1>6. i \in Cancels /\ i \notin Purchases
  BY KindsAssumption, ListingAssumption
<1>7. ASSUME NEW m \in MinedCancels PROVE HomeOf(m) # c
  <2>1. PICK h \in Finals, d \in Cancels : m = Append(Lock(h), d)
    BY DEF MinedCancels, Locks
  <2> QED BY <1>1, <1>3, <2>1 DEF HomeOf, Lock, T
<1>8. c \notin CancelsOf(None)
  BY <1>1, <1>3 DEF CancelsOf, Lock, T, None
<1> QED BY <1>3, <1>4, <1>5, <1>6, <1>7, <1>8 DEF MinedCancels

-----------------------------------------------------------------------------
(* The row.  Every write goes from a good row to a good row, whatever row  *)
(* and chain the job read when it chose the write.                         *)

Sales == {Append(l, p) : l \in Locks, p \in Purchases}
Homes == {HomeOf(c) : c \in MinedCancels}

RowSet ==
    [state : States, transfer : BOOLEAN, lock : Locks \cup {None},
     final : Locks \cup {None}, file : Locks \cup {None}, pay : BOOLEAN,
     abort : BOOLEAN, sold : Sales \cup {None}, cancel : MinedCancels \cup {None},
     out : BOOLEAN, cancelDraft : OurCancelPaths \cup {None},
     home : Homes \cup {None}, count : {"null", "left", "0"}]

\* A FINALIZE and its file are those of the lock coin; a listing before its
\* lock, aborted or restored has no FINALIZE; one past its lock has the coin.
GoodRow(r) ==
    /\ r \in RowSet
    /\ r.final # None => r.file = r.final /\ r.lock = r.final
    /\ r.state \in BeforeLock \cup {"aborted", "restored"} => r.final = None
    /\ r.state \in BeforeLock \cup {"aborted"} => r.lock = None
    /\ r.state \in AfterLock => r.lock \in Locks
    /\ r.file # None => r.file = r.lock \/ (r.final = None /\ r.transfer)

Good(r) == r = NoRow \/ GoodRow(r)

\* A write whose guard fails leaves the row: in particular there is a row.
LEMMA MovedGood ==
    ASSUME NEW w, NEW r, Good(r), NEW guard \in BOOLEAN, NEW new,
           GoodRow(r) /\ r.state \in From(w) /\ guard => GoodRow(new),
           "none" \notin From(w)
    PROVE  Good(Moved(w, r, guard, new)) /\ (r = NoRow => Moved(w, r, guard, new) = NoRow)
BY DEF Good, Moved, NoRow

AfterCancel == {"cancelling", "cancelled", "expired"} \cup CancelMinedStates

\* What a write keeps besides: a FINALIZE that may still land, the draft of
\* the Cancel, and, once there was a Cancel, the lock coin it spends.
Keeps(r, n) ==
    /\ Good(n) /\ (r = NoRow => n = NoRow)
    /\ r # NoRow =>
         /\ n # NoRow
         /\ n.final = r.final \/ ~Alive(r.final)
         /\ n.cancelDraft = r.cancelDraft
         /\ r.state \in AfterCancel => n.state \in AfterCancel /\ n.lock = r.lock

\* The writes that take up or let go of the FINALIZE, that sell, that take up
\* or give up a Cancel, keep the rest.
KeepsCancel(r, n) ==
    /\ Good(n) /\ (r = NoRow => n = NoRow)
    /\ r # NoRow =>
         /\ n # NoRow
         /\ n.cancelDraft = r.cancelDraft
         /\ r.state \in AfterCancel => n.state \in AfterCancel /\ n.lock = r.lock

KeepsDrafts(r, n) ==
    /\ Good(n) /\ (r = NoRow => n = NoRow)
    /\ r # NoRow =>
         /\ n # NoRow
         /\ n.final = r.final \/ ~Alive(r.final)
         /\ n.cancelDraft = r.cancelDraft

KeepsFinal(r, n) ==
    /\ Good(n) /\ (r = NoRow => n = NoRow)
    /\ r # NoRow => n # NoRow /\ n.final = r.final

LEMMA NoneIsNoRow == \A r \in RowSet : r # NoRow /\ r.state # "none"
BY DEF RowSet, NoRow, States, BeforeLock, AfterLock, CancelMinedStates

LEMMA KeepsItself ==
    ASSUME NEW r, Good(r)
    PROVE  Keeps(r, r) /\ KeepsCancel(r, r) /\ KeepsDrafts(r, r) /\ KeepsFinal(r, r)
BY DEF Keeps, KeepsCancel, KeepsDrafts, KeepsFinal

\* The writes before the lock coin, and those that end a listing there.
LEMMA WritesBeforeLock ==
    ASSUME NEW r, Good(r)
    PROVE  /\ Keeps(r, Ready(r))
           /\ Keeps(r, LockingAgain(r))
           /\ Keeps(r, Unabort(r))
           /\ \A to \in {"aborted", "expired"} : Keeps(r, EndBeforeLock(r, to))
           /\ \A lock \in Locks : Keeps(r, AdoptElsewhere(r, lock))
           /\ \A lock \in Locks : KeepsCancel(r, Finalize(r, lock))
           /\ KeepsCancel(r, RevertToReady(r))
           /\ Keeps(r, Unadopt(r))
<1>1. Keeps(r, Ready(r))
  <2> DEFINE n == [r EXCEPT !.state = "ready_to_finalize"]
  <2>1. ASSUME r # NoRow, r.state \in From("Ready") PROVE Keeps(r, n)
    <3>1. GoodRow(r) /\ r \in RowSet
      BY <2>1 DEF Good, GoodRow
    <3>2. "ready_to_finalize" \in States
      BY DEF States, AfterLock, BeforeLock, CancelMinedStates
    <3>3. n \in RowSet
      BY <3>1, <3>2 DEF RowSet
    <3>4. /\ n.state = "ready_to_finalize" /\ n.final = r.final /\ n.lock = r.lock
          /\ n.file = r.file /\ n.transfer = r.transfer /\ n.cancelDraft = r.cancelDraft
      BY <3>1 DEF RowSet
    <3> HIDE DEF n
    <3>5. GoodRow(n)
      BY <3>1, <2>1, <3>3, <3>4 DEF GoodRow, From, States, AfterLock, BeforeLock, CancelMinedStates
    <3>6. n # NoRow
      BY <3>3, NoneIsNoRow
    <3>7. r.state \in AfterCancel => n.state \in AfterCancel /\ n.lock = r.lock
      BY <2>1, <3>4 DEF From, AfterCancel, CancelMinedStates, BeforeLock
    <3> QED BY <2>1, <3>4, <3>5, <3>6, <3>7 DEF Keeps, Good
  <2> QED BY <2>1, KeepsItself DEF Ready, Moved, From, NoRow, BeforeLock, CancelMinedStates
<1>2. Keeps(r, LockingAgain(r))
  <2> DEFINE n == [r EXCEPT !.state = "locking"]
  <2>1. ASSUME r # NoRow, r.state \in From("LockingAgain") PROVE Keeps(r, n)
    <3>1. GoodRow(r) /\ r \in RowSet
      BY <2>1 DEF Good, GoodRow
    <3>2. "locking" \in States
      BY DEF States, AfterLock, BeforeLock, CancelMinedStates
    <3>3. n \in RowSet
      BY <3>1, <3>2 DEF RowSet
    <3>4. /\ n.state = "locking" /\ n.final = r.final /\ n.lock = r.lock
          /\ n.file = r.file /\ n.transfer = r.transfer /\ n.cancelDraft = r.cancelDraft
      BY <3>1 DEF RowSet
    <3> HIDE DEF n
    <3>5. GoodRow(n)
      BY <3>1, <2>1, <3>3, <3>4 DEF GoodRow, From, States, AfterLock, BeforeLock, CancelMinedStates
    <3>6. n # NoRow
      BY <3>3, NoneIsNoRow
    <3>7. r.state \in AfterCancel => n.state \in AfterCancel /\ n.lock = r.lock
      BY <2>1, <3>4 DEF From, AfterCancel, CancelMinedStates, BeforeLock
    <3> QED BY <2>1, <3>4, <3>5, <3>6, <3>7 DEF Keeps, Good
  <2> QED BY <2>1, KeepsItself DEF LockingAgain, Moved, From, NoRow, BeforeLock, CancelMinedStates
<1>3. Keeps(r, Unabort(r))
  <2> DEFINE n == [r EXCEPT !.state = "locking"]
  <2>1. ASSUME r # NoRow, r.state \in From("Unabort") PROVE Keeps(r, n)
    <3>1. GoodRow(r) /\ r \in RowSet
      BY <2>1 DEF Good, GoodRow
    <3>2. "locking" \in States
      BY DEF States, AfterLock, BeforeLock, CancelMinedStates
    <3>3. n \in RowSet
      BY <3>1, <3>2 DEF RowSet
    <3>4. /\ n.state = "locking" /\ n.final = r.final /\ n.lock = r.lock
          /\ n.file = r.file /\ n.transfer = r.transfer /\ n.cancelDraft = r.cancelDraft
      BY <3>1 DEF RowSet
    <3> HIDE DEF n
    <3>5. GoodRow(n)
      BY <3>1, <2>1, <3>3, <3>4 DEF GoodRow, From, States, AfterLock, BeforeLock, CancelMinedStates
    <3>6. n # NoRow
      BY <3>3, NoneIsNoRow
    <3>7. r.state \in AfterCancel => n.state \in AfterCancel /\ n.lock = r.lock
      BY <2>1, <3>4 DEF From, AfterCancel, CancelMinedStates, BeforeLock
    <3> QED BY <2>1, <3>4, <3>5, <3>6, <3>7 DEF Keeps, Good
  <2> QED BY <2>1, KeepsItself DEF Unabort, Moved, From, NoRow, BeforeLock, CancelMinedStates
<1>4. ASSUME NEW to \in {"aborted", "expired"} PROVE Keeps(r, EndBeforeLock(r, to))
  <2> DEFINE n == [Dropped(r) EXCEPT !.state = to, !.lock = None]
  <2>1. ASSUME r # NoRow, r.state \in From("EndBeforeLock"), EndsBeforeLock(r) PROVE Keeps(r, n)
    <3>1. GoodRow(r) /\ r \in RowSet
      BY <2>1 DEF Good, GoodRow
    <3>2. to \in States
      BY <1>4 DEF States, AfterLock, BeforeLock, CancelMinedStates
    <3>3. n \in RowSet
      BY <3>1, <3>2, <1>4 DEF RowSet, Dropped
    <3>4. /\ n.state = to /\ n.final = None /\ n.lock = None
          /\ n.file = None /\ n.transfer = r.transfer /\ n.cancelDraft = r.cancelDraft
      BY <3>1 DEF RowSet, Dropped
    <3> HIDE DEF n
    <3>5. GoodRow(n)
      BY <3>1, <2>1, <1>4, <3>3, <3>4 DEF GoodRow, From, States, AfterLock, BeforeLock, CancelMinedStates
    <3>6. n # NoRow
      BY <3>3, NoneIsNoRow
    <3>7. r.state \in AfterCancel => n.state \in AfterCancel /\ n.lock = r.lock
      BY <2>1, <3>4 DEF From, AfterCancel, CancelMinedStates, BeforeLock
    <3>8. n.final = r.final \/ ~Alive(r.final)
      BY <3>1, <2>1, <3>4 DEF GoodRow, From, EndsBeforeLock, BeforeLock
    <3> QED BY <2>1, <3>4, <3>5, <3>6, <3>7, <3>8 DEF Keeps, Good
  <2> QED BY <2>1, KeepsItself DEF EndBeforeLock, Moved, From, NoRow, BeforeLock, CancelMinedStates, Dropped
<1>5. ASSUME NEW lock \in Locks PROVE Keeps(r, AdoptElsewhere(r, lock))
  <2> DEFINE n == [Dropped(r) EXCEPT !.state = "restored", !.lock = lock, !.abort = FALSE]
  <2>1. ASSUME r # NoRow, r.state \in From("EndBeforeLock"), EndsBeforeLock(r) PROVE Keeps(r, n)
    <3>1. GoodRow(r) /\ r \in RowSet
      BY <2>1 DEF Good, GoodRow
    <3>2. "restored" \in States
      BY <1>5 DEF States, AfterLock, BeforeLock, CancelMinedStates
    <3>3. n \in RowSet
      BY <3>1, <3>2, <1>5 DEF RowSet, Dropped
    <3>4. /\ n.state = "restored" /\ n.final = None /\ n.lock = lock
          /\ n.file = None /\ n.transfer = r.transfer /\ n.cancelDraft = r.cancelDraft
      BY <3>1 DEF RowSet, Dropped
    <3> HIDE DEF n
    <3>5. GoodRow(n)
      BY <3>1, <2>1, <1>5, <3>3, <3>4 DEF GoodRow, From, States, AfterLock, BeforeLock, CancelMinedStates
    <3>6. n # NoRow
      BY <3>3, NoneIsNoRow
    <3>7. r.state \in AfterCancel => n.state \in AfterCancel /\ n.lock = r.lock
      BY <2>1, <3>4 DEF From, AfterCancel, CancelMinedStates, BeforeLock
    <3>8. n.final = r.final \/ ~Alive(r.final)
      BY <3>1, <2>1, <3>4 DEF GoodRow, From, EndsBeforeLock, BeforeLock
    <3> QED BY <2>1, <3>4, <3>5, <3>6, <3>7, <3>8 DEF Keeps, Good
  <2> QED BY <2>1, KeepsItself DEF AdoptElsewhere, Moved, From, NoRow, BeforeLock, CancelMinedStates, Dropped
<1>6. ASSUME NEW lock \in Locks PROVE KeepsCancel(r, Finalize(r, lock))
  <2> DEFINE n == [r EXCEPT !.state = "finalizing", !.lock = lock, !.final = lock, !.file = lock]
  <2>1. ASSUME r # NoRow, r.state \in From("Finalize") PROVE KeepsCancel(r, n)
    <3>1. GoodRow(r) /\ r \in RowSet
      BY <2>1 DEF Good, GoodRow
    <3>2. "finalizing" \in States
      BY <1>6, LockPaths DEF States, AfterLock, BeforeLock, CancelMinedStates
    <3>3. n \in RowSet
      BY <3>1, <3>2, <1>6 DEF RowSet
    <3>4. /\ n.state = "finalizing" /\ n.final = lock /\ n.lock = lock
          /\ n.file = lock /\ n.transfer = r.transfer /\ n.cancelDraft = r.cancelDraft
      BY <3>1 DEF RowSet
    <3> HIDE DEF n
    <3>5. GoodRow(n)
      BY <3>1, <2>1, <1>6, LockPaths, <3>3, <3>4 DEF GoodRow, From, States, AfterLock, BeforeLock, CancelMinedStates
    <3>6. n # NoRow
      BY <3>3, NoneIsNoRow
    <3>7. r.state \in AfterCancel => n.state \in AfterCancel /\ n.lock = r.lock
      BY <2>1, <3>4 DEF From, AfterCancel, CancelMinedStates, BeforeLock
    <3> QED BY <2>1, <3>4, <3>5, <3>6, <3>7 DEF KeepsCancel, Good
  <2> QED BY <2>1, KeepsItself DEF Finalize, Moved, From, NoRow, BeforeLock, CancelMinedStates
<1>7. KeepsCancel(r, RevertToReady(r))
  <2> DEFINE n == [Dropped(r) EXCEPT !.state = "ready_to_finalize", !.lock = None]
  <2>1. ASSUME r # NoRow, r.state \in From("RevertToReady") PROVE KeepsCancel(r, n)
    <3>1. GoodRow(r) /\ r \in RowSet
      BY <2>1 DEF Good, GoodRow
    <3>2. "ready_to_finalize" \in States
      BY DEF States, AfterLock, BeforeLock, CancelMinedStates
    <3>3. n \in RowSet
      BY <3>1, <3>2 DEF RowSet, Dropped
    <3>4. /\ n.state = "ready_to_finalize" /\ n.final = None /\ n.lock = None
          /\ n.file = None /\ n.transfer = r.transfer /\ n.cancelDraft = r.cancelDraft
      BY <3>1 DEF RowSet, Dropped
    <3> HIDE DEF n
    <3>5. GoodRow(n)
      BY <3>1, <2>1, <3>3, <3>4 DEF GoodRow, From, States, AfterLock, BeforeLock, CancelMinedStates
    <3>6. n # NoRow
      BY <3>3, NoneIsNoRow
    <3>7. r.state \in AfterCancel => n.state \in AfterCancel /\ n.lock = r.lock
      BY <2>1, <3>4 DEF From, AfterCancel, CancelMinedStates, BeforeLock
    <3> QED BY <2>1, <3>4, <3>5, <3>6, <3>7 DEF KeepsCancel, Good
  <2> QED BY <2>1, KeepsItself DEF RevertToReady, Moved, From, NoRow, BeforeLock, CancelMinedStates, Dropped
<1>8. Keeps(r, Unadopt(r))
  <2> DEFINE n == [r EXCEPT !.state = "locking", !.lock = None]
  <2>1. ASSUME r # NoRow, r.state \in From("Unadopt"), r.transfer PROVE Keeps(r, n)
    <3>1. GoodRow(r) /\ r \in RowSet
      BY <2>1 DEF Good, GoodRow
    <3>2. "locking" \in States
      BY DEF States, AfterLock, BeforeLock, CancelMinedStates
    <3>3. n \in RowSet
      BY <3>1, <3>2 DEF RowSet
    <3>4. /\ n.state = "locking" /\ n.final = r.final /\ n.lock = None
          /\ n.file = r.file /\ n.transfer = r.transfer /\ n.cancelDraft = r.cancelDraft
      BY <3>1 DEF RowSet
    <3> HIDE DEF n
    <3>5. GoodRow(n)
      BY <3>1, <2>1, <3>3, <3>4 DEF GoodRow, From, States, AfterLock, BeforeLock, CancelMinedStates
    <3>6. n # NoRow
      BY <3>3, NoneIsNoRow
    <3>7. r.state \in AfterCancel => n.state \in AfterCancel /\ n.lock = r.lock
      BY <2>1, <3>4 DEF From, AfterCancel, CancelMinedStates, BeforeLock
    <3> QED BY <2>1, <3>4, <3>5, <3>6, <3>7 DEF Keeps, Good
  <2> QED BY <2>1, KeepsItself DEF Unadopt, Moved, From, NoRow, BeforeLock, CancelMinedStates
<1> QED BY <1>1, <1>2, <1>3, <1>4, <1>5, <1>6, <1>7, <1>8

\* The writes of a listing that has its lock coin, up to its sale.
LEMMA WritesPastLock ==
    ASSUME NEW r, Good(r)
    PROVE  /\ Keeps(r, Listed(r))
           /\ Keeps(r, FinalizingAgain(r))
           /\ \A p \in Purchases : \A lock : Keeps(r, SalePending(r, p, lock))
           /\ \A p \in Purchases : \A lock : KeepsDrafts(r, Sell(r, p, lock))
           /\ \A p \in Purchases : \A lock \in Locks : Keeps(r, ProvenLockSale(r, p, lock))
           /\ \A to \in {"sold", "sale_pending"} : \A p \in Purchases : \A lock : Keeps(r, Resell(r, to, p, lock))
           /\ \A to \in {"finalizing", "listed", "restored"} : (r # NoRow /\ to = "restored" => r.final = None) => Keeps(r, Unsell(r, to))
           /\ Keeps(r, ExpireLocked(r))
           /\ \A lock : Keeps(r, Upgrade(r, lock))
<1>1. Keeps(r, Listed(r))
  <2> DEFINE n == [r EXCEPT !.state = "listed"]
  <2>1. ASSUME r # NoRow, r.state \in From("Listed") PROVE Keeps(r, n)
    <3>1. GoodRow(r) /\ r \in RowSet
      BY <2>1 DEF Good, GoodRow
    <3>2. "listed" \in States
      BY DEF States, AfterLock, BeforeLock, CancelMinedStates
    <3>3. n \in RowSet
      BY <3>1, <3>2 DEF RowSet
    <3>4. /\ n.state = "listed" /\ n.final = r.final /\ n.lock = r.lock
          /\ n.file = r.file /\ n.transfer = r.transfer /\ n.cancelDraft = r.cancelDraft
      BY <3>1 DEF RowSet
    <3> HIDE DEF n
    <3>5. GoodRow(n)
      BY <3>1, <2>1, <3>3, <3>4 DEF GoodRow, From, States, AfterLock, BeforeLock, CancelMinedStates
    <3>6. n # NoRow
      BY <3>3, NoneIsNoRow
    <3>7. r.state \in AfterCancel => n.state \in AfterCancel /\ n.lock = r.lock
      BY <2>1, <3>4 DEF From, AfterCancel, CancelMinedStates, BeforeLock
    <3> QED BY <2>1, <3>4, <3>5, <3>6, <3>7 DEF Keeps, Good
  <2> QED BY <2>1, KeepsItself DEF Listed, Moved, From, NoRow, BeforeLock, CancelMinedStates
<1>2. Keeps(r, FinalizingAgain(r))
  <2> DEFINE n == [r EXCEPT !.state = "finalizing"]
  <2>1. ASSUME r # NoRow, r.state \in From("FinalizingAgain") PROVE Keeps(r, n)
    <3>1. GoodRow(r) /\ r \in RowSet
      BY <2>1 DEF Good, GoodRow
    <3>2. "finalizing" \in States
      BY DEF States, AfterLock, BeforeLock, CancelMinedStates
    <3>3. n \in RowSet
      BY <3>1, <3>2 DEF RowSet
    <3>4. /\ n.state = "finalizing" /\ n.final = r.final /\ n.lock = r.lock
          /\ n.file = r.file /\ n.transfer = r.transfer /\ n.cancelDraft = r.cancelDraft
      BY <3>1 DEF RowSet
    <3> HIDE DEF n
    <3>5. GoodRow(n)
      BY <3>1, <2>1, <3>3, <3>4 DEF GoodRow, From, States, AfterLock, BeforeLock, CancelMinedStates
    <3>6. n # NoRow
      BY <3>3, NoneIsNoRow
    <3>7. r.state \in AfterCancel => n.state \in AfterCancel /\ n.lock = r.lock
      BY <2>1, <3>4 DEF From, AfterCancel, CancelMinedStates, BeforeLock
    <3> QED BY <2>1, <3>4, <3>5, <3>6, <3>7 DEF Keeps, Good
  <2> QED BY <2>1, KeepsItself DEF FinalizingAgain, Moved, From, NoRow, BeforeLock, CancelMinedStates
<1>3. ASSUME NEW p \in Purchases, NEW lock PROVE Keeps(r, SalePending(r, p, lock))
  <2> DEFINE n == SaleWrite(r, "sale_pending", Append(lock, p))
  <2>1. ASSUME r # NoRow, r.state \in From("SalePending"), r.lock = lock PROVE Keeps(r, n)
    <3>1. GoodRow(r) /\ r \in RowSet
      BY <2>1 DEF Good, GoodRow
    <3>2. "sale_pending" \in States /\ Append(lock, p) \in Sales
      BY <3>1, <2>1, <1>3 DEF States, AfterLock, BeforeLock, CancelMinedStates, From, GoodRow, Sales, OurCancelPaths, Homes, MinedCancels
    <3>3. n \in RowSet
      BY <3>1, <3>2, <1>3 DEF RowSet, SaleWrite
    <3>4. /\ n.state = "sale_pending" /\ n.final = r.final /\ n.lock = r.lock
          /\ n.file = r.file /\ n.transfer = r.transfer /\ n.cancelDraft = r.cancelDraft
      BY <3>1 DEF RowSet, SaleWrite
    <3> HIDE DEF n
    <3>5. GoodRow(n)
      BY <3>1, <2>1, <1>3, <3>3, <3>4 DEF GoodRow, From, States, AfterLock, BeforeLock, CancelMinedStates
    <3>6. n # NoRow
      BY <3>3, NoneIsNoRow
    <3>7. r.state \in AfterCancel => n.state \in AfterCancel /\ n.lock = r.lock
      BY <2>1, <3>4 DEF From, AfterCancel, CancelMinedStates, BeforeLock
    <3> QED BY <2>1, <3>4, <3>5, <3>6, <3>7 DEF Keeps, Good
  <2> QED BY <2>1, KeepsItself DEF SalePending, Moved, From, NoRow, BeforeLock, CancelMinedStates, SaleWrite
<1>4. ASSUME NEW p \in Purchases, NEW lock PROVE KeepsDrafts(r, Sell(r, p, lock))
  <2> DEFINE n == SaleWrite(r, "sold", Append(lock, p))
  <2>1. ASSUME r # NoRow, r.state \in From("Sell"), r.lock = lock PROVE KeepsDrafts(r, n)
    <3>1. GoodRow(r) /\ r \in RowSet
      BY <2>1 DEF Good, GoodRow
    <3>2. "sold" \in States /\ Append(lock, p) \in Sales
      BY <3>1, <2>1, <1>4 DEF States, AfterLock, BeforeLock, CancelMinedStates, From, GoodRow, Sales, OurCancelPaths, Homes, MinedCancels
    <3>3. n \in RowSet
      BY <3>1, <3>2, <1>4 DEF RowSet, SaleWrite
    <3>4. /\ n.state = "sold" /\ n.final = r.final /\ n.lock = r.lock
          /\ n.file = r.file /\ n.transfer = r.transfer /\ n.cancelDraft = r.cancelDraft
      BY <3>1 DEF RowSet, SaleWrite
    <3> HIDE DEF n
    <3>5. GoodRow(n)
      BY <3>1, <2>1, <1>4, <3>3, <3>4 DEF GoodRow, From, States, AfterLock, BeforeLock, CancelMinedStates
    <3>6. n # NoRow
      BY <3>3, NoneIsNoRow
    <3> QED BY <2>1, <3>4, <3>5, <3>6 DEF KeepsDrafts, Good
  <2> QED BY <2>1, KeepsItself DEF Sell, Moved, From, NoRow, BeforeLock, CancelMinedStates, SaleWrite
<1>5. ASSUME NEW p \in Purchases, NEW lock \in Locks PROVE Keeps(r, ProvenLockSale(r, p, lock))
  <2> DEFINE n == [r EXCEPT !.state = "sold", !.sold = Append(lock, p), !.lock = lock]
  <2>1. ASSUME r # NoRow, r.state \in From("ProvenLockSale"), r.lock = None PROVE Keeps(r, n)
    <3>1. GoodRow(r) /\ r \in RowSet
      BY <2>1 DEF Good, GoodRow
    <3>2. "sold" \in States /\ Append(lock, p) \in Sales
      BY <3>1, <2>1, <1>5 DEF States, AfterLock, BeforeLock, CancelMinedStates, From, GoodRow, Sales, OurCancelPaths, Homes, MinedCancels
    <3>3. n \in RowSet
      BY <3>1, <3>2, <1>5 DEF RowSet
    <3>4. /\ n.state = "sold" /\ n.final = r.final /\ n.lock = lock
          /\ n.file = r.file /\ n.transfer = r.transfer /\ n.cancelDraft = r.cancelDraft
      BY <3>1 DEF RowSet
    <3> HIDE DEF n
    <3>5. GoodRow(n)
      BY <3>1, <2>1, <1>5, <3>3, <3>4 DEF GoodRow, From, States, AfterLock, BeforeLock, CancelMinedStates
    <3>6. n # NoRow
      BY <3>3, NoneIsNoRow
    <3>7. r.state \in AfterCancel => n.state \in AfterCancel /\ n.lock = r.lock
      BY <2>1, <3>4 DEF From, AfterCancel, CancelMinedStates, BeforeLock
    <3> QED BY <2>1, <3>4, <3>5, <3>6, <3>7 DEF Keeps, Good
  <2> QED BY <2>1, KeepsItself DEF ProvenLockSale, Moved, From, NoRow, BeforeLock, CancelMinedStates
<1>6. ASSUME NEW to \in {"sold", "sale_pending"}, NEW p \in Purchases, NEW lock PROVE Keeps(r, Resell(r, to, p, lock))
  <2> DEFINE n == [r EXCEPT !.state = to, !.sold = Append(lock, p)]
  <2>1. ASSUME r # NoRow, r.state \in From("Resell"), r.lock = lock PROVE Keeps(r, n)
    <3>1. GoodRow(r) /\ r \in RowSet
      BY <2>1 DEF Good, GoodRow
    <3>2. to \in States /\ Append(lock, p) \in Sales
      BY <3>1, <2>1, <1>6 DEF States, AfterLock, BeforeLock, CancelMinedStates, From, GoodRow, Sales, OurCancelPaths, Homes, MinedCancels
    <3>3. n \in RowSet
      BY <3>1, <3>2, <1>6 DEF RowSet
    <3>4. /\ n.state = to /\ n.final = r.final /\ n.lock = r.lock
          /\ n.file = r.file /\ n.transfer = r.transfer /\ n.cancelDraft = r.cancelDraft
      BY <3>1 DEF RowSet
    <3> HIDE DEF n
    <3>5. GoodRow(n)
      BY <3>1, <2>1, <1>6, <3>3, <3>4 DEF GoodRow, From, States, AfterLock, BeforeLock, CancelMinedStates
    <3>6. n # NoRow
      BY <3>3, NoneIsNoRow
    <3>7. r.state \in AfterCancel => n.state \in AfterCancel /\ n.lock = r.lock
      BY <2>1, <3>4 DEF From, AfterCancel, CancelMinedStates, BeforeLock
    <3> QED BY <2>1, <3>4, <3>5, <3>6, <3>7 DEF Keeps, Good
  <2> QED BY <2>1, KeepsItself DEF Resell, Moved, From, NoRow, BeforeLock, CancelMinedStates
<1>7. ASSUME NEW to \in {"finalizing", "listed", "restored"}, (r # NoRow /\ to = "restored" => r.final = None) PROVE Keeps(r, Unsell(r, to))
  <2> DEFINE n == [r EXCEPT !.state = to, !.sold = None]
  <2>1. ASSUME r # NoRow, r.state \in From("Unsell"), (to = "listed" => r.file # None) PROVE Keeps(r, n)
    <3>1. GoodRow(r) /\ r \in RowSet
      BY <2>1 DEF Good, GoodRow
    <3>2. to \in States
      BY <1>7 DEF States, AfterLock, BeforeLock, CancelMinedStates
    <3>3. n \in RowSet
      BY <3>1, <3>2, <1>7 DEF RowSet
    <3>4. /\ n.state = to /\ n.final = r.final /\ n.lock = r.lock
          /\ n.file = r.file /\ n.transfer = r.transfer /\ n.cancelDraft = r.cancelDraft
      BY <3>1 DEF RowSet
    <3> HIDE DEF n
    <3>5. GoodRow(n)
      BY <3>1, <2>1, <1>7, <3>3, <3>4 DEF GoodRow, From, States, AfterLock, BeforeLock, CancelMinedStates
    <3>6. n # NoRow
      BY <3>3, NoneIsNoRow
    <3>7. r.state \in AfterCancel => n.state \in AfterCancel /\ n.lock = r.lock
      BY <2>1, <3>4 DEF From, AfterCancel, CancelMinedStates, BeforeLock
    <3> QED BY <2>1, <3>4, <3>5, <3>6, <3>7 DEF Keeps, Good
  <2> QED BY <2>1, KeepsItself DEF Unsell, Moved, From, NoRow, BeforeLock, CancelMinedStates
<1>8. Keeps(r, ExpireLocked(r))
  <2> DEFINE n == [r EXCEPT !.state = "expired"]
  <2>1. ASSUME r # NoRow, r.state \in From("ExpireLocked") PROVE Keeps(r, n)
    <3>1. GoodRow(r) /\ r \in RowSet
      BY <2>1 DEF Good, GoodRow
    <3>2. "expired" \in States
      BY DEF States, AfterLock, BeforeLock, CancelMinedStates
    <3>3. n \in RowSet
      BY <3>1, <3>2 DEF RowSet
    <3>4. /\ n.state = "expired" /\ n.final = r.final /\ n.lock = r.lock
          /\ n.file = r.file /\ n.transfer = r.transfer /\ n.cancelDraft = r.cancelDraft
      BY <3>1 DEF RowSet
    <3> HIDE DEF n
    <3>5. GoodRow(n)
      BY <3>1, <2>1, <3>3, <3>4 DEF GoodRow, From, States, AfterLock, BeforeLock, CancelMinedStates
    <3>6. n # NoRow
      BY <3>3, NoneIsNoRow
    <3>7. r.state \in AfterCancel => n.state \in AfterCancel /\ n.lock = r.lock
      BY <2>1, <3>4 DEF From, AfterCancel, CancelMinedStates, BeforeLock
    <3> QED BY <2>1, <3>4, <3>5, <3>6, <3>7 DEF Keeps, Good
  <2> QED BY <2>1, KeepsItself DEF ExpireLocked, Moved, From, NoRow, BeforeLock, CancelMinedStates
<1>9. ASSUME NEW lock PROVE Keeps(r, Upgrade(r, lock))
  <2> DEFINE n == [r EXCEPT !.state = "listed", !.pay = TRUE, !.file = lock]
  <2>1. ASSUME r # NoRow, r.state \in From("Upgrade"), r.lock = lock PROVE Keeps(r, n)
    <3>1. GoodRow(r) /\ r \in RowSet
      BY <2>1 DEF Good, GoodRow
    <3>2. "listed" \in States /\ lock \in Locks
      BY <3>1, <2>1, <1>9 DEF States, AfterLock, BeforeLock, CancelMinedStates, From, GoodRow, Sales, OurCancelPaths, Homes, MinedCancels
    <3>3. n \in RowSet
      BY <3>1, <3>2, <1>9 DEF RowSet
    <3>4. /\ n.state = "listed" /\ n.final = r.final /\ n.lock = r.lock
          /\ n.file = lock /\ n.transfer = r.transfer /\ n.cancelDraft = r.cancelDraft
      BY <3>1 DEF RowSet
    <3> HIDE DEF n
    <3>5. GoodRow(n)
      BY <3>1, <2>1, <1>9, <3>3, <3>4 DEF GoodRow, From, States, AfterLock, BeforeLock, CancelMinedStates
    <3>6. n # NoRow
      BY <3>3, NoneIsNoRow
    <3>7. r.state \in AfterCancel => n.state \in AfterCancel /\ n.lock = r.lock
      BY <2>1, <3>4 DEF From, AfterCancel, CancelMinedStates, BeforeLock
    <3> QED BY <2>1, <3>4, <3>5, <3>6, <3>7 DEF Keeps, Good
  <2> QED BY <2>1, KeepsItself DEF Upgrade, Moved, From, NoRow, BeforeLock, CancelMinedStates
<1> QED BY <1>1, <1>2, <1>3, <1>4, <1>5, <1>6, <1>7, <1>8, <1>9

\* The writes of a Cancel and of its FINALIZE home.
LEMMA WritesOfCancel ==
    ASSUME NEW r, Good(r)
    PROVE  /\ \A c \in OurCancelPaths : \A lock : KeepsFinal(r, Cancel(r, c, lock))
           /\ \A to \in {"listed", "restored"} : (r # NoRow /\ to = "restored" => r.final = None) => KeepsFinal(r, Uncancel(r, to))
           /\ \A c \in MinedCancels : \A lock : Keeps(r, CancelMined(r, c, lock))
           /\ \A c : Keeps(r, CancelUnmined(r, c))
           /\ \A c : Keeps(r, CancelledUnmined(r, c))
           /\ \A c \in MinedCancels : Keeps(r, FinalizeCancel(r, c))
           /\ \A h : Keeps(r, RevertCancelFinalize(r, h))
           /\ \A c : Keeps(r, CancelDone(r, c))
           /\ \A c : Keeps(r, CancelUndone(r, c))
<1>1. ASSUME NEW c \in OurCancelPaths, NEW lock PROVE KeepsFinal(r, Cancel(r, c, lock))
  <2> DEFINE n == [r EXCEPT !.state = "cancelling", !.cancel = c, !.out = FALSE, !.cancelDraft = c]
  <2>1. ASSUME r # NoRow, r.state \in From("Cancel"), r.lock = lock PROVE KeepsFinal(r, n)
    <3>1. GoodRow(r) /\ r \in RowSet
      BY <2>1 DEF Good, GoodRow
    <3>2. "cancelling" \in States /\ c \in MinedCancels
      BY <1>1, CancelsApart DEF OurCancelPaths, States, AfterLock, BeforeLock, CancelMinedStates, From, GoodRow, Sales, OurCancelPaths, Homes, MinedCancels
    <3>3. n \in RowSet
      BY <3>1, <3>2, <1>1 DEF RowSet
    <3>4. /\ n.state = "cancelling" /\ n.final = r.final /\ n.lock = r.lock
          /\ n.file = r.file /\ n.transfer = r.transfer /\ n.cancelDraft = c
      BY <3>1 DEF RowSet
    <3> HIDE DEF n
    <3>5. GoodRow(n)
      BY <3>1, <2>1, <1>1, <3>3, <3>4 DEF GoodRow, From, States, AfterLock, BeforeLock, CancelMinedStates
    <3>6. n # NoRow
      BY <3>3, NoneIsNoRow
    <3> QED BY <2>1, <3>4, <3>5, <3>6 DEF KeepsFinal, Good
  <2> QED BY <2>1, KeepsItself DEF Cancel, Moved, From, NoRow, BeforeLock, CancelMinedStates
<1>2. ASSUME NEW to \in {"listed", "restored"}, (r # NoRow /\ to = "restored" => r.final = None) PROVE KeepsFinal(r, Uncancel(r, to))
  <2> DEFINE n == [r EXCEPT !.state = to, !.cancelDraft = None, !.cancel = None, !.out = FALSE, !.count = "null"]
  <2>1. ASSUME r # NoRow, r.state \in From("Uncancel"), (to = "listed" => r.file # None) PROVE KeepsFinal(r, n)
    <3>1. GoodRow(r) /\ r \in RowSet
      BY <2>1 DEF Good, GoodRow
    <3>2. to \in States
      BY <1>2 DEF States, AfterLock, BeforeLock, CancelMinedStates
    <3>3. n \in RowSet
      BY <3>1, <3>2, <1>2 DEF RowSet
    <3>4. /\ n.state = to /\ n.final = r.final /\ n.lock = r.lock
          /\ n.file = r.file /\ n.transfer = r.transfer /\ n.cancelDraft = None
      BY <3>1 DEF RowSet
    <3> HIDE DEF n
    <3>5. GoodRow(n)
      BY <3>1, <2>1, <1>2, <3>3, <3>4 DEF GoodRow, From, States, AfterLock, BeforeLock, CancelMinedStates
    <3>6. n # NoRow
      BY <3>3, NoneIsNoRow
    <3> QED BY <2>1, <3>4, <3>5, <3>6 DEF KeepsFinal, Good
  <2> QED BY <2>1, KeepsItself DEF Uncancel, Moved, From, NoRow, BeforeLock, CancelMinedStates
<1>3. ASSUME NEW c \in MinedCancels, NEW lock PROVE Keeps(r, CancelMined(r, c, lock))
  <2> DEFINE n == [r EXCEPT !.state = "cancel_awaiting_finalize", !.cancel = c, !.out = TRUE, !.count = "null", !.home = None, !.sold = None]
  <2>1. ASSUME r # NoRow, r.state \in From("CancelMined"), r.lock = lock PROVE Keeps(r, n)
    <3>1. GoodRow(r) /\ r \in RowSet
      BY <2>1 DEF Good, GoodRow
    <3>2. "cancel_awaiting_finalize" \in States
      BY <1>3 DEF States, AfterLock, BeforeLock, CancelMinedStates
    <3>3. n \in RowSet
      BY <3>1, <3>2, <1>3 DEF RowSet
    <3>4. /\ n.state = "cancel_awaiting_finalize" /\ n.final = r.final /\ n.lock = r.lock
          /\ n.file = r.file /\ n.transfer = r.transfer /\ n.cancelDraft = r.cancelDraft
      BY <3>1 DEF RowSet
    <3> HIDE DEF n
    <3>5. GoodRow(n)
      BY <3>1, <2>1, <1>3, <3>3, <3>4 DEF GoodRow, From, States, AfterLock, BeforeLock, CancelMinedStates
    <3>6. n # NoRow
      BY <3>3, NoneIsNoRow
    <3>7. r.state \in AfterCancel => n.state \in AfterCancel /\ n.lock = r.lock
      BY <2>1, <3>4 DEF From, AfterCancel, CancelMinedStates, BeforeLock
    <3> QED BY <2>1, <3>4, <3>5, <3>6, <3>7 DEF Keeps, Good
  <2> QED BY <2>1, KeepsItself DEF CancelMined, Moved, From, NoRow, BeforeLock, CancelMinedStates
<1>4. ASSUME NEW c PROVE Keeps(r, CancelUnmined(r, c))
  <2> DEFINE n == Unmined(r)
  <2>1. ASSUME r # NoRow, r.state \in From("CancelUnmined"), r.cancel = c PROVE Keeps(r, n)
    <3>1. GoodRow(r) /\ r \in RowSet
      BY <2>1 DEF Good, GoodRow
    <3>2. "cancelling" \in States
      BY <1>4 DEF States, AfterLock, BeforeLock, CancelMinedStates
    <3>3. n \in RowSet
      BY <3>1, <3>2, <1>4 DEF RowSet, Unmined
    <3>4. /\ n.state = "cancelling" /\ n.final = r.final /\ n.lock = r.lock
          /\ n.file = r.file /\ n.transfer = r.transfer /\ n.cancelDraft = r.cancelDraft
      BY <3>1 DEF RowSet, Unmined
    <3> HIDE DEF n
    <3>5. GoodRow(n)
      BY <3>1, <2>1, <1>4, <3>3, <3>4 DEF GoodRow, From, States, AfterLock, BeforeLock, CancelMinedStates
    <3>6. n # NoRow
      BY <3>3, NoneIsNoRow
    <3>7. r.state \in AfterCancel => n.state \in AfterCancel /\ n.lock = r.lock
      BY <2>1, <3>4 DEF From, AfterCancel, CancelMinedStates, BeforeLock
    <3> QED BY <2>1, <3>4, <3>5, <3>6, <3>7 DEF Keeps, Good
  <2> QED BY <2>1, KeepsItself DEF CancelUnmined, Moved, From, NoRow, BeforeLock, CancelMinedStates, Unmined
<1>5. ASSUME NEW c PROVE Keeps(r, CancelledUnmined(r, c))
  <2> DEFINE n == Unmined(r)
  <2>1. ASSUME r # NoRow, r.state \in From("CancelledUnmined"), r.cancel = c PROVE Keeps(r, n)
    <3>1. GoodRow(r) /\ r \in RowSet
      BY <2>1 DEF Good, GoodRow
    <3>2. "cancelling" \in States
      BY <1>5 DEF States, AfterLock, BeforeLock, CancelMinedStates
    <3>3. n \in RowSet
      BY <3>1, <3>2, <1>5 DEF RowSet, Unmined
    <3>4. /\ n.state = "cancelling" /\ n.final = r.final /\ n.lock = r.lock
          /\ n.file = r.file /\ n.transfer = r.transfer /\ n.cancelDraft = r.cancelDraft
      BY <3>1 DEF RowSet, Unmined
    <3> HIDE DEF n
    <3>5. GoodRow(n)
      BY <3>1, <2>1, <1>5, <3>3, <3>4 DEF GoodRow, From, States, AfterLock, BeforeLock, CancelMinedStates
    <3>6. n # NoRow
      BY <3>3, NoneIsNoRow
    <3>7. r.state \in AfterCancel => n.state \in AfterCancel /\ n.lock = r.lock
      BY <2>1, <3>4 DEF From, AfterCancel, CancelMinedStates, BeforeLock
    <3> QED BY <2>1, <3>4, <3>5, <3>6, <3>7 DEF Keeps, Good
  <2> QED BY <2>1, KeepsItself DEF CancelledUnmined, Moved, From, NoRow, BeforeLock, CancelMinedStates, Unmined
<1>6. ASSUME NEW c \in MinedCancels PROVE Keeps(r, FinalizeCancel(r, c))
  <2> DEFINE n == [r EXCEPT !.state = "cancel_finalizing", !.home = HomeOf(c)]
  <2>1. ASSUME r # NoRow, r.state \in From("FinalizeCancel"), r.cancel = c /\ r.out PROVE Keeps(r, n)
    <3>1. GoodRow(r) /\ r \in RowSet
      BY <2>1 DEF Good, GoodRow
    <3>2. "cancel_finalizing" \in States /\ HomeOf(c) \in Homes
      BY <3>1, <2>1, <1>6 DEF States, AfterLock, BeforeLock, CancelMinedStates, From, GoodRow, Sales, OurCancelPaths, Homes, MinedCancels
    <3>3. n \in RowSet
      BY <3>1, <3>2, <1>6 DEF RowSet
    <3>4. /\ n.state = "cancel_finalizing" /\ n.final = r.final /\ n.lock = r.lock
          /\ n.file = r.file /\ n.transfer = r.transfer /\ n.cancelDraft = r.cancelDraft
      BY <3>1 DEF RowSet
    <3> HIDE DEF n
    <3>5. GoodRow(n)
      BY <3>1, <2>1, <1>6, <3>3, <3>4 DEF GoodRow, From, States, AfterLock, BeforeLock, CancelMinedStates
    <3>6. n # NoRow
      BY <3>3, NoneIsNoRow
    <3>7. r.state \in AfterCancel => n.state \in AfterCancel /\ n.lock = r.lock
      BY <2>1, <3>4 DEF From, AfterCancel, CancelMinedStates, BeforeLock
    <3> QED BY <2>1, <3>4, <3>5, <3>6, <3>7 DEF Keeps, Good
  <2> QED BY <2>1, KeepsItself DEF FinalizeCancel, Moved, From, NoRow, BeforeLock, CancelMinedStates
<1>7. ASSUME NEW h PROVE Keeps(r, RevertCancelFinalize(r, h))
  <2> DEFINE n == [r EXCEPT !.state = "cancel_awaiting_finalize", !.home = None]
  <2>1. ASSUME r # NoRow, r.state \in From("RevertCancelFinalize"), r.home = h PROVE Keeps(r, n)
    <3>1. GoodRow(r) /\ r \in RowSet
      BY <2>1 DEF Good, GoodRow
    <3>2. "cancel_awaiting_finalize" \in States
      BY <1>7 DEF States, AfterLock, BeforeLock, CancelMinedStates
    <3>3. n \in RowSet
      BY <3>1, <3>2, <1>7 DEF RowSet
    <3>4. /\ n.state = "cancel_awaiting_finalize" /\ n.final = r.final /\ n.lock = r.lock
          /\ n.file = r.file /\ n.transfer = r.transfer /\ n.cancelDraft = r.cancelDraft
      BY <3>1 DEF RowSet
    <3> HIDE DEF n
    <3>5. GoodRow(n)
      BY <3>1, <2>1, <1>7, <3>3, <3>4 DEF GoodRow, From, States, AfterLock, BeforeLock, CancelMinedStates
    <3>6. n # NoRow
      BY <3>3, NoneIsNoRow
    <3>7. r.state \in AfterCancel => n.state \in AfterCancel /\ n.lock = r.lock
      BY <2>1, <3>4 DEF From, AfterCancel, CancelMinedStates, BeforeLock
    <3> QED BY <2>1, <3>4, <3>5, <3>6, <3>7 DEF Keeps, Good
  <2> QED BY <2>1, KeepsItself DEF RevertCancelFinalize, Moved, From, NoRow, BeforeLock, CancelMinedStates
<1>8. ASSUME NEW c PROVE Keeps(r, CancelDone(r, c))
  <2> DEFINE n == [r EXCEPT !.state = "cancelled", !.count = "null"]
  <2>1. ASSUME r # NoRow, r.state \in From("CancelDone"), r.cancel = c /\ r.out PROVE Keeps(r, n)
    <3>1. GoodRow(r) /\ r \in RowSet
      BY <2>1 DEF Good, GoodRow
    <3>2. "cancelled" \in States
      BY <1>8 DEF States, AfterLock, BeforeLock, CancelMinedStates
    <3>3. n \in RowSet
      BY <3>1, <3>2, <1>8 DEF RowSet
    <3>4. /\ n.state = "cancelled" /\ n.final = r.final /\ n.lock = r.lock
          /\ n.file = r.file /\ n.transfer = r.transfer /\ n.cancelDraft = r.cancelDraft
      BY <3>1 DEF RowSet
    <3> HIDE DEF n
    <3>5. GoodRow(n)
      BY <3>1, <2>1, <1>8, <3>3, <3>4 DEF GoodRow, From, States, AfterLock, BeforeLock, CancelMinedStates
    <3>6. n # NoRow
      BY <3>3, NoneIsNoRow
    <3>7. r.state \in AfterCancel => n.state \in AfterCancel /\ n.lock = r.lock
      BY <2>1, <3>4 DEF From, AfterCancel, CancelMinedStates, BeforeLock
    <3> QED BY <2>1, <3>4, <3>5, <3>6, <3>7 DEF Keeps, Good
  <2> QED BY <2>1, KeepsItself DEF CancelDone, Moved, From, NoRow, BeforeLock, CancelMinedStates
<1>9. ASSUME NEW c PROVE Keeps(r, CancelUndone(r, c))
  <2> DEFINE n == [r EXCEPT !.state = "cancel_awaiting_finalize", !.count = "null", !.home = None]
  <2>1. ASSUME r # NoRow, r.state \in From("CancelUndone"), r.cancel = c /\ r.out PROVE Keeps(r, n)
    <3>1. GoodRow(r) /\ r \in RowSet
      BY <2>1 DEF Good, GoodRow
    <3>2. "cancel_awaiting_finalize" \in States
      BY <1>9 DEF States, AfterLock, BeforeLock, CancelMinedStates
    <3>3. n \in RowSet
      BY <3>1, <3>2, <1>9 DEF RowSet
    <3>4. /\ n.state = "cancel_awaiting_finalize" /\ n.final = r.final /\ n.lock = r.lock
          /\ n.file = r.file /\ n.transfer = r.transfer /\ n.cancelDraft = r.cancelDraft
      BY <3>1 DEF RowSet
    <3> HIDE DEF n
    <3>5. GoodRow(n)
      BY <3>1, <2>1, <1>9, <3>3, <3>4 DEF GoodRow, From, States, AfterLock, BeforeLock, CancelMinedStates
    <3>6. n # NoRow
      BY <3>3, NoneIsNoRow
    <3>7. r.state \in AfterCancel => n.state \in AfterCancel /\ n.lock = r.lock
      BY <2>1, <3>4 DEF From, AfterCancel, CancelMinedStates, BeforeLock
    <3> QED BY <2>1, <3>4, <3>5, <3>6, <3>7 DEF Keeps, Good
  <2> QED BY <2>1, KeepsItself DEF CancelUndone, Moved, From, NoRow, BeforeLock, CancelMinedStates
<1> QED BY <1>1, <1>2, <1>3, <1>4, <1>5, <1>6, <1>7, <1>8, <1>9

-----------------------------------------------------------------------------
(* The drafts, and what a write of the job may do with them and the row.   *)

DraftsOK(ds) == ds \in [OurPaths -> DraftStatuses]

\* The job calls drafts dead; it brings none to life.
OnlyDies(ds, later) ==
    DraftsOK(later) /\ \A d \in OurPaths : later[d] \in {ds[d], "dead"}

\* A Cancel the listing has got past, by a sale or a reorg of its lock coin,
\* is no more unsent: whoever sold the name released it.
Passed(r, ds) ==
    (/\ r # NoRow /\ r.cancelDraft # None
     /\ r.state \notin AfterCancel \/ r.cancelDraft \notin CancelsOf(r.lock))
        => ds[r.cancelDraft] # "unsent"

Handled(l) ==
    /\ Good(row') /\ (row = NoRow <=> row' = NoRow)
    /\ row # NoRow =>
         /\ row'.final = row.final \/ ~Alive(row.final) \/ l.final \notin {None, row.final}
         /\ \/ row'.cancelDraft = row.cancelDraft \/ ~Alive(row.cancelDraft)
            \/ l.cancelDraft \notin {None, row.cancelDraft} /\ drafts[l.cancelDraft] = "deleted"
    /\ OnlyDies(drafts, drafts')
    /\ Passed(row', drafts')

\* The row and the drafts the job finds when it writes.
Found == Good(row) /\ DraftsOK(drafts) /\ Passed(row, drafts)

LEMMA CancelsAreOurs ==
    /\ OurCancelPaths \subseteq OurPaths /\ Homes \subseteq OurPaths
    /\ None \notin OurPaths /\ T \in OurPaths /\ A \in OurPaths
    /\ \A f \in Ours : Lock(f) \in OurPaths
<1>1. None \notin {Lock(f) : f \in Ours} \cup OurCancelPaths
  BY LockPaths, ListingAssumption DEF OurCancelPaths, Locks
<1>2. None \notin Homes
  <2>1. ASSUME NEW c \in MinedCancels PROVE HomeOf(c) # None
    <3>1. PICK f \in Finals, k \in Cancels : c = Append(Lock(f), k)
      BY DEF MinedCancels, Locks
    <3> QED BY <3>1 DEF HomeOf, Lock, T, None
  <2> QED BY <2>1 DEF Homes
<1>3. None # T /\ None # A
  BY DEF None, T, A
<1> QED BY <1>1, <1>2, <1>3 DEF OurPaths, OurCancelPaths, Homes

LEMMA PassedKept ==
    ASSUME NEW r, NEW n, Good(r), Keeps(r, n) \/ KeepsCancel(r, n),
           NEW ds, NEW later, DraftsOK(ds), OnlyDies(ds, later), Passed(r, ds)
    PROVE  Passed(n, later)
<1> SUFFICES ASSUME n # NoRow, n.cancelDraft # None,
                    n.state \notin AfterCancel \/ n.cancelDraft \notin CancelsOf(n.lock)
             PROVE  later[n.cancelDraft] # "unsent"
  BY DEF Passed
<1>1. r # NoRow /\ n.cancelDraft = r.cancelDraft
  BY DEF Keeps, KeepsCancel
<1>2. r.state \notin AfterCancel \/ r.cancelDraft \notin CancelsOf(r.lock)
  BY <1>1 DEF Keeps, KeepsCancel
<1>3. ds[r.cancelDraft] # "unsent"
  BY <1>1, <1>2 DEF Passed
<1>4. r.cancelDraft \in OurPaths
  BY <1>1, CancelsAreOurs DEF Good, GoodRow, RowSet
<1> QED BY <1>1, <1>3, <1>4 DEF OnlyDies

LEMMA JobWrites ==
    ASSUME NEW l, NEW n, Found, Keeps(row, n), Write(n, drafts)
    PROVE  Handled(l)
<1>1. OnlyDies(drafts, drafts')
  BY DEF OnlyDies, Found, Write
<1>2. Passed(row', drafts')
  BY <1>1, PassedKept DEF Found, Write
<1> QED BY <1>1, <1>2 DEF Handled, Keeps, Write

LEMMA JobLeaves ==
    ASSUME NEW l, Found, Leave
    PROVE  Handled(l)
<1>1. Keeps(row, row)
  BY KeepsItself DEF Found
<1> QED BY <1>1, JobWrites DEF Leave, Write

\* A Cancel the job gives up is dead, or the one it read was discarded.
GivesUp(l) ==
    \/ ~Alive(row.cancelDraft)
    \/ l.cancelDraft \notin {None, row.cancelDraft} /\ drafts[l.cancelDraft] = "deleted"

LEMMA JobUncancels ==
    ASSUME NEW l, NEW n, Found, Good(n), row # NoRow, n # NoRow, GivesUp(l),
           n.cancelDraft = None, n.final = row.final, Write(n, drafts)
    PROVE  Handled(l)
BY DEF Found, Handled, Write, Passed, OnlyDies, GivesUp

-----------------------------------------------------------------------------
(* What the job reads of the chain.                                        *)

LEMMA SaleFound ==
    ASSUME NEW lock
    PROVE  /\ FindSale(lock).seen # "none" => FindSale(lock).by \in Purchases
           /\ MinedPurchase(lock) # {} => FindSale(lock).by \in Purchases
           /\ SaleOfRestoredLock(lock) \subseteq Purchases
           /\ SaleOfRestoredLock(lock) # {} =>
                (CHOOSE p \in SaleOfRestoredLock(lock) : TRUE) \in Purchases
<1>1. MinedPurchase(lock) \subseteq Purchases
  BY DEF MinedPurchase
<1>2. MinedPurchase(lock) # {} => (CHOOSE p \in MinedPurchase(lock) : TRUE) \in Purchases
  BY <1>1
<1>3. (\E p \in Purchases : Seen(Append(lock, p)))
        => (CHOOSE p \in Purchases : Seen(Append(lock, p))) \in Purchases
  OBVIOUS
<1>4. FindSale(lock).seen # "none" => FindSale(lock).by \in Purchases
  BY <1>2, <1>3 DEF FindSale
<1>5. MinedPurchase(lock) # {} => FindSale(lock).by \in Purchases
  BY <1>2 DEF FindSale
<1>6. SaleOfRestoredLock(lock) \subseteq Purchases
  BY DEF SaleOfRestoredLock
<1> QED BY <1>4, <1>5, <1>6

LEMMA CancelFound ==
    ASSUME NEW lock \in Locks
    PROVE  CancelOfLock(lock) \in MinedCancels \cup {None}
<1> DEFINE found == {c \in {Append(lock, k) : k \in Cancels} :
                       \/ mined = c
                       \/ mined = HomeOf(c) /\ TxIndex}
<1>1. found \subseteq MinedCancels
  BY DEF MinedCancels
<1>2. found # {} => (CHOOSE c \in found : TRUE) \in MinedCancels
  BY <1>1
<1> HIDE DEF found
<1>3. CancelOfLock(lock) = IF Coin(mined) = "mined" /\ found # {}
                           THEN CHOOSE c \in found : TRUE ELSE None
  BY DEF CancelOfLock, found
<1> QED BY <1>2, <1>3

-----------------------------------------------------------------------------
(* The verdicts of the job, from what it read of the listing before.       *)

\* What the seller's commands, and only they, may have made of the row since
\* the job read l: they do not touch its lock coin once there is one, nor a
\* Cancel in more than one way.
SinceRead(l) ==
    /\ l.state \in AfterLock \ {"finalizing"} =>
         /\ row # NoRow /\ row.state \in AfterLock \ {"finalizing"}
         /\ row.final = l.final /\ row.lock = l.lock
    /\ l.state = "finalizing" =>
         /\ row # NoRow /\ row.state \in {"finalizing", "ready_to_finalize"}
         /\ l.final = None => row.final = None /\ row.state = "finalizing"
    /\ l.state = "cancelling" =>
         \/ row.state = "cancelling" /\ row.cancelDraft = l.cancelDraft
         \/ /\ l.cancelDraft \in OurPaths /\ drafts[l.cancelDraft] = "deleted"
            /\ row.state \in {"listed", "restored", "cancelling"}

LEMMA SoldHandled ==
    ASSUME NEW l, NEW p \in Purchases, NEW lock, NEW stale \in BOOLEAN, Found,
           SellReleasing(p, lock, stale)
    PROVE  Handled(l)
<1> DEFINE r == Sell(row, p, lock)
<1>1. KeepsDrafts(row, r)
  BY WritesPastLock DEF Found
<1>2. row' = r /\ drafts' = IF r # row THEN Released(r, Append(lock, p), stale) ELSE drafts
  BY DEF SellReleasing, Write
<1>3. CASE r = row
  BY <1>2, <1>3, JobLeaves DEF Leave
<1>4. CASE r # row
  <2>1. row # NoRow /\ row.state \in From("Sell") /\ row.lock = lock /\ r = SaleWrite(row, "sold", Append(lock, p))
    BY <1>4, NoneIsNoRow DEF Sell, Moved, Found, Good, From, NoRow, CancelMinedStates
  <2>2. GoodRow(row) /\ row \in RowSet
    BY <2>1 DEF Found, Good, GoodRow
  <2>3. r.state = "sold" /\ r.cancelDraft = row.cancelDraft
    BY <2>1, <2>2 DEF SaleWrite, RowSet
  <2>4. lock \in Locks
    BY <2>1, <2>2 DEF GoodRow, From, AfterLock, CancelMinedStates
  <2> HIDE DEF r
  <2> DEFINE d == r.cancelDraft
  <2>5. d # None => d \in OurPaths /\ d # Append(lock, p)
    BY <2>2, <2>3, <2>4, CancelsAreOurs, CancelsApart DEF RowSet, OurCancelPaths
  <2>6. drafts' = IF d # None /\ drafts[d] # "deleted" /\ (drafts[d] = "confirmed" => stale)
                  THEN [drafts EXCEPT ![d] = "dead"] ELSE drafts
    BY <1>2, <1>4, <2>3, <2>5 DEF Released
  <2>7. OnlyDies(drafts, drafts')
    BY <2>5, <2>6 DEF OnlyDies, DraftsOK, Found, DraftStatuses
  <2>8. d # None => drafts'[d] # "unsent"
    BY <2>5, <2>6 DEF DraftsOK, Found
  <2> QED BY <1>1, <1>2, <2>1, <2>7, <2>8 DEF Handled, KeepsDrafts, Passed
<1> QED BY <1>3, <1>4

LEMMA CancelMinedHandled ==
    ASSUME NEW l, NEW c \in MinedCancels, NEW lock, NEW stale \in BOOLEAN, Found,
           CancelMinedReleasing(c, lock, stale)
    PROVE  Handled(l)
<1> DEFINE r == CancelMined(row, c, lock)
<1>1. Keeps(row, r)
  BY WritesOfCancel DEF Found
<1>2. row' = r /\ drafts' = IF row.state \in From("CancelMined") /\ row.lock = lock
                            THEN Released(r, c, stale) ELSE drafts
  BY DEF CancelMinedReleasing, Write
<1>3. CASE row.state \in From("CancelMined") /\ row.lock = lock
  <2>1. row # NoRow
    BY <1>3 DEF From, NoRow, CancelMinedStates
  <2>2. r # NoRow /\ r \in RowSet
    BY <1>1, <2>1 DEF Keeps, Good, GoodRow
  <2> HIDE DEF r
  <2>3. r.cancelDraft # None => r.cancelDraft \in OurPaths
    BY <2>2, CancelsAreOurs DEF RowSet
  <2>4. drafts' = drafts \/ (r.cancelDraft # None /\ drafts' = [drafts EXCEPT ![r.cancelDraft] = "dead"])
    BY <1>2, <1>3 DEF Released
  <2>5. OnlyDies(drafts, drafts')
    BY <2>3, <2>4 DEF OnlyDies, DraftsOK, Found, DraftStatuses
  <2>6. Passed(row', drafts')
    BY <1>1, <1>2, <2>5, PassedKept DEF Found
  <2> QED BY <1>1, <1>2, <2>5, <2>6 DEF Handled, Keeps
<1>4. CASE ~(row.state \in From("CancelMined") /\ row.lock = lock)
  BY <1>1, <1>2, <1>4, JobWrites DEF Write
<1> QED BY <1>3, <1>4

LEMMA SettleLeftHandled ==
    ASSUME NEW l, NEW view, NEW owner, Found, GoodRow(l), SinceRead(l),
           l.state \in BeforeLock \cup {"finalizing"}, SettleLeft(l, view, owner)
    PROVE  Handled(l)
<1> DEFINE sale == FindSale(l.lock)
           leads == {f \in Finals : MinedPurchase(Lock(f)) # {}}
           f == CHOOSE f \in leads : TRUE
<1>1. CASE Leave
  BY <1>1, JobLeaves
<1>2. ASSUME NEW to \in {"aborted", "expired"}, Write(EndBeforeLock(row, to), drafts) PROVE Handled(l)
  BY <1>2, WritesBeforeLock, JobWrites DEF Found
<1>3. CASE owner \in Locks /\ Write(AdoptElsewhere(row, owner), drafts)
  BY <1>3, WritesBeforeLock, JobWrites DEF Found
<1>4. CASE l.lock # None /\ sale.seen = "mined" /\ Write(Sell(row, sale.by, l.lock), drafts)
  <2>1. sale.by \in Purchases
    BY <1>4, SaleFound
  <2>2. l.state = "finalizing"
    BY <1>4 DEF GoodRow
  <2>3. row.state \notin AfterCancel
    BY <2>2 DEF SinceRead, AfterCancel, CancelMinedStates
  <2>4. KeepsDrafts(row, Sell(row, sale.by, l.lock))
    BY <2>1, WritesPastLock DEF Found
  <2>5. Keeps(row, Sell(row, sale.by, l.lock))
    BY <2>3, <2>4 DEF Keeps, KeepsDrafts
  <2> QED BY <1>4, <2>5, JobWrites
<1>5. CASE leads # {} /\ Write(ProvenLockSale(row, FindSale(Lock(f)).by, Lock(f)), drafts)
  <2>1. f \in Finals /\ MinedPurchase(Lock(f)) # {}
    BY <1>5
  <2> HIDE DEF f
  <2>2. FindSale(Lock(f)).by \in Purchases /\ Lock(f) \in Locks
    BY <2>1, SaleFound DEF Locks
  <2>3. Keeps(row, ProvenLockSale(row, FindSale(Lock(f)).by, Lock(f)))
    BY <2>2, WritesPastLock DEF Found
  <2> QED BY <1>5, <2>3, JobWrites
<1> QED BY <1>1, <1>2, <1>3, <1>4, <1>5 DEF SettleLeft

\* The states in which the job watches the lock coin itself.
LockStates == {"finalizing", "listed", "sale_pending", "restored", "sold", "cancelling"}

\* A Cancel the job read as dead is still the one the row has, or was
\* discarded before the one the row has now.
LEMMA UncancelHandled ==
    ASSUME NEW l, Found, GoodRow(l), SinceRead(l), l.state = "cancelling", ~Alive(l.cancelDraft)
    PROVE  /\ Write(Uncancel(row, UncancelTarget(l)), drafts) => Handled(l)
           /\ Write(UncancelOverADeadFinalize(l), drafts) => Handled(l)
<1> DEFINE to   == UncancelTarget(l)
           back == Uncancel(row, to)
<1>1. to \in {"listed", "restored"} /\ (to = "restored" => l.file = None)
  BY DEF UncancelTarget
<1>2. row # NoRow /\ row.final = l.final
  BY DEF SinceRead, AfterLock
<1>3. to = "restored" => row.final = None
  BY <1>1, <1>2 DEF GoodRow
<1>4. KeepsFinal(row, back)
  BY <1>1, <1>3, WritesOfCancel DEF Found
<1>5. CASE back = row
  <2>1. UncancelOverADeadFinalize(l) = row
    BY <1>5 DEF UncancelOverADeadFinalize
  <2> QED BY <1>5, <2>1, JobLeaves DEF Leave, Write
<1>6. CASE back # row
  <2>1. row.state = "cancelling" /\ back.state = to /\ back.cancelDraft = None
    <3>1. row.state \in From("Uncancel") /\ back = [row EXCEPT !.state = to, !.cancelDraft = None,
            !.cancel = None, !.out = FALSE, !.count = "null"]
      BY <1>6 DEF Uncancel, Moved
    <3>2. row \in RowSet
      BY <1>2 DEF Found, Good, GoodRow
    <3> QED BY <3>1, <3>2 DEF From, RowSet
  <2>2. GivesUp(l)
    <3>1. CASE row.cancelDraft = l.cancelDraft
      BY <3>1 DEF GivesUp
    <3>2. CASE row.cancelDraft # l.cancelDraft
      BY <2>1, <3>2, CancelsAreOurs DEF SinceRead, GivesUp
    <3> QED BY <3>1, <3>2
  <2> HIDE DEF back
  <2>3. Good(back) /\ back # NoRow /\ back.final = row.final
    BY <1>2, <1>4 DEF KeepsFinal
  <2>4. Write(back, drafts) => Handled(l)
    BY <1>2, <2>1, <2>2, <2>3, JobUncancels
  <2>5. Keeps(back, FinalizingAgain(back)) /\ Keeps(back, Unadopt(back))
    BY <2>3, WritesBeforeLock, WritesPastLock
  <2>6. ASSUME NEW n \in {FinalizingAgain(back), Unadopt(back)}, Write(n, drafts) PROVE Handled(l)
    <3>1. Keeps(back, n)
      BY <2>5, <2>6
    <3>2. Good(n) /\ n # NoRow /\ n.cancelDraft = None
      BY <2>1, <2>3, <3>1 DEF Keeps
    <3>3. n.final = row.final \/ ~Alive(row.final)
      BY <2>3, <3>1 DEF Keeps
    <3> QED BY <1>2, <2>2, <2>6, <3>2, <3>3 DEF Found, Handled, Write, Passed, OnlyDies, GivesUp
  <2>7. UncancelOverADeadFinalize(l) \in {row, FinalizingAgain(back), Unadopt(back)}
    BY DEF UncancelOverADeadFinalize, back
  <2>8. Write(row, drafts) => Handled(l)
    BY JobLeaves DEF Leave, Write
  <2> QED BY <2>4, <2>6, <2>7, <2>8 DEF back
<1> QED BY <1>5, <1>6

\* A sale that is undone: a listing without a file has no FINALIZE of ours.
LEMMA UnsoldHandled ==
    ASSUME NEW l, NEW seen \in {"mined", "mempool", "nowhere"}, Found, GoodRow(l), SinceRead(l),
           l.state \in {"sale_pending", "sold"}, Write(Unsell(row, UnsellTarget(l, seen)), drafts)
    PROVE  Handled(l)
<1> DEFINE to == UnsellTarget(l, seen)
<1>1. to \in {"finalizing", "listed", "restored"} /\ (to = "restored" => l.final = None)
  BY DEF UnsellTarget, GoodRow
<1>2. row.final = l.final
  BY DEF SinceRead, AfterLock
<1>3. Keeps(row, Unsell(row, to))
  <2> HIDE DEF to
  <2> QED BY <1>1, <1>2, WritesPastLock DEF Found
<1> QED BY <1>3, JobWrites

LEMMA LockCoinHeldHandled ==
    ASSUME NEW l, NEW seen \in {"mined", "mempool"}, Found, GoodRow(l), SinceRead(l),
           LockCoinHeld(l, seen)
    PROVE  Handled(l)
<1>1. ASSUME NEW n \in {Listed(row), FinalizingAgain(row), ExpireLocked(row)}, Write(n, drafts)
      PROVE  Handled(l)
  BY <1>1, WritesPastLock, JobWrites DEF Found
<1>2. CASE Leave
  BY <1>2, JobLeaves
<1> QED BY <1>1, <1>2, UnsoldHandled, UncancelHandled DEF LockCoinHeld

LEMMA LockFinalizeNowhereHandled ==
    ASSUME NEW l, Found, GoodRow(l), SinceRead(l), LockFinalizeNowhere(l)
    PROVE  Handled(l)
<1>1. CASE l.state = "finalizing" /\ ~Alive(l.final) /\ Write(RevertToReady(row), drafts)
  <2>1. KeepsCancel(row, RevertToReady(row))
    BY WritesBeforeLock DEF Found
  <2>2. OnlyDies(drafts, drafts')
    BY <1>1 DEF OnlyDies, Found, Write
  <2>3. Passed(row', drafts')
    BY <1>1, <2>1, <2>2, PassedKept DEF Found, Write
  <2>4. RevertToReady(row).final \in {row.final, None}
    <3>1. row # NoRow /\ row \in RowSet
      BY <1>1 DEF SinceRead, Found, Good, GoodRow
    <3> QED BY <3>1 DEF RevertToReady, Moved, Dropped, RowSet
  <2>5. row.final = l.final => ~Alive(row.final)
    BY <1>1
  <2>6. l.final = None => row.final = None
    BY <1>1 DEF SinceRead
  <2>7. RevertToReady(row).final = row.final \/ ~Alive(row.final) \/ l.final \notin {None, row.final}
    BY <2>4, <2>5, <2>6
  <2> QED BY <1>1, <2>1, <2>2, <2>3, <2>7 DEF Handled, KeepsCancel, Write
<1>2. CASE Write(FinalizingAgain(row), drafts) \/ Write(Unadopt(row), drafts)
  BY <1>2, WritesBeforeLock, WritesPastLock, JobWrites DEF Found
<1>3. CASE Leave
  BY <1>3, JobLeaves
<1> QED BY <1>1, <1>2, <1>3, UnsoldHandled, UncancelHandled DEF LockFinalizeNowhere

LEMMA LockCoinGoneHandled ==
    ASSUME NEW l, Found, GoodRow(l), l.state \in AfterLock, LockCoinGone(l)
    PROVE  Handled(l)
<1> DEFINE c    == CancelOfLock(l.lock)
           sale == FindSale(l.lock)
           p    == CHOOSE p \in SaleOfRestoredLock(l.lock) : TRUE
<1>1. CASE Write(ExpireLocked(row), drafts)
  BY <1>1, WritesPastLock, JobWrites DEF Found
<1>2. CASE c # None /\ CancelMinedReleasing(c, l.lock, FALSE)
  <2>1. c \in MinedCancels
    BY <1>2, CancelFound DEF GoodRow
  <2> HIDE DEF c
  <2> QED BY <1>2, <2>1, CancelMinedHandled
<1>3. CASE SaleOfRestoredLock(l.lock) # {} /\ SellReleasing(p, l.lock, FALSE)
  <2>1. p \in Purchases
    BY <1>3, SaleFound
  <2> HIDE DEF p
  <2> QED BY <1>3, <2>1, SoldHandled
<1>4. ASSUME sale.seen # "none" PROVE sale.by \in Purchases
  BY <1>4, SaleFound
<1>5. CASE /\ sale.seen = "pending"
           /\ Write(IF l.state = "sold" THEN Resell(row, "sale_pending", sale.by, l.lock)
                    ELSE SalePending(row, sale.by, l.lock), drafts)
  BY <1>4, <1>5, WritesPastLock, JobWrites DEF Found
<1>6. CASE sale.seen = "mined" /\ SellReleasing(sale.by, l.lock, FALSE)
  BY <1>4, <1>6, SoldHandled
<1>7. CASE sale.seen = "mined" /\ Write(Resell(row, "sold", sale.by, l.lock), drafts)
  BY <1>4, <1>7, WritesPastLock, JobWrites DEF Found
<1>8. CASE Leave
  BY <1>8, JobLeaves
<1> QED BY <1>1, <1>2, <1>3, <1>5, <1>6, <1>7, <1>8 DEF LockCoinGone

LEMMA LockCoinSpentHandled ==
    ASSUME NEW l, Found, GoodRow(l), SinceRead(l), l.state \in LockStates, LockCoinSpent(l)
    PROVE  Handled(l)
<1>1. CASE LockFinalizeNowhere(l)
  BY <1>1, LockFinalizeNowhereHandled
<1>2. CASE l.state = "finalizing" /\ SettleLeft(l, LockView, mined)
  BY <1>2, SettleLeftHandled
<1>3. CASE LockCoinGone(l)
  BY <1>3, LockCoinGoneHandled DEF LockStates, AfterLock
<1> QED BY <1>1, <1>2, <1>3 DEF LockCoinSpent

LEMMA CancelTransferHeldKeeps ==
    ASSUME NEW r, NEW l, NEW c, NEW seen, Good(r)
    PROVE  Keeps(r, CancelTransferHeld(r, l, c, seen))
<1> DEFINE n == [r EXCEPT !.count = IF ripe THEN "0" ELSE "left"]
           counted == IF r.state \in CancelMinedStates THEN n ELSE r
           home == RevertCancelFinalize(counted, l.home)
<1>1. Keeps(r, counted)
  <2>1. ASSUME r.state \in CancelMinedStates PROVE Keeps(r, n)
    <3>1. GoodRow(r) /\ r \in RowSet /\ r # NoRow
      BY <2>1 DEF Good, GoodRow, NoRow, CancelMinedStates
    <3>2. n \in RowSet
      BY <3>1 DEF RowSet
    <3>3. /\ n.state = r.state /\ n.final = r.final /\ n.lock = r.lock
          /\ n.file = r.file /\ n.transfer = r.transfer /\ n.cancelDraft = r.cancelDraft
      BY <3>1 DEF RowSet
    <3> HIDE DEF n
    <3>4. GoodRow(n)
      BY <3>1, <3>2, <3>3 DEF GoodRow
    <3>5. n # NoRow
      BY <3>2, NoneIsNoRow
    <3> QED BY <3>1, <3>3, <3>4, <3>5 DEF Keeps, Good
  <2> QED BY <2>1, KeepsItself
<1> HIDE DEF counted
<1>2. Keeps(counted, home)
  BY <1>1, WritesOfCancel DEF Keeps
<1> HIDE DEF home
<1>3. Keeps(r, home)
  BY <1>1, <1>2 DEF Keeps
<1>4. Keeps(r, CancelUnmined(r, c)) /\ Keeps(r, ExpireLocked(r)) /\ Keeps(r, r)
  BY WritesOfCancel, WritesPastLock, KeepsItself
<1>5. CancelTransferHeld(r, l, c, seen) \in {CancelUnmined(r, c), ExpireLocked(r), home, counted, r}
  BY DEF CancelTransferHeld, home, counted
<1> QED BY <1>1, <1>3, <1>4, <1>5

LEMMA CancelReplacedHandled ==
    ASSUME NEW l, Found, GoodRow(l), l.state \in AfterLock, CancelReplaced(l)
    PROVE  Handled(l)
<1> DEFINE c     == CancelOfLock(l.lock)
           sale  == FindSale(l.lock)
           p     == CHOOSE p \in SaleOfRestoredLock(l.lock) : TRUE
           stale == l.cancelDraft # None => ~Confirmed(l.cancelDraft)
<1>0. stale \in BOOLEAN
  OBVIOUS
<1>1. CASE c # None /\ CancelMinedReleasing(c, l.lock, stale)
  <2>1. c \in MinedCancels
    BY <1>1, CancelFound DEF GoodRow
  <2> HIDE DEF c, stale
  <2> QED BY <1>0, <1>1, <2>1, CancelMinedHandled
<1>2. CASE SaleOfRestoredLock(l.lock) # {} /\ SellReleasing(p, l.lock, stale)
  <2>1. p \in Purchases
    BY <1>2, SaleFound
  <2> HIDE DEF p, stale
  <2> QED BY <1>0, <1>2, <2>1, SoldHandled
<1>3. CASE sale.seen = "mined" /\ SellReleasing(sale.by, l.lock, stale)
  <2>1. sale.by \in Purchases
    BY <1>3, SaleFound
  <2> HIDE DEF sale, stale
  <2> QED BY <1>0, <1>3, <2>1, SoldHandled
<1>4. CASE Leave
  BY <1>4, JobLeaves
<1> QED BY <1>1, <1>2, <1>3, <1>4 DEF CancelReplaced

LEMMA CancelOnItsWayHomeHandled ==
    ASSUME NEW l, NEW seen, Found, GoodRow(l), l.state \in AfterLock, CancelOnItsWayHome(l, seen)
    PROVE  Handled(l)
<1>1. CASE Write(CancelTransferHeld(row, l, l.cancel, seen), drafts)
  BY <1>1, CancelTransferHeldKeeps, JobWrites DEF Found
<1>2. ASSUME NEW n \in {CancelUnmined(row, l.cancel), CancelDone(row, l.cancel), ExpireLocked(row)},
             Write(n, drafts)
      PROVE  Handled(l)
  BY <1>2, WritesOfCancel, WritesPastLock, JobWrites DEF Found
<1>3. CASE CancelReplaced(l)
  BY <1>3, CancelReplacedHandled
<1> QED BY <1>1, <1>2, <1>3 DEF CancelOnItsWayHome

LEMMA CancelledHomeUndoneHandled ==
    ASSUME NEW l, NEW owner, Found, CancelledHomeUndone(l, owner)
    PROVE  Handled(l)
<1>1. ASSUME NEW n \in {CancelUndone(row, l.cancel), CancelledUnmined(row, l.cancel)},
             Write(n, drafts)
      PROVE  Handled(l)
  BY <1>1, WritesOfCancel, JobWrites DEF Found
<1> QED BY <1>1, JobLeaves DEF CancelledHomeUndone

-----------------------------------------------------------------------------
(* The inductive invariant of row and job, and every step's share of it.   *)

JobOK ==
    /\ job.at \in {"idle", "first", "rest", "tail"}
    /\ job.at = "idle" => job = NoJob
    /\ job.at # "idle" => GoodRow(job.l)
    /\ job.at = "first" => job.l.state \in Watched
    /\ job.at = "rest" =>
         /\ job.l.state \in BeforeLock \cup AfterLock
         /\ job.l.state \in LockStates => job.saw[1] \in {"none", "mined", "mempool"}
    /\ job.at = "tail" => job.l.state = "cancel_awaiting_finalize"

JobFollows == job.at # "idle" => SinceRead(job.l)

RowInv == Found /\ JobOK /\ JobFollows

FinalStep == \A f \in Ours : LosesFinalize(f) => OlderFinalize(f)
CancelStep == \A c \in OurCancelPaths : LosesCancel(c) => OlderCancel(c)

StepOK == RowInv' /\ FinalStep /\ CancelStep

LEMMA RowInit == Init => RowInv
BY DEF Init, RowInv, Found, Good, DraftsOK, DraftStatuses, Passed, JobOK, JobFollows, NoJob

LEMMA CancelStays ==
    ASSUME row # NoRow => row' # NoRow /\ row'.cancelDraft = row.cancelDraft
    PROVE  CancelStep
BY CancelsAreOurs DEF CancelStep, LosesCancel

\* Steps of the chain, prompts, and whatever else writes neither.
LEMMA NothingWritten == RowInv /\ UNCHANGED <<row, drafts, job>> => StepOK
<1> SUFFICES ASSUME RowInv, UNCHANGED <<row, drafts, job>> PROVE StepOK
  OBVIOUS
<1>1. RowInv'
  BY DEF RowInv, Found, Good, DraftsOK, Passed, JobOK, JobFollows, SinceRead
<1>2. FinalStep /\ CancelStep
  BY CancelStays DEF FinalStep, LosesFinalize
<1> QED BY <1>1, <1>2 DEF StepOK

\* A write of the job keeps both properties.
LEMMA HandledSteps ==
    ASSUME Found, Handled(job.l), job.at # "idle"
    PROVE  Found' /\ FinalStep /\ CancelStep
<1>1. Found'
  BY DEF Found, Handled, OnlyDies, DraftsOK
<1>2. FinalStep
  <2> SUFFICES ASSUME NEW f \in Ours, LosesFinalize(f) PROVE OlderFinalize(f)
    BY DEF FinalStep
  <2>1. row # NoRow /\ row.final = Lock(f) /\ MayStillLand(Lock(f)) /\ (row' = NoRow \/ row'.final # Lock(f))
    BY DEF LosesFinalize
  <2>2. Alive(row.final)
    BY <2>1, LockPaths, ListingAssumption DEF Alive, MayStillLand, Locks
  <2>3. job.l.final \notin {None, Lock(f)} /\ job # NoJob
    BY <2>1, <2>2 DEF Handled, NoJob
  <2> QED BY <2>3 DEF OlderFinalize
<1>3. CancelStep
  <2> SUFFICES ASSUME NEW c \in OurCancelPaths, LosesCancel(c) PROVE OlderCancel(c)
    BY DEF CancelStep
  <2>1. row # NoRow /\ row.cancelDraft = c /\ MayStillLand(c) /\ (row' = NoRow \/ row'.cancelDraft = None)
    BY DEF LosesCancel
  <2>2. c # None /\ Alive(c)
    BY <2>1, CancelsAreOurs DEF Alive, MayStillLand
  <2>3. job.l.cancelDraft \notin {None, c} /\ drafts[job.l.cancelDraft] = "deleted" /\ job # NoJob
    BY <2>1, <2>2 DEF Handled, NoJob
  <2> QED BY <2>3 DEF OlderCancel
<1> QED BY <1>1, <1>2, <1>3

LEMMA JobStartStep == RowInv /\ JobStart => StepOK
<1> SUFFICES ASSUME RowInv, JobStart PROVE StepOK
  OBVIOUS
<1>1. row.state \in Watched /\ job' = [at |-> "first", l |-> row] /\ UNCHANGED <<row, drafts>>
  BY DEF JobStart
<1>2. GoodRow(row) /\ row # NoRow
  BY <1>1 DEF RowInv, Found, Good, Watched, NoRow, BeforeLock, AfterLock, CancelMinedStates
<1>3. JobOK'
  BY <1>1, <1>2 DEF JobOK, GoodRow
<1>4. SinceRead(row)
  BY <1>2 DEF SinceRead
<1>5. JobFollows'
  BY <1>1, <1>4 DEF JobFollows, SinceRead
<1>6. Found' /\ FinalStep /\ CancelStep
  BY <1>1, CancelStays DEF RowInv, Found, Good, DraftsOK, Passed, FinalStep, LosesFinalize
<1> QED BY <1>3, <1>5, <1>6 DEF StepOK, RowInv

LEMMA JobEnds ==
    ASSUME RowInv, Handled(job.l), job.at # "idle", job' = NoJob
    PROVE  StepOK
<1>1. JobOK' /\ JobFollows'
  BY DEF JobOK, JobFollows, NoJob
<1> QED BY <1>1, HandledSteps DEF StepOK, RowInv

LEMMA JobGoesOn ==
    ASSUME RowInv, job.at = "first", Leave, NEW saw, job' = Then(job.l, saw),
           job.l.state \in BeforeLock \cup AfterLock,
           job.l.state \in LockStates => saw[1] \in {"none", "mined", "mempool"}
    PROVE  StepOK
<1>1. job'.at = "rest" /\ job'.l = job.l /\ job'.saw = saw
  BY DEF Then
<1>2. JobOK'
  BY <1>1 DEF RowInv, JobOK, GoodRow
<1>3. JobFollows'
  BY <1>1 DEF RowInv, JobFollows, SinceRead, Leave
<1>4. Handled(job.l)
  BY JobLeaves DEF RowInv
<1> QED BY <1>2, <1>3, <1>4, HandledSteps DEF StepOK, RowInv

LEMMA JobFirstStep == RowInv /\ JobFirst => StepOK
<1> SUFFICES ASSUME RowInv, JobFirst PROVE StepOK
  OBVIOUS
<1> DEFINE l == job.l
<1>1. job.at = "first" /\ GoodRow(l) /\ l.state \in Watched /\ Found
  BY DEF JobFirst, RowInv, JobOK
<1>2. CASE l.state \in AfterLock
  <2>1. JobFirstAfterLock(l)
    BY <1>2 DEF JobFirst
  <2>2. \A path : Coin(path) \in {"none", "mined", "mempool"}
    BY DEF Coin
  <2>3. Leave
    BY <2>1 DEF JobFirstAfterLock
  <2>4. CASE job' = NoJob
    BY <1>1, <2>3, <2>4, JobLeaves, JobEnds
  <2>5. ASSUME NEW saw, job' = Then(l, saw),
               l.state \in LockStates => saw[1] \in {"none", "mined", "mempool"}
        PROVE  StepOK
    BY <1>1, <1>2, <2>3, <2>5, JobGoesOn
  <2>6. CASE l.state = "cancelled" /\ ~gone
    <3>1. job' = Then(l, <<"owner", mined>>)
      BY <2>1, <2>6 DEF JobFirstAfterLock, CancelMinedStates
    <3> QED BY <2>5, <2>6, <3>1 DEF LockStates
  <2>7. CASE l.state \in CancelMinedStates
    <3>1. job' = Then(l, <<Coin(l.cancel)>>)
      BY <2>1, <2>7 DEF JobFirstAfterLock, CancelMinedStates
    <3> QED BY <2>2, <2>5, <3>1
  <2>8. CASE l.state \notin CancelMinedStates \cup {"cancelled"}
    <3>1. job' = Then(l, <<Coin(l.lock)>>)
      BY <2>1, <2>8 DEF JobFirstAfterLock
    <3> QED BY <2>2, <2>5, <3>1
  <2>9. CASE l.state = "cancelled" /\ gone
    BY <2>1, <2>4, <2>9 DEF JobFirstAfterLock, CancelMinedStates
  <2> QED BY <2>6, <2>7, <2>8, <2>9
<1>3. CASE l.state \notin AfterLock
  <2>1. JobFirstBeforeLock(l)
    BY <1>3 DEF JobFirst
  <2>2. ASSUME NEW n \in {EndBeforeLock(row, "aborted"), Unabort(row), Ready(row), LockingAgain(row), row},
               Write(n, drafts), job' = NoJob
        PROVE  StepOK
    <3>1. Keeps(row, n)
      BY <1>1, <2>2, WritesBeforeLock, KeepsItself DEF Found
    <3> QED BY <1>1, <2>2, <3>1, JobWrites, JobEnds
  <2>3. CASE l.state \in BeforeLock /\ Leave /\ job' = Then(l, <<LockView, mined>>)
    BY <1>1, <2>3, JobGoesOn DEF LockStates, BeforeLock
  <2> QED BY <2>1, <2>2, <2>3 DEF JobFirstBeforeLock
<1> QED BY <1>2, <1>3

LEMMA JobRestHandled == RowInv /\ JobRest => Handled(job.l)
<1> SUFFICES ASSUME RowInv, JobRest PROVE Handled(job.l)
  OBVIOUS
<1> DEFINE l == job.l
<1>1. job.at = "rest" /\ GoodRow(l) /\ SinceRead(l) /\ Found /\ l.state \in BeforeLock \cup AfterLock
  BY DEF JobRest, RowInv, JobOK, JobFollows
<1>2. CASE l.state \in BeforeLock
  <2>1. SettleLeft(l, job.saw[1], job.saw[2])
    BY <1>2 DEF JobRest, BeforeLock, CancelMinedStates
  <2> QED BY <1>1, <1>2, <2>1, SettleLeftHandled
<1>3. CASE l.state = "cancelled"
  <2>1. CancelledHomeUndone(l, job.saw[2])
    BY <1>3 DEF JobRest, BeforeLock, CancelMinedStates
  <2> QED BY <1>1, <2>1, CancelledHomeUndoneHandled
<1>4. CASE l.state \in CancelMinedStates
  <2>1. CancelOnItsWayHome(l, job.saw[1])
    BY <1>4 DEF JobRest, BeforeLock, CancelMinedStates
  <2>2. l.state \in AfterLock
    BY <1>4 DEF AfterLock
  <2> QED BY <1>1, <2>1, <2>2, CancelOnItsWayHomeHandled
<1>5. CASE l.state \in LockStates
  <2>1. IF job.saw[1] # "none" THEN LockCoinHeld(l, job.saw[1]) ELSE LockCoinSpent(l)
    BY <1>5 DEF JobRest, BeforeLock, CancelMinedStates, LockStates
  <2>2. job.saw[1] \in {"none", "mined", "mempool"}
    BY <1>1, <1>5 DEF RowInv, JobOK
  <2> QED BY <1>1, <1>5, <2>1, <2>2, LockCoinHeldHandled, LockCoinSpentHandled
<1> QED BY <1>1, <1>2, <1>3, <1>4, <1>5 DEF AfterLock, LockStates

LEMMA JobRestStep == RowInv /\ JobRest => StepOK
<1> SUFFICES ASSUME RowInv, JobRest PROVE StepOK
  OBVIOUS
<1>1. Handled(job.l) /\ job.at # "idle"
  BY JobRestHandled DEF JobRest
<1>2. CASE job' = NoJob
  BY <1>1, <1>2, JobEnds
<1>3. CASE row'.state = "cancel_awaiting_finalize" /\ job' = [at |-> "tail", l |-> row']
  <2>1. Found' /\ FinalStep /\ CancelStep
    BY <1>1, HandledSteps DEF RowInv
  <2>2. GoodRow(row') /\ row' # NoRow
    BY <1>3, <2>1 DEF Found, Good, NoRow
  <2>3. JobOK'
    BY <1>3, <2>2 DEF JobOK, GoodRow
  <2>4. JobFollows'
    BY <1>3, <2>2 DEF JobFollows, SinceRead, AfterLock, CancelMinedStates
  <2> QED BY <2>1, <2>3, <2>4 DEF StepOK, RowInv
<1> QED BY <1>2, <1>3 DEF JobRest, ThenCount

LEMMA JobTailStep == RowInv /\ JobTail => StepOK
<1> SUFFICES ASSUME RowInv, JobTail PROVE StepOK
  OBVIOUS
<1>1. job.at # "idle" /\ job' = NoJob /\ Found
  BY DEF JobTail, RowInv
<1>2. Handled(job.l)
  BY <1>1, JobLeaves, CancelTransferHeldKeeps, JobWrites DEF JobTail, Found
<1> QED BY <1>1, <1>2, JobEnds

LEMMA JobFailsStep == RowInv /\ JobFails => StepOK
<1> SUFFICES ASSUME RowInv, JobFails PROVE StepOK
  OBVIOUS
<1>1. Leave /\ job.at # "idle" /\ job' = NoJob
  BY DEF JobFails, Leave, RowInv, JobOK
<1> QED BY <1>1, JobLeaves, JobEnds DEF RowInv

-----------------------------------------------------------------------------
(* The seller's commands.                                                  *)

\* A command that leaves the job alone.
LEMMA CommandStep ==
    ASSUME RowInv, UNCHANGED job, Good(row'), DraftsOK(drafts'), Passed(row', drafts'),
           \A l : GoodRow(l) /\ SinceRead(l) => SinceRead(l)',
           \A f \in Ours : ~LosesFinalize(f), CancelStep
    PROVE  StepOK
<1>1. Found'
  BY DEF Found, Good, DraftsOK, Passed
<1>2. JobOK' /\ JobFollows'
  BY DEF RowInv, JobOK, JobFollows, GoodRow
<1> QED BY <1>1, <1>2 DEF StepOK, RowInv, FinalStep

LEMMA LockNameStep == RowInv /\ LockName => StepOK
<1> SUFFICES ASSUME RowInv, LockName PROVE StepOK
  OBVIOUS
<1>1. row = NoRow /\ row' = NewRow /\ drafts' = [drafts EXCEPT ![T] = "unsent"] /\ UNCHANGED job
  BY DEF LockName
<1>2. Good(row') /\ row'.cancelDraft = None
  BY <1>1 DEF Good, GoodRow, RowSet, NewRow, States, BeforeLock, AfterLock, CancelMinedStates
<1>3. DraftsOK(drafts')
  BY <1>1 DEF RowInv, Found, DraftsOK, DraftStatuses
<1>4. \A l : GoodRow(l) /\ SinceRead(l) => SinceRead(l)'
  BY <1>1 DEF SinceRead, AfterLock
<1> QED BY <1>1, <1>2, <1>3, <1>4, CommandStep, CancelStays DEF Passed, LosesFinalize

LEMMA RestoreByNameStep == RowInv /\ RestoreByName => StepOK
<1> SUFFICES ASSUME RowInv, RestoreByName PROVE StepOK
  OBVIOUS
<1>1. row = NoRow /\ mined \in Locks /\ row' = RestoredRow(mined) /\ UNCHANGED <<job, drafts>>
  BY DEF RestoreByName
<1>2. Good(row') /\ row'.cancelDraft = None
  BY <1>1 DEF Good, GoodRow, RowSet, RestoredRow, NewRow, States, BeforeLock, AfterLock
<1>3. DraftsOK(drafts')
  BY <1>1 DEF RowInv, Found, DraftsOK
<1>4. \A l : GoodRow(l) /\ SinceRead(l) => SinceRead(l)'
  BY <1>1 DEF SinceRead, AfterLock
<1> QED BY <1>1, <1>2, <1>3, <1>4, CommandStep, CancelStays DEF Passed, LosesFinalize

\* A draft that is built, sent, followed or deleted stays one that was there.
LEMMA DraftsOnly ==
    ASSUME RowInv, UNCHANGED <<row, job>>, DraftsOK(drafts'),
           \A d \in OurPaths : drafts[d] = "deleted" => drafts'[d] = "deleted",
           \A c \in OurCancelPaths : drafts'[c] = "unsent" => drafts[c] = "unsent"
    PROVE  StepOK
<1>1. Good(row') /\ (row # NoRow => GoodRow(row) /\ row \in RowSet)
  BY DEF RowInv, Found, Good, GoodRow
<1>2. Passed(row', drafts')
  BY <1>1 DEF RowInv, Found, Passed, RowSet, OurCancelPaths
<1>3. ASSUME NEW l, SinceRead(l) PROVE SinceRead(l)'
  BY <1>3 DEF SinceRead
<1> QED BY <1>1, <1>2, <1>3, CommandStep, CancelStays DEF LosesFinalize

LEMMA SendStep == ASSUME RowInv, NEW d \in OurPaths, Send(d) \/ Poll(d) PROVE StepOK
<1>1. UNCHANGED <<row, job>> /\ drafts[d] \notin {"none", "deleted"}
  BY DEF Send, Poll
<1>2. PICK to \in {"out", "dead", "confirmed"} : drafts' = [drafts EXCEPT ![d] = to]
  BY DEF Send, Poll, Followed
<1>3. DraftsOK(drafts')
  BY <1>2 DEF RowInv, Found, DraftsOK, DraftStatuses
<1>4. \A e \in OurPaths : drafts'[e] = drafts[e] \/ (drafts[e] # "deleted" /\ drafts'[e] # "unsent")
  BY <1>1, <1>2 DEF RowInv, Found, DraftsOK
<1> QED BY <1>1, <1>3, <1>4, CancelsAreOurs, DraftsOnly

LEMMA FinalizeStoreStep == ASSUME RowInv, NEW f \in Ours, FinalizeStore(f) PROVE StepOK
<1> DEFINE lock == Lock(f)
<1>1. /\ row.state = "ready_to_finalize" /\ row' = Finalize(row, lock)
      /\ drafts' = [drafts EXCEPT ![lock] = "unsent"] /\ UNCHANGED job
  BY DEF FinalizeStore, From
<1>2. GoodRow(row) /\ row # NoRow /\ row \in RowSet
  BY <1>1 DEF RowInv, Found, Good, GoodRow, NoRow
<1>3. lock \in Locks /\ lock \in OurPaths
  BY ListingAssumption, CancelsAreOurs DEF Locks
<1> HIDE DEF lock
<1>4. KeepsCancel(row, row')
  BY <1>1, <1>3, WritesBeforeLock DEF RowInv, Found
<1>5. row' # NoRow /\ row'.state = "finalizing" /\ row'.cancelDraft = row.cancelDraft
  BY <1>1, <1>2 DEF Finalize, Moved, From, RowSet, NoRow
<1>6. DraftsOK(drafts') /\ \A d \in OurPaths : d # lock => drafts'[d] = drafts[d]
  BY <1>1, <1>3 DEF RowInv, Found, DraftsOK, DraftStatuses
<1>7. row.cancelDraft # None => row.cancelDraft \in OurPaths /\ row.cancelDraft # lock
  BY <1>2, <1>3, CancelsAreOurs, CancelsApart DEF RowSet, OurCancelPaths
<1>8. Passed(row', drafts')
  <2>1. row.cancelDraft # None => drafts[row.cancelDraft] # "unsent"
    BY <1>1, <1>2 DEF RowInv, Found, Passed, AfterCancel, CancelMinedStates
  <2> QED BY <1>5, <1>6, <1>7, <2>1 DEF Passed
<1>9. ASSUME NEW l, SinceRead(l) PROVE SinceRead(l)'
  BY <1>1, <1>5, <1>9 DEF SinceRead, AfterLock, CancelMinedStates
<1>10. \A g \in Ours : ~LosesFinalize(g)
  <2>1. row.final = None
    BY <1>1, <1>2 DEF GoodRow, BeforeLock
  <2> QED BY <2>1, LockPaths, ListingAssumption DEF LosesFinalize, Locks
<1>11. CancelStep
  BY <1>5, CancelStays
<1>12. Good(row') /\ UNCHANGED job
  BY <1>1, <1>4 DEF KeepsCancel
<1> QED BY <1>6, <1>8, <1>9, <1>10, <1>11, <1>12, CommandStep

\* A note of the row's own, of a Cancel transfer before its lock.
LEMMA AbortNoted ==
    ASSUME NEW r, GoodRow(r), NEW b \in BOOLEAN
    PROVE  LET n == [r EXCEPT !.abort = b]
           IN  /\ Keeps(r, n) /\ n.state = r.state /\ n.final = r.final /\ n.lock = r.lock
               /\ n.cancelDraft = r.cancelDraft
<1> DEFINE n == [r EXCEPT !.abort = b]
<1>1. r \in RowSet /\ r # NoRow
  BY NoneIsNoRow DEF GoodRow
<1>2. n \in RowSet
  BY <1>1 DEF RowSet
<1>3. /\ n.state = r.state /\ n.final = r.final /\ n.lock = r.lock
      /\ n.file = r.file /\ n.transfer = r.transfer /\ n.cancelDraft = r.cancelDraft
  BY <1>1 DEF RowSet
<1> HIDE DEF n
<1>4. GoodRow(n)
  BY <1>1, <1>2, <1>3 DEF GoodRow
<1>5. n # NoRow
  BY <1>2, NoneIsNoRow
<1>6. Keeps(r, n)
  BY <1>1, <1>3, <1>4, <1>5 DEF Keeps, Good
<1> QED BY <1>3, <1>6 DEF n

\* The row changes but for its state, lock, FINALIZE and Cancel.
LEMMA RowBarely ==
    ASSUME RowInv, UNCHANGED job, row # NoRow, Good(row'), row' # NoRow, row'.state = row.state,
           row'.final = row.final, row'.lock = row.lock, row'.cancelDraft = row.cancelDraft,
           DraftsOK(drafts'),
           \A d \in OurPaths : drafts[d] = "deleted" => drafts'[d] = "deleted",
           \A c \in OurCancelPaths : drafts'[c] = "unsent" => drafts[c] = "unsent"
    PROVE  StepOK
<1>1. GoodRow(row) /\ row \in RowSet
  BY DEF RowInv, Found, Good, GoodRow
<1>2. Passed(row', drafts')
  BY <1>1 DEF RowInv, Found, Passed, RowSet, OurCancelPaths
<1>3. ASSUME NEW l, SinceRead(l) PROVE SinceRead(l)'
  BY <1>3 DEF SinceRead
<1> QED BY <1>2, <1>3, CommandStep, CancelStays DEF LosesFinalize

LEMMA AbortStoreStep == RowInv /\ AbortStore => StepOK
<1> SUFFICES ASSUME RowInv, AbortStore PROVE StepOK
  OBVIOUS
<1>1. /\ row' = IF row.state \in BeforeLock THEN [row EXCEPT !.abort = TRUE] ELSE row
      /\ drafts' = [drafts EXCEPT ![A] = "unsent"] /\ UNCHANGED job
  BY DEF AbortStore
<1>2. DraftsOK(drafts') /\ \A d \in OurPaths : d # A => drafts'[d] = drafts[d]
  BY <1>1, CancelsAreOurs DEF RowInv, Found, DraftsOK, DraftStatuses
<1>3. drafts'[A] = "unsent"
  BY <1>1, CancelsAreOurs DEF RowInv, Found, DraftsOK
<1>4. \A d \in OurPaths : drafts[d] = "deleted" => drafts'[d] = "deleted"
  BY <1>2 DEF AbortStore
<1>5. \A c \in OurCancelPaths : drafts'[c] = "unsent" => drafts[c] = "unsent"
  BY <1>2, LockPaths, CancelsAreOurs DEF OurCancelPaths
<1>6. CASE row.state \in BeforeLock
  <2>1. GoodRow(row) /\ row # NoRow
    BY <1>6 DEF RowInv, Found, Good, NoRow, BeforeLock
  <2>2. /\ Good(row') /\ row' # NoRow /\ row'.state = row.state /\ row'.final = row.final
        /\ row'.lock = row.lock /\ row'.cancelDraft = row.cancelDraft
    BY <1>1, <1>6, <2>1, AbortNoted DEF Keeps
  <2> QED BY <1>1, <1>2, <1>4, <1>5, <2>1, <2>2, RowBarely
<1>7. CASE row.state \notin BeforeLock
  BY <1>1, <1>2, <1>4, <1>5, <1>7, DraftsOnly
<1> QED BY <1>6, <1>7

LEMMA CancelStoreStep == ASSUME RowInv, NEW l \in Locks, CancelStore(l) PROVE StepOK
<1>1. PICK c \in CancelsOf(l) :
        /\ row.state \in {"listed", "restored"} /\ row.lock = l /\ row' = Cancel(row, c, l)
        /\ drafts[c] = "none" /\ drafts' = [drafts EXCEPT ![c] = "unsent"] /\ UNCHANGED job
  BY DEF CancelStore, From
<1>2. GoodRow(row) /\ row # NoRow /\ row \in RowSet
  BY <1>1 DEF RowInv, Found, Good, GoodRow, NoRow
<1>3. c \in OurPaths /\ c \in OurCancelPaths
  BY CancelsAreOurs DEF OurCancelPaths
<1>4. KeepsFinal(row, row')
  BY <1>1, <1>3, WritesOfCancel DEF RowInv, Found
<1>5. /\ row' # NoRow /\ row'.state = "cancelling" /\ row'.cancelDraft = c
      /\ row'.final = row.final /\ row'.lock = l
  BY <1>1, <1>2 DEF Cancel, Moved, From, RowSet, NoRow
<1>6. DraftsOK(drafts') /\ \A d \in OurPaths : d # c => drafts'[d] = drafts[d]
  BY <1>1, <1>3 DEF RowInv, Found, DraftsOK, DraftStatuses
<1>7. Passed(row', drafts')
  BY <1>1, <1>5 DEF Passed, AfterCancel
<1>8. ASSUME NEW r, SinceRead(r) PROVE SinceRead(r)'
  <2>1. r.state # "finalizing"
    BY <1>1, <1>8 DEF SinceRead
  <2>2. r.state = "cancelling" =>
          r.cancelDraft \in OurPaths /\ r.cancelDraft # c /\ drafts[r.cancelDraft] = "deleted"
    BY <1>1, <1>8 DEF SinceRead
  <2> QED BY <1>1, <1>5, <1>6, <1>8, <2>1, <2>2 DEF SinceRead, AfterLock
<1>9. \A f \in Ours : ~LosesFinalize(f)
  BY <1>5 DEF LosesFinalize
<1>10. CancelStep
  BY <1>3, <1>5, CancelsAreOurs DEF CancelStep, LosesCancel
<1>11. Good(row') /\ UNCHANGED job
  BY <1>1, <1>4 DEF KeepsFinal
<1> QED BY <1>6, <1>7, <1>8, <1>9, <1>10, <1>11, CommandStep

\* Commands that move a listing within the states past its lock, and leave
\* its lock coin, FINALIZE and Cancel.
LEMMA MovesPastLock ==
    ASSUME RowInv, UNCHANGED job, row # NoRow, row' # NoRow, Keeps(row, row'),
           row.state \in AfterLock \ {"finalizing", "cancelling"},
           row'.state \in AfterLock \ {"finalizing", "cancelling"},
           row.state \in {"listed", "restored"} => row'.state \in {"listed", "restored"},
           row'.final = row.final, row'.lock = row.lock, row'.cancelDraft = row.cancelDraft,
           DraftsOK(drafts'),
           \A d \in OurPaths : drafts[d] = "deleted" => drafts'[d] = "deleted",
           \A c \in OurCancelPaths : drafts'[c] = "unsent" => drafts[c] = "unsent"
    PROVE  StepOK
<1>1. GoodRow(row) /\ row \in RowSet
  BY DEF RowInv, Found, Good, GoodRow
<1>2. Passed(row', drafts')
  <2> SUFFICES ASSUME row.cancelDraft # None,
                      row'.state \notin AfterCancel \/ row.cancelDraft \notin CancelsOf(row.lock)
               PROVE  drafts'[row.cancelDraft] # "unsent"
    BY DEF Passed
  <2>1. row.state \notin AfterCancel \/ row.cancelDraft \notin CancelsOf(row.lock)
    BY DEF Keeps
  <2> QED BY <1>1, <2>1 DEF RowInv, Found, Passed, RowSet, OurCancelPaths
<1>3. ASSUME NEW l, SinceRead(l) PROVE SinceRead(l)'
  <2>1. l.state # "finalizing"
    BY <1>3 DEF SinceRead, AfterLock, CancelMinedStates
  <2> QED BY <1>3, <2>1 DEF SinceRead
<1> QED BY <1>2, <1>3, CommandStep, CancelStays DEF Keeps, LosesFinalize

LEMMA HomeStoreStep == ASSUME RowInv, NEW c \in MinedCancels, HomeStore(c) PROVE StepOK
<1> DEFINE h == HomeOf(c)
<1>1. /\ row.state = "cancel_awaiting_finalize" /\ row.cancel = c /\ row.out
      /\ row' = FinalizeCancel(row, c)
      /\ drafts' = [drafts EXCEPT ![h] = "unsent"] /\ UNCHANGED job
  BY DEF HomeStore, From
<1>2. row # NoRow /\ row \in RowSet
  BY <1>1 DEF RowInv, Found, Good, GoodRow, NoRow
<1>3. Keeps(row, row')
  BY <1>1, WritesOfCancel DEF RowInv, Found
<1>4. /\ row' # NoRow /\ row'.state = "cancel_finalizing" /\ row'.final = row.final
      /\ row'.lock = row.lock /\ row'.cancelDraft = row.cancelDraft
  BY <1>1, <1>2 DEF FinalizeCancel, Moved, From, RowSet, NoRow
<1>5. h \in OurPaths /\ drafts[h] = "none" /\ \A d \in OurCancelPaths : d \in OurPaths /\ d # h
  BY CancelsAreOurs, CancelsApart DEF Homes, OurCancelPaths, HomeStore
<1> HIDE DEF h
<1>6. DraftsOK(drafts') /\ \A d \in OurPaths : drafts'[d] = IF d = h THEN "unsent" ELSE drafts[d]
  BY <1>1, <1>5 DEF RowInv, Found, DraftsOK, DraftStatuses
<1> QED BY <1>1, <1>2, <1>3, <1>4, <1>5, <1>6, MovesPastLock DEF AfterLock, CancelMinedStates

LEMMA UpgradeByFileStep == RowInv /\ UpgradeByFile => StepOK
<1> SUFFICES ASSUME RowInv, UpgradeByFile PROVE StepOK
  OBVIOUS
<1>1. row.state = "restored" /\ row' = Upgrade(row, row.lock) /\ UNCHANGED <<job, drafts>>
  BY DEF UpgradeByFile
<1>2. row # NoRow /\ row \in RowSet
  BY <1>1 DEF RowInv, Found, Good, GoodRow, NoRow
<1>3. Keeps(row, row')
  BY <1>1, WritesPastLock DEF RowInv, Found
<1>4. /\ row' # NoRow /\ row'.state = "listed" /\ row'.final = row.final
      /\ row'.lock = row.lock /\ row'.cancelDraft = row.cancelDraft
  BY <1>1, <1>2 DEF Upgrade, Moved, From, RowSet, NoRow
<1>5. DraftsOK(drafts')
  BY <1>1 DEF RowInv, Found, DraftsOK
<1> QED BY <1>1, <1>2, <1>3, <1>4, <1>5, MovesPastLock DEF AfterLock

LEMMA DiscardStep == ASSUME RowInv, NEW d \in OurPaths, Discard(d) PROVE StepOK
<1>1. drafts[d] = "unsent" /\ drafts' = [drafts EXCEPT ![d] = "deleted"] /\ UNCHANGED job
  BY DEF Discard
<1>2. DraftsOK(drafts') /\ \A e \in OurPaths : drafts'[e] = IF e = d THEN "deleted" ELSE drafts[e]
  BY <1>1 DEF RowInv, Found, DraftsOK, DraftStatuses
<1>3. OnlyDies(drafts, [drafts EXCEPT ![d] = "dead"])
  BY DEF RowInv, Found, OnlyDies, DraftsOK, DraftStatuses
<1>4. /\ \A e \in OurPaths : drafts[e] = "deleted" => drafts'[e] = "deleted"
      /\ \A c \in OurCancelPaths : drafts'[c] = "unsent" => drafts[c] = "unsent"
  BY <1>2, CancelsAreOurs DEF OurCancelPaths
<1>5. row # NoRow => GoodRow(row) /\ row \in RowSet
  BY DEF RowInv, Found, Good, GoodRow
<1>6. CASE row' = row
  BY <1>1, <1>2, <1>4, <1>6, DraftsOnly
<1>7. CASE d = T /\ row.state = "locking" /\ row' = NoRow
  <2>1. row # NoRow /\ row.final = None /\ row.lock = None
    BY <1>5, <1>7 DEF NoRow, GoodRow, BeforeLock
  <2>2. Good(row') /\ Passed(row', drafts')
    BY <1>7 DEF Good, Passed
  <2>3. ASSUME NEW l, SinceRead(l) PROVE SinceRead(l)'
    BY <1>7, <2>3 DEF SinceRead, AfterLock, CancelMinedStates
  <2>4. \A f \in Ours : ~LosesFinalize(f)
    BY <2>1, LockPaths, ListingAssumption DEF LosesFinalize, Locks
  <2>5. CancelStep
    BY <2>1, CancelsApart DEF LosesCancel, CancelStep, OurCancelPaths
  <2> QED BY <1>1, <1>2, <2>2, <2>3, <2>4, <2>5, CommandStep
<1>8. CASE row # NoRow /\ row.final = d /\ row' = RevertToReady(row) /\ row' # row
  <2>1. row.state = "finalizing" /\ row' = [Dropped(row) EXCEPT !.state = "ready_to_finalize", !.lock = None]
    BY <1>8 DEF RevertToReady, Moved, From
  <2>2. KeepsCancel(row, row')
    BY <1>8, WritesBeforeLock DEF RowInv, Found
  <2>3. row'.state = "ready_to_finalize" /\ row'.cancelDraft = row.cancelDraft
    BY <1>5, <1>8, <2>1 DEF Dropped, RowSet
  <2>4. Passed(row', [drafts EXCEPT ![d] = "dead"])
    BY <1>3, <2>2, PassedKept DEF RowInv, Found
  <2>5. row.cancelDraft # None => row.cancelDraft \in OurPaths
    BY <1>5, <1>8, CancelsAreOurs DEF RowSet
  <2>6. Passed(row', drafts')
    BY <1>1, <2>3, <2>4, <2>5 DEF Passed, RowInv, Found, DraftsOK
  <2>7. d # None
    BY CancelsAreOurs
  <2>8. ASSUME NEW l, GoodRow(l), SinceRead(l) PROVE SinceRead(l)'
    <3>1. l.state = "finalizing" => l.final # None
      BY <1>8, <2>7, <2>8 DEF SinceRead
    <3>2. l.state \notin AfterLock \ {"finalizing"}
      BY <2>1, <2>8 DEF SinceRead
    <3> QED BY <2>2, <2>3, <1>8, <3>1, <3>2 DEF SinceRead, AfterLock, KeepsCancel
  <2>9. \A f \in Ours : ~LosesFinalize(f)
    BY <1>1, <1>8 DEF LosesFinalize, RowInv, Found, DraftsOK
  <2>10. Good(row') /\ CancelStep
    BY <1>8, <2>2, CancelStays DEF KeepsCancel
  <2> QED BY <1>1, <1>2, <2>6, <2>8, <2>9, <2>10, CommandStep
<1>9. CASE d = A /\ row # NoRow /\ row' = [row EXCEPT !.abort = FALSE]
  <2>1. /\ Good(row') /\ row' # NoRow /\ row'.state = row.state /\ row'.final = row.final
        /\ row'.lock = row.lock /\ row'.cancelDraft = row.cancelDraft
    <3>1. GoodRow(row) /\ row # NoRow /\ FALSE \in BOOLEAN
      BY <1>5, <1>9
    <3>2. row' = [row EXCEPT !.abort = FALSE]
      BY <1>9
    <3>3. LET n == [row EXCEPT !.abort = FALSE]
          IN  /\ Keeps(row, n) /\ n.state = row.state /\ n.final = row.final /\ n.lock = row.lock
              /\ n.cancelDraft = row.cancelDraft
      BY <3>1, AbortNoted
    <3>4. Keeps(row, row')
      BY <3>2, <3>3
    <3>5. Good(row') /\ row' # NoRow
      BY <3>1, <3>4 DEF Keeps
    <3> QED BY <3>2, <3>3, <3>5
  <2> QED BY <1>1, <1>2, <1>4, <1>9, <2>1, RowBarely
<1>10. CASE row # NoRow /\ row.cancelDraft = d /\ row' = Uncancel(row, UncancelTarget(row)) /\ row' # row
  <2> DEFINE to == UncancelTarget(row)
  <2>1. to \in {"listed", "restored"} /\ (to = "restored" => row.final = None)
    BY <1>5, <1>10 DEF UncancelTarget, GoodRow
  <2>2. KeepsFinal(row, row')
    BY <1>10, <2>1, WritesOfCancel DEF RowInv, Found
  <2>3. row.state = "cancelling" /\ row' = [row EXCEPT !.state = to, !.cancelDraft = None, !.cancel = None,
                                               !.out = FALSE, !.count = "null"]
    BY <1>10 DEF Uncancel, Moved, From
  <2>4. /\ row'.state = to /\ row'.cancelDraft = None /\ row'.lock = row.lock
        /\ row' # NoRow /\ row'.final = row.final
    BY <1>5, <1>10, <2>2, <2>3 DEF RowSet, KeepsFinal
  <2> HIDE DEF to
  <2>5. Good(row') /\ Passed(row', drafts')
    BY <1>10, <2>2, <2>4 DEF KeepsFinal, Passed
  <2>6. row.lock \in Locks
    BY <1>5, <1>10, <2>3 DEF GoodRow, AfterLock
  <2>8. ASSUME NEW l, SinceRead(l) PROVE SinceRead(l)'
    <3>1. l.state # "finalizing"
      BY <2>3, <2>8 DEF SinceRead
    <3>2. l.state = "cancelling" => l.cancelDraft \in OurPaths /\ drafts'[l.cancelDraft] = "deleted"
      BY <1>2, <1>10, <2>8 DEF SinceRead
    <3> QED BY <2>1, <2>3, <2>4, <2>8, <3>1, <3>2 DEF SinceRead, AfterLock
  <2>9. \A f \in Ours : ~LosesFinalize(f)
    BY <2>4 DEF LosesFinalize
  <2>10. CancelStep
    BY <1>1, <1>2, <1>10 DEF CancelStep, LosesCancel
  <2> QED BY <1>1, <1>2, <2>5, <2>8, <2>9, <2>10, CommandStep
<1>11. CASE row # NoRow /\ row.home = d /\ row' = RevertCancelFinalize(row, d) /\ row' # row
  <2>1. Keeps(row, row')
    BY <1>11, WritesOfCancel DEF RowInv, Found
  <2>2. row.state = "cancel_finalizing" /\ row' = [row EXCEPT !.state = "cancel_awaiting_finalize", !.home = None]
    BY <1>11 DEF RevertCancelFinalize, Moved, From
  <2>3. /\ row'.state = "cancel_awaiting_finalize" /\ row'.final = row.final /\ row'.lock = row.lock
        /\ row'.cancelDraft = row.cancelDraft /\ row' # NoRow
    BY <1>5, <1>11, <2>1, <2>2 DEF RowSet, Keeps
  <2> QED BY <1>1, <1>2, <1>4, <1>11, <2>1, <2>2, <2>3, MovesPastLock DEF AfterLock, CancelMinedStates
<1> QED BY <1>6, <1>7, <1>8, <1>9, <1>10, <1>11 DEF Discard

LEMMA StillStep ==
    RowInv /\ (World \/ UNCHANGED vars \/ Refused \/ AbortPrompt \/ CancelPrompt \/ HomePrompt) => StepOK
<1>1. World \/ UNCHANGED vars \/ Refused \/ AbortPrompt \/ CancelPrompt \/ HomePrompt
        => UNCHANGED <<row, drafts, job>>
  BY DEF World, vars, listingVars, Refused, AbortPrompt, CancelPrompt, HomePrompt, Prompt
<1> QED BY <1>1, NothingWritten

LEMMA RowNext == RowInv /\ [Next]_vars => StepOK
<1> SUFFICES ASSUME RowInv, [Next]_vars PROVE StepOK
  OBVIOUS
<1>1. CASE World \/ UNCHANGED vars \/ Refused \/ AbortPrompt \/ CancelPrompt \/ HomePrompt
  BY <1>1, StillStep
<1>2. CASE Job \/ JobFails
  BY <1>2, JobStartStep, JobFirstStep, JobRestStep, JobTailStep, JobFailsStep DEF Job
<1>3. CASE LockName \/ RestoreByName \/ UpgradeByFile \/ AbortStore
  BY <1>3, LockNameStep, RestoreByNameStep, UpgradeByFileStep, AbortStoreStep
<1>4. ASSUME NEW f \in Ours, FinalizePrompt(f) PROVE StepOK
  BY <1>4, NothingWritten DEF FinalizePrompt, Prompt
<1>5. ASSUME NEW f \in Ours, FinalizeStore(f) PROVE StepOK
  BY <1>5, FinalizeStoreStep
<1>6. ASSUME NEW l \in Locks, CancelStore(l) PROVE StepOK
  BY <1>6, CancelStoreStep
<1>7. ASSUME NEW c \in MinedCancels, HomeStore(c) PROVE StepOK
  BY <1>7, HomeStoreStep
<1>8. ASSUME NEW d \in OurPaths, Send(d) \/ Poll(d) PROVE StepOK
  BY <1>8, SendStep
<1>9. ASSUME NEW d \in OurPaths, Discard(d) PROVE StepOK
  BY <1>9, DiscardStep
<1> QED BY <1>1, <1>2, <1>3, <1>4, <1>5, <1>6, <1>7, <1>8, <1>9 DEF Next, Commands

-----------------------------------------------------------------------------
(* The commands that wait, and the lock coins recorded as signed over.     *)

Waiting == [what : {"finalize", "abort", "cancel", "home"}, path : Locks \cup {A} \cup MinedCancels]

WaitingOK ==
    /\ cmds \in Seq(Waiting) /\ Len(cmds) <= MaxPrompts
    /\ signed \subseteq Locks

LEMMA OneLess ==
    ASSUME NEW i \in DOMAIN cmds, cmds \in Seq(Waiting)
    PROVE  Without(i) \in Seq(Waiting) /\ Len(Without(i)) = Len(cmds) - 1
<1> DEFINE before == SubSeq(cmds, 1, i - 1)
           after == SubSeq(cmds, i + 1, Len(cmds))
<1>1. i \in 1 .. Len(cmds) /\ Len(cmds) \in Nat
  BY LenProperties
<1>2. \A j \in 1 .. Len(cmds) : cmds[j] \in Waiting
  BY ElementOfSeq
<1>3. before \in Seq(Waiting) /\ Len(before) = i - 1
  <2>1. 1 \in Int /\ i - 1 \in Int /\ \A j \in 1 .. i - 1 : cmds[j] \in Waiting
    BY <1>1, <1>2
  <2> QED BY <1>1, <2>1, SubSeqProperties
<1>4. after \in Seq(Waiting) /\ Len(after) = Len(cmds) - i
  <2>1. i + 1 \in Int /\ Len(cmds) \in Int /\ \A j \in i + 1 .. Len(cmds) : cmds[j] \in Waiting
    BY <1>1, <1>2
  <2> QED BY <1>1, <2>1, SubSeqProperties
<1>5. Without(i) = before \o after
  BY DEF Without
<1> HIDE DEF before, after
<1>6. before \o after \in Seq(Waiting) /\ Len(before \o after) = Len(before) + Len(after)
  BY <1>3, <1>4, ConcatProperties
<1> QED BY <1>1, <1>3, <1>4, <1>5, <1>6

LEMMA WaitsInit == Init => WaitingOK
BY ListingAssumption DEF Init, WaitingOK

LEMMA WaitsNext == RowInv /\ WaitingOK /\ [Next]_vars => WaitingOK'
<1> SUFFICES ASSUME RowInv, WaitingOK, [Next]_vars PROVE WaitingOK'
  OBVIOUS
<1>1. CASE UNCHANGED <<cmds, signed>>
  BY <1>1 DEF WaitingOK
<1>2. ASSUME NEW what, NEW path, Stores(what, path), signed' \subseteq Locks PROVE WaitingOK'
  BY <1>2, OneLess, ListingAssumption DEF Stores, WaitingOK
<1>3. ASSUME NEW what \in {"finalize", "abort", "cancel", "home"},
             NEW path \in Locks \cup {A} \cup MinedCancels, Prompt(what, path)
      PROVE  WaitingOK'
  <2> DEFINE cmd == [what |-> what, path |-> path]
  <2>1. cmd \in Waiting /\ cmds' = Append(cmds, cmd) /\ Len(cmds) < MaxPrompts /\ signed' = signed
    BY <1>3 DEF Prompt, Waiting
  <2> HIDE DEF cmd
  <2>2. cmds' \in Seq(Waiting) /\ Len(cmds') = Len(cmds) + 1
    BY <2>1, AppendProperties DEF WaitingOK
  <2> QED BY <2>1, <2>2, ListingAssumption, LenProperties DEF WaitingOK
<1>4. CASE World \/ Job \/ JobFails \/ LockName \/ RestoreByName \/ UNCHANGED vars
  BY <1>1, <1>4 DEF World, Job, JobFails, JobStart, JobFirst, JobRest, JobTail, LockName,
     RestoreByName, vars, listingVars
<1>5. ASSUME NEW d \in OurPaths, Send(d) \/ Poll(d) \/ Discard(d) PROVE WaitingOK'
  BY <1>1, <1>5 DEF Send, Poll, Discard
<1>6. CASE UpgradeByFile
  <2>1. Lock("there") \in Locks
    BY ListingAssumption DEF Locks
  <2> QED BY <1>6, <2>1 DEF UpgradeByFile, WaitingOK
<1>7. CASE Refused
  BY <1>7, OneLess, ListingAssumption DEF Refused, WaitingOK
<1>8. ASSUME NEW f \in Ours, FinalizePrompt(f) \/ FinalizeStore(f) PROVE WaitingOK'
  <2>1. Lock(f) \in Locks
    BY ListingAssumption DEF Locks
  <2>2. CASE FinalizePrompt(f)
    BY <1>3, <2>1, <2>2 DEF FinalizePrompt
  <2>3. CASE FinalizeStore(f)
    <3>1. signed' \subseteq Locks
      BY <2>1, <2>3 DEF FinalizeStore, WaitingOK
    <3> QED BY <1>2, <2>3, <3>1 DEF FinalizeStore
  <2> QED BY <1>8, <2>2, <2>3
<1>9. CASE AbortPrompt \/ AbortStore
  BY <1>2, <1>3, <1>9 DEF AbortPrompt, AbortStore, WaitingOK
<1>10. CASE CancelPrompt
  <2>1. row.state \in {"listed", "restored"}
    BY <1>10 DEF CancelPrompt, From
  <2>2. row.lock \in Locks
    BY <2>1 DEF RowInv, Found, Good, GoodRow, NoRow, AfterLock
  <2> QED BY <1>3, <1>10, <2>2 DEF CancelPrompt
<1>11. CASE HomePrompt
  <2>1. row.state = "cancel_awaiting_finalize" /\ row.cancel # None
    <3>1. Coin(None) = "none"
      BY DEF Coin
    <3> QED BY <1>11, <3>1 DEF HomePrompt
  <2>2. row.cancel \in MinedCancels
    BY <2>1 DEF RowInv, Found, Good, GoodRow, RowSet, NoRow
  <2> QED BY <1>3, <1>11, <2>2 DEF HomePrompt
<1>12. ASSUME NEW l \in Locks, CancelStore(l) PROVE WaitingOK'
  BY <1>2, <1>12 DEF CancelStore, WaitingOK
<1>13. ASSUME NEW c \in MinedCancels, HomeStore(c) PROVE WaitingOK'
  BY <1>2, <1>13 DEF HomeStore, WaitingOK
<1> QED
  BY <1>4, <1>5, <1>6, <1>7, <1>8, <1>9, <1>10, <1>11, <1>12, <1>13 DEF Next, Commands

-----------------------------------------------------------------------------
(* The theorems.                                                           *)

Inv == RowInv /\ WaitingOK /\ Recorded

LEMMA InvCorrect == Spec => []Inv
<1>1. Init => Inv
  BY RowInit, WaitsInit, RecordedInit DEF Inv
<1>2. Inv /\ [Next]_vars => Inv'
  BY RowNext, WaitsNext, RecordedNext DEF Inv, StepOK
<1> QED BY <1>1, <1>2, PTL DEF Spec

\* The listing's row, its drafts, the commands that wait and the job keep
\* their types through every order of commands, verdicts and reorgs.
THEOREM TypeCorrect == Spec => []TypeOK
<1>1. Inv => TypeOK
  <2> SUFFICES ASSUME Inv PROVE TypeOK
    OBVIOUS
  <2>1. row # NoRow => row \in RowSet
    BY DEF Inv, RowInv, Found, Good, GoodRow
  <2>2. drafts \in [OurPaths -> DraftStatuses] /\ signed \subseteq Locks /\ sets \in [Locks -> Nat]
        /\ Len(cmds) <= MaxPrompts /\ job.at \in {"idle", "first", "rest", "tail"}
    BY DEF Inv, RowInv, Found, DraftsOK, WaitingOK, Recorded, JobOK
  <2> QED BY <2>1, <2>2 DEF TypeOK, RowSet, Sales, OurCancelPaths, Homes
<1> QED BY <1>1, InvCorrect, PTL

\* The steps and the file of a listing are over the lock coin it follows,
\* but for a lock adopted from another device, after any number of reorgs
\* (DROP_DEAD_FINALIZE_SET).
THEOREM FileCorrect == Spec => []FileIsOfItsLock
<1>1. Inv => FileIsOfItsLock
  BY DEF Inv, RowInv, Found, Good, GoodRow, FileIsOfItsLock
<1> QED BY <1>1, InvCorrect, PTL

\* No command and no verdict of a job takes a listing off a FINALIZE into
\* the lock that may still land, unless the job read the listing with an
\* earlier one (end_before_lock, revert_listing_to_ready).
THEOREM FinalizeCorrect == Spec => FinalizeKept
<1>1. Inv /\ [Next]_vars => [\A f \in Ours : LosesFinalize(f) => OlderFinalize(f)]_vars
  BY RowNext DEF Inv, StepOK, FinalStep
<1> QED BY <1>1, InvCorrect, PTL DEF Spec, FinalizeKept

\* Nor off a Cancel of its lock coin that may still land, unless the job read
\* the listing with one the seller has deleted since (release_cancel,
\* uncancel_listing).
THEOREM CancelCorrect == Spec => CancelKept
<1>1. Inv /\ [Next]_vars => [\A c \in OurCancelPaths : LosesCancel(c) => OlderCancel(c)]_vars
  BY RowNext DEF Inv, StepOK, CancelStep
<1> QED BY <1>1, InvCorrect, PTL DEF Spec, CancelKept
=============================================================================
