--------------------------- MODULE RemindersProofs ---------------------------
(***************************************************************************)
(* No reminder goes out twice, for any episodes, any number of days and    *)
(* any coming and going of the two processes.  A reminder sent in this     *)
(* episode is still among the keys, unless it was a listing's of an        *)
(* earlier day: no scan drops a key of another writer's (merge_state) or   *)
(* of an open episode (the StillOpen keys).                                *)
(***************************************************************************)
EXTENDS Reminders, TLAPS

RemindersTyped ==
    /\ daily \subseteq Finalize
    /\ day \in Nat
    /\ stage \in [Episodes -> {"closed", "waiting", "ready"}]
    /\ \A e \in Own : stage[e] # "waiting"
    /\ app.day \in Nat /\ app.day <= day
    /\ claimed \subseteq Episodes \X Nat
    /\ told \subseteq Episodes \X Nat

\* What is known of a reminder sent since its episode opened.
SentOf(e, n) ==
    /\ stage[e] # "closed"
    /\ e \notin daily => n = 0
    /\ n <= day
    /\ <<e, n>> \in claimed \/ (e \in daily /\ (n < day \/ late))

Noted == \A e \in Episodes, n \in Nat : <<e, n>> \in told => SentOf(e, n)

RemindersInv == RemindersTyped /\ Noted

LEMMA DayOfIs ==
  ASSUME NEW e, NEW d \in Nat
  PROVE  /\ DayOf(e, d) \in Nat
         /\ e \in daily => DayOf(e, d) = d
         /\ e \notin daily => DayOf(e, d) = 0
BY DEF DayOf

LEMMA RemindersInitHolds == RemindersInit => RemindersInv
<1> SUFFICES ASSUME RemindersInit PROVE RemindersInv
  OBVIOUS
<1>1. stage \in [Episodes -> {"closed", "waiting", "ready"}] /\ \A e \in Own : stage[e] # "waiting"
  BY DEF RemindersInit, Episodes
<1>2. app.day = 0
  BY DEF RemindersInit, Gone, Resting
<1>. QED
  BY <1>1, <1>2 DEF RemindersInit, RemindersInv, RemindersTyped, Noted

-----------------------------------------------------------------------------
(* The claim.                                                              *)

\* The two ways a claim is made: the app's own on the pass's day, and the
\* finalize reminders on a day that is today or marks the claim as late.
ClaimOf(mine, d) ==
    /\ d \in Nat /\ d <= day
    /\ \/ mine = Own /\ UNCHANGED late
       \/ mine = Finalize /\ late' = (late \/ d # day)
    /\ Claim(mine, d)
    /\ UNCHANGED <<daily, stage, day>>

\* A key is added only as one that is due.
LEMMA AddedIsDue ==
  ASSUME RemindersTyped, NEW mine, NEW d, ClaimOf(mine, d), NEW k \in claimed' \ claimed
  PROVE  \E e \in mine : stage[e] = "ready" /\ k = <<e, DayOf(e, d)>>
<1>1. claimed' = {x \in claimed : x[1] \notin mine} \cup (Imminent(mine, d) \cup StillOpen(mine, d))
  BY DEF ClaimOf, Claim, Merged
<1>2. StillOpen(mine, d) \subseteq claimed
  BY DEF StillOpen
<1>3. k \in Imminent(mine, d)
  BY <1>1, <1>2
<1>. QED
  BY <1>3 DEF Imminent, Key

\* A key that is sent is among the keys, or another day's of a listing.
LEMMA SentStaysClaimed ==
  ASSUME RemindersInv, NEW mine, NEW d, ClaimOf(mine, d),
         NEW e \in Episodes, NEW n \in Nat, <<e, n>> \in told
  PROVE  <<e, n>> \in claimed' \/ (e \in daily /\ (n < day \/ late'))
<1>. USE RemindersAssumption
<1>1. SentOf(e, n)
  BY DEF RemindersInv, Noted
<1>2. claimed' = {x \in claimed : x[1] \notin mine} \cup (Imminent(mine, d) \cup StillOpen(mine, d))
  BY DEF ClaimOf, Claim, Merged
<1>3. late => late'
  BY DEF ClaimOf
<1>4. d \in Nat /\ d <= day /\ day \in Nat
  BY DEF ClaimOf, RemindersInv, RemindersTyped
<1>5. CASE <<e, n>> \notin claimed
  BY <1>1, <1>3, <1>5 DEF SentOf
<1>6. CASE <<e, n>> \in claimed /\ e \notin mine
  <2>1. <<e, n>>[1] = e
    OBVIOUS
  <2>. QED
    BY <1>2, <1>6, <2>1
<1>7. CASE <<e, n>> \in claimed /\ e \in mine /\ n = DayOf(e, d)
  <2>1. CASE e \in Finalize
    <3>1. e \in {f \in mine \cap Finalize : stage[f] # "closed"}
      BY <1>1, <1>7, <2>1 DEF SentOf
    <3>2. <<e, n>> \in StillOpen(mine, d)
      BY <3>1, <1>7 DEF StillOpen, Key
    <3>. QED
      BY <3>2, <1>2
  <2>2. CASE e \in Own
    <3>1. stage[e] = "ready"
      BY <1>1, <2>2 DEF SentOf, RemindersInv, RemindersTyped
    <3>2. <<e, n>> \in Imminent(mine, d)
      BY <3>1, <1>7 DEF Imminent, Key
    <3>. QED
      BY <3>2, <1>2
  <2>. QED
    BY <2>1, <2>2 DEF Episodes
<1>8. CASE <<e, n>> \in claimed /\ e \in mine /\ n # DayOf(e, d)
  <2>1. e \in daily /\ n # d
    BY <1>1, <1>8, <1>4, DayOfIs DEF SentOf
  <2>2. mine = Finalize
    BY <2>1, <1>8 DEF ClaimOf, RemindersInv, RemindersTyped
  <2>3. d = day => n < day
    BY <1>1, <1>4, <2>1 DEF SentOf
  <2>4. d # day => late'
    BY <2>2, <1>8 DEF ClaimOf, RemindersInv, RemindersTyped
  <2>. QED
    BY <2>1, <2>3, <2>4
<1>. QED
  BY <1>5, <1>6, <1>7, <1>8

LEMMA ClaimHolds ==
  ASSUME RemindersInv, NEW mine, NEW d, ClaimOf(mine, d), app'.day \in Nat, app'.day <= day
  PROVE  RemindersInv'
<1>. DEFINE due == {e \in mine : Key(e, d) \in Imminent(mine, d) \ claimed}
<1>1. mine \subseteq Episodes /\ d \in Nat /\ d <= day
  BY DEF ClaimOf, Episodes
<1>2. told' = told \cup {<<e, DayOf(e, d)>> : e \in due}
  BY DEF ClaimOf, Claim
<1>3. \A e \in due : stage[e] = "ready" /\ Key(e, d) \in claimed'
  <2>. SUFFICES ASSUME NEW e \in due PROVE stage[e] = "ready" /\ Key(e, d) \in claimed'
    OBVIOUS
  <2>1. PICK f \in mine : stage[f] = "ready" /\ Key(e, d) = Key(f, d)
    BY DEF Imminent
  <2>2. e = f
    BY <2>1 DEF Key
  <2>3. Key(e, d) \in claimed'
    BY DEF ClaimOf, Claim, Merged
  <2>. QED
    BY <2>1, <2>2, <2>3
<1>4. claimed' \subseteq Episodes \X Nat
  <2>. SUFFICES ASSUME NEW k \in claimed', k \notin claimed PROVE k \in Episodes \X Nat
    BY DEF RemindersInv, RemindersTyped
  <2>1. PICK e \in mine : k = <<e, DayOf(e, d)>>
    BY AddedIsDue DEF RemindersInv
  <2>. QED
    BY <2>1, <1>1, DayOfIs
<1>5. told' \subseteq Episodes \X Nat
  BY <1>1, <1>2, DayOfIs DEF RemindersInv, RemindersTyped
<1>6. RemindersTyped'
  BY <1>4, <1>5 DEF ClaimOf, RemindersInv, RemindersTyped
<1>7. ASSUME NEW e \in Episodes, NEW n \in Nat, <<e, n>> \in told' PROVE SentOf(e, n)'
  <2>0. UNCHANGED <<daily, stage, day>>
    BY DEF ClaimOf
  <2>1. CASE <<e, n>> \in told
    <3>1. SentOf(e, n)
      BY <2>1 DEF RemindersInv, Noted
    <3>2. <<e, n>> \in claimed' \/ (e \in daily /\ (n < day \/ late'))
      BY <2>1, SentStaysClaimed
    <3>. QED
      BY <2>0, <3>1, <3>2 DEF SentOf
  <2>2. CASE <<e, n>> \notin told
    <3>1. e \in due /\ n = DayOf(e, d)
      BY <2>2, <1>2, <1>7
    <3>2. stage[e] = "ready" /\ <<e, n>> \in claimed'
      BY <1>3, <3>1 DEF Key
    <3>3. n <= day /\ (e \notin daily => n = 0)
      BY <3>1, <1>1, DayOfIs DEF RemindersInv, RemindersTyped
    <3>. QED
      BY <2>0, <3>2, <3>3 DEF SentOf
  <2>. QED
    BY <2>1, <2>2
<1>. QED
  BY <1>6, <1>7 DEF RemindersInv, Noted

-----------------------------------------------------------------------------
(* The steps.                                                              *)

\* The steps that claim nothing and leave the rows alone.
Quiet ==
    /\ UNCHANGED <<daily, stage, claimed, told, late>>
    /\ day' \in Nat /\ day <= day'
    /\ app'.day \in Nat /\ app'.day <= day'

LEMMA QuietHolds == ASSUME RemindersInv, Quiet PROVE RemindersInv'
<1>1. RemindersTyped'
  BY DEF RemindersInv, RemindersTyped, Quiet
<1>2. ASSUME NEW e \in Episodes, NEW n \in Nat, <<e, n>> \in told' PROVE SentOf(e, n)'
  <2>1. SentOf(e, n)
    BY <1>2 DEF RemindersInv, Noted, Quiet
  <2>. QED
    BY <2>1 DEF Quiet, SentOf, RemindersInv, RemindersTyped
<1>. QED
  BY <1>1, <1>2 DEF RemindersInv, Noted

\* Every step is a claim, is quiet, or opens or closes an episode.
LEMMA StepsOf ==
  ASSUME RemindersInv, [RemindersNext]_remindVars
  PROVE  \/ Quiet
         \/ \E mine, d : ClaimOf(mine, d) /\ app'.day \in Nat /\ app'.day <= day
         \/ \E e \in Episodes : Opens(e) \/ Closes(e)
<1>. USE DEF RemindersInv, RemindersTyped
<1>1. CASE Toggle \/ BeatAges \/ DaemonStarts \/ DaemonDies \/ DaemonBeats
  BY <1>1 DEF Toggle, BeatAges, DaemonStarts, DaemonDies, DaemonBeats, stored, history, fixed, Quiet
<1>2. CASE Midnight
  BY <1>2 DEF Midnight, stored, history, fixed, Quiet
<1>3. CASE AppStarts \/ AppDies
  <2>1. app'.day = 0
    BY <1>3 DEF AppStarts, AppDies, Gone, Resting
  <2>. QED
    BY <1>3, <2>1 DEF AppStarts, AppDies, stored, history, fixed, Quiet
<1>4. CASE AppBegins
  <2>1. app'.day = day
    BY <1>4 DEF AppBegins
  <2>. QED
    BY <1>4, <2>1 DEF AppBegins, stored, history, fixed, Quiet
<1>5. CASE DaemonClaims
  <2>1. CASE on
    <3>1. ClaimOf(Finalize, day)
      BY <1>5, <2>1 DEF DaemonClaims, DeliverFinalize, ClaimOf, fixed
    <3>. QED
      BY <3>1, <1>5 DEF DaemonClaims
  <2>2. CASE ~on
    BY <1>5, <2>2 DEF DaemonClaims, DeliverFinalize, history, fixed, Quiet
  <2>. QED
    BY <2>1, <2>2
<1>6. CASE AppClaimsOwn
  <2>1. ClaimOf(Own, app.day)
    BY <1>6 DEF AppClaimsOwn, ClaimOf, fixed
  <2>2. app'.day = 0 \/ app'.day = app.day
    BY <1>6 DEF AppClaimsOwn, Resting
  <2>. QED
    BY <2>1, <2>2
<1>7. CASE AppClaimsFinalize
  <2>1. app'.day = 0
    BY <1>7 DEF AppClaimsFinalize, Resting
  <2>2. CASE on
    <3>1. ClaimOf(Finalize, app.day)
      BY <1>7, <2>2 DEF AppClaimsFinalize, DeliverFinalize, ClaimOf, fixed
    <3>. QED
      BY <3>1, <2>1
  <2>3. CASE ~on
    BY <1>7, <2>1, <2>3 DEF AppClaimsFinalize, DeliverFinalize, history, fixed, Quiet
  <2>. QED
    BY <2>2, <2>3
<1>8. CASE UNCHANGED remindVars
  BY <1>8 DEF remindVars, stored, history, fixed, Quiet
<1>. QED
  BY <1>1, <1>2, <1>3, <1>4, <1>5, <1>6, <1>7, <1>8 DEF RemindersNext, DaemonStep, AppPass

LEMMA RemindersNextHolds == RemindersInv /\ [RemindersNext]_remindVars => RemindersInv'
<1> SUFFICES ASSUME RemindersInv, [RemindersNext]_remindVars PROVE RemindersInv'
  OBVIOUS
<1>1. ASSUME NEW e \in Episodes, Opens(e) PROVE RemindersInv'
  <2>1. UNCHANGED <<daily, day, app, claimed, told, late>>
    BY <1>1 DEF Opens, fixed, stored, history
  <2>2. PICK s \in StagesOf(e) \ {"closed", stage[e]} : stage' = [stage EXCEPT ![e] = s]
    BY <1>1 DEF Opens
  <2>3. s \in {"waiting", "ready"} /\ (e \in Own => s = "ready")
    BY <2>2 DEF StagesOf
  <2>4. RemindersTyped'
    BY <2>1, <2>2, <2>3 DEF RemindersInv, RemindersTyped
  <2>5. Noted'
    BY <2>1, <2>2, <2>3 DEF RemindersInv, RemindersTyped, Noted, SentOf
  <2>. QED
    BY <2>4, <2>5 DEF RemindersInv
<1>2. ASSUME NEW e \in Episodes, Closes(e) PROVE RemindersInv'
  <2>1. /\ UNCHANGED <<daily, day, app, claimed, late>>
        /\ stage' = [stage EXCEPT ![e] = "closed"]
        /\ told' = {k \in told : k[1] # e}
    BY <1>2 DEF Closes, fixed, stored, history
  <2>2. RemindersTyped'
    BY <2>1 DEF RemindersInv, RemindersTyped
  <2>3. ASSUME NEW f \in Episodes, NEW n \in Nat, <<f, n>> \in told' PROVE SentOf(f, n)'
    <3>1. f # e /\ <<f, n>> \in told
      BY <2>1, <2>3
    <3>2. SentOf(f, n) /\ stage'[f] = stage[f]
      BY <2>1, <3>1 DEF RemindersInv, RemindersTyped, Noted
    <3>. QED
      BY <2>1, <3>2 DEF SentOf
  <2>. QED
    BY <2>2, <2>3 DEF RemindersInv, Noted
<1>. QED
  BY <1>1, <1>2, StepsOf, QuietHolds, ClaimHolds

\* A step that adds a key that was sent before is a listing's, and late.
LEMMA StepSendsOnce ==
  ASSUME RemindersInv, [RemindersNext]_remindVars, NEW k \in claimed' \ claimed, k \in told
  PROVE  k[1] \in daily /\ late'
<1>1. CASE Quiet \/ \E e \in Episodes : Opens(e) \/ Closes(e)
  BY <1>1 DEF Quiet, Opens, Closes, stored
<1>2. ASSUME NEW mine, NEW d, ClaimOf(mine, d) PROVE k[1] \in daily /\ late'
  <2>1. PICK e \in mine : stage[e] = "ready" /\ k = <<e, DayOf(e, d)>>
    BY <1>2, AddedIsDue DEF RemindersInv
  <2>2. e \in Episodes /\ d \in Nat /\ d <= day /\ day \in Nat
    BY <1>2 DEF ClaimOf, Episodes, RemindersInv, RemindersTyped
  <2>3. SentOf(e, DayOf(e, d))
    BY <2>1, <2>2, DayOfIs DEF RemindersInv, Noted
  <2>4. e \in daily /\ (DayOf(e, d) < day \/ late)
    BY <2>1, <2>3 DEF SentOf
  <2>5. mine = Finalize
    BY <1>2, <2>4, RemindersAssumption DEF ClaimOf, RemindersInv, RemindersTyped
  <2>6. late \/ d # day => late'
    BY <1>2, <2>5, RemindersAssumption, <2>4 DEF ClaimOf, RemindersInv, RemindersTyped
  <2>7. DayOf(e, d) < day => d # day
    BY <2>2, <2>4, DayOfIs
  <2>8. k[1] = e
    BY <2>1
  <2>. QED
    BY <2>4, <2>6, <2>7, <2>8
<1>. QED
  BY <1>1, <1>2, StepsOf

-----------------------------------------------------------------------------
(* The types.                                                              *)

\* The reminders there may ever be.
Keys == {<<e, DayOf(e, d)>> : e \in Episodes, d \in 1..LastDay}

\* A pass that has begun has its day.
PassHasDay == app.at \in {"asked", "own"} => app.day \in 1..LastDay

Passes == [at : {"down", "idle", "asked", "own"}, leaves : BOOLEAN, day : 0..LastDay]

LEMMA NoPass ==
  /\ Gone \in Passes /\ Gone.at = "down"
  /\ Resting \in Passes /\ Resting.at = "idle"
<1>1. 0 \in 0..LastDay
  BY RemindersAssumption
<1>2. Resting \in Passes /\ Resting.at = "idle"
  BY <1>1 DEF Resting, Passes
<1>3. Gone = [Resting EXCEPT !.at = "down"]
  BY DEF Gone
<1>. QED
  BY <1>2, <1>3 DEF Passes

LEMMA ClaimTypes ==
  ASSUME NEW mine \in {Own, Finalize}, NEW d \in 1..LastDay, Claim(mine, d),
         claimed \subseteq Keys, told \subseteq Keys, unseen \subseteq Episodes,
         UNCHANGED daily
  PROVE  claimed' \subseteq Keys' /\ told' \subseteq Keys' /\ unseen' \subseteq Episodes
<1>1. mine \subseteq Episodes /\ Keys' = Keys
  BY DEF Episodes, Keys, DayOf
<1>2. Imminent(mine, d) \subseteq Keys
  BY <1>1 DEF Imminent, Key, Keys
<1>3. StillOpen(mine, d) \subseteq claimed
  BY DEF StillOpen
<1>4. {<<e, DayOf(e, d)>> : e \in {e \in mine : Key(e, d) \in Imminent(mine, d) \ claimed}} \subseteq Keys
  BY <1>1 DEF Keys
<1>. QED
  BY <1>1, <1>2, <1>3, <1>4 DEF Claim, Merged

LEMMA RemindersTypesHold ==
  RemindersInv /\ RemindersTypeOK /\ PassHasDay /\ [RemindersNext]_remindVars
    => RemindersTypeOK' /\ PassHasDay'
<1> SUFFICES ASSUME RemindersInv, RemindersTypeOK, PassHasDay, [RemindersNext]_remindVars
             PROVE  RemindersTypeOK' /\ PassHasDay'
  OBVIOUS
<1>. USE RemindersAssumption DEF RemindersTypeOK, PassHasDay
<1>1. CASE DaemonStarts \/ DaemonDies \/ UNCHANGED remindVars
  BY <1>1 DEF DaemonStarts, DaemonDies, remindVars, stored, history, fixed, DayOf
<1>10. CASE Toggle
  <2>1. on' \in BOOLEAN
    BY <1>10 DEF Toggle
  <2>. QED
    BY <1>10, <2>1 DEF Toggle, stored, history, fixed, DayOf
<1>9. CASE BeatAges \/ DaemonBeats
  <2>1. beatAge' \in 0..Fresh
    BY <1>9 DEF BeatAges, DaemonBeats
  <2>. QED
    BY <1>9, <2>1 DEF BeatAges, DaemonBeats, stored, history, fixed, DayOf
<1>2. CASE Midnight
  BY <1>2 DEF Midnight, stored, history, fixed, DayOf
<1>3. CASE AppStarts \/ AppDies \/ AppBegins
  <2>1. CASE AppStarts \/ AppDies
    <3>1. app' \in Passes /\ PassHasDay'
      BY <2>1, NoPass DEF AppStarts, AppDies
    <3>. QED
      BY <2>1, <3>1 DEF AppStarts, AppDies, stored, history, fixed, DayOf, Passes
  <2>2. CASE AppBegins
    <3>1. DaemonFresh \in BOOLEAN
      BY DEF DaemonFresh
    <3>2. app' \in Passes /\ PassHasDay'
      BY <2>2, <3>1 DEF AppBegins, Passes
    <3>. QED
      BY <2>2, <3>2 DEF AppBegins, stored, history, fixed, DayOf, Passes
  <2>. QED
    BY <1>3, <2>1, <2>2
<1>4. ASSUME NEW e \in Episodes, Opens(e) PROVE RemindersTypeOK' /\ PassHasDay'
  BY <1>4 DEF Opens, stored, history, fixed, DayOf, RemindersInv, RemindersTyped
<1>5. ASSUME NEW e \in Episodes, Closes(e) PROVE RemindersTypeOK' /\ PassHasDay'
  BY <1>5 DEF Closes, stored, history, fixed, DayOf, StagesOf, RemindersInv, RemindersTyped
<1>6. CASE DaemonClaims
  <2>1. CASE on
    BY <1>6, <2>1, ClaimTypes DEF DaemonClaims, DeliverFinalize, fixed, Keys
  <2>. QED
    BY <1>6, <2>1 DEF DaemonClaims, DeliverFinalize, fixed, history, DayOf
<1>7. CASE AppClaimsOwn
  <2>1. app' \in Passes /\ PassHasDay'
    BY <1>7, NoPass DEF AppClaimsOwn, Passes
  <2>. QED
    BY <1>7, <2>1, ClaimTypes DEF AppClaimsOwn, fixed, Keys, Passes
<1>8. CASE AppClaimsFinalize
  <2>1. app' \in Passes /\ PassHasDay'
    BY <1>8, NoPass DEF AppClaimsFinalize
  <2>2. CASE on
    BY <1>8, <2>1, <2>2, ClaimTypes DEF AppClaimsFinalize, DeliverFinalize, fixed, Keys, Passes
  <2>. QED
    BY <1>8, <2>1, <2>2 DEF AppClaimsFinalize, DeliverFinalize, fixed, history, DayOf, Passes
<1>. HIDE DEF RemindersTypeOK, PassHasDay
<1>. QED
  BY <1>1, <1>2, <1>3, <1>4, <1>5, <1>6, <1>7, <1>8, <1>9, <1>10 DEF RemindersNext, DaemonStep, AppPass

LEMMA RemindersTypesStart == RemindersInit => RemindersTypeOK /\ PassHasDay
<1> SUFFICES ASSUME RemindersInit PROVE RemindersTypeOK /\ PassHasDay
  OBVIOUS
<1>. USE RemindersAssumption
<1>1. app.at = "down" /\ app \in Passes
  BY NoPass DEF RemindersInit
<1>2. \A e \in Episodes : stage[e] \in StagesOf(e)
  BY DEF RemindersInit, StagesOf
<1>3. on \in BOOLEAN /\ late \in BOOLEAN
  BY DEF RemindersInit
<1>. QED
  BY <1>1, <1>2, <1>3 DEF RemindersInit, RemindersTypeOK, PassHasDay, Passes

-----------------------------------------------------------------------------
\* What the steps alone guarantee: no fairness is needed.
RemindersSteps == RemindersInit /\ [][RemindersNext]_remindVars

LEMMA RemindersTypesKept == RemindersSteps => []RemindersTypeOK
<1>1. RemindersInit => RemindersInv /\ RemindersTypeOK /\ PassHasDay
  BY RemindersInitHolds, RemindersTypesStart
<1>2. RemindersInv /\ RemindersTypeOK /\ PassHasDay /\ [RemindersNext]_remindVars
        => (RemindersInv /\ RemindersTypeOK /\ PassHasDay)'
  BY RemindersNextHolds, RemindersTypesHold
<1>. QED
  BY <1>1, <1>2, PTL DEF RemindersSteps

LEMMA RemindersSentOnce == RemindersSteps => SentOnce
<1>1. RemindersInv /\ [RemindersNext]_remindVars =>
        [\A k \in claimed' \ claimed : k \in told => k[1] \in daily /\ late']_remindVars
  BY StepSendsOnce
<1>. QED
  BY <1>1, RemindersInitHolds, RemindersNextHolds, PTL DEF RemindersSteps, SentOnce

\* No reminder is sent twice in an episode, or for a listing twice for a day,
\* except by a pass of an earlier day.
THEOREM SentOnceCorrect == RemindersSpec => SentOnce
BY RemindersSentOnce, PTL DEF RemindersSpec, RemindersSteps
=============================================================================
