--------------------------- MODULE TxDraftsProofs ---------------------------
(***************************************************************************)
(* What holds of transaction drafts whatever the drafts, the coins and the *)
(* bounds.                                                                 *)
(***************************************************************************)
EXTENDS TxDrafts, TLAPS

-----------------------------------------------------------------------------
(* Type correctness.                                                       *)

\* The chain moves within its types, whatever event it is.
LEMMA ChainTypes ==
    ASSUME ChainTypeOK, ChainNext
    PROVE  ChainTypeOK'
  <1>1. ASSUME NEW t \in Drafts, Mine(t)
        PROVE  ChainTypeOK'
    BY <1>1 DEF ChainTypeOK, Mine, Without
  <1>2. ASSUME NEW t \in Drafts, Bury(t)
        PROVE  ChainTypeOK'
    BY <1>2 DEF ChainTypeOK, Bury
  <1>3. ASSUME NEW t \in Drafts, Reorg(t)
        PROVE  ChainTypeOK'
    BY <1>3 DEF ChainTypeOK, Reorg, Fault
  <1>4. ASSUME NEW t \in Drafts, Evict(t)
        PROVE  ChainTypeOK'
    BY <1>4 DEF ChainTypeOK, Evict, Fault
  <1>5. ASSUME NEW t \in Drafts, RelayAgain(t)
        PROVE  ChainTypeOK'
    BY <1>5 DEF ChainTypeOK, RelayAgain, Fault
  <1>6. ASSUME NEW c \in Coins, SpendElsewhere(c)
        PROVE  ChainTypeOK'
    BY <1>6 DEF ChainTypeOK, SpendElsewhere, Fault, Without
  <1>7. ASSUME NEW c \in Coins, UnspendElsewhere(c)
        PROVE  ChainTypeOK'
    BY <1>7 DEF ChainTypeOK, UnspendElsewhere, Fault
  <1> QED
    BY <1>1, <1>2, <1>3, <1>4, <1>5, <1>6, <1>7 DEF ChainNext

\* Writing a status leaves the rows within their types.
LEMMA SetStatusTypes ==
    ASSUME TypeOK, NEW ds, NEW to, SetStatus(ds, to),
           \A d \in Drafts : d \in ds /\ Exists(d) => to[d] \in Status
    PROVE  /\ status' \in [Drafts -> Status]
           /\ idle' \in [Drafts -> 0..Watch]
           /\ height' \in [Drafts -> Heights]
  <1>1. height' \in [Drafts -> Heights]
    <2>1. \A d, t, late : HeightWritten(d, t, late) \in Heights
      BY DEF HeightWritten, Heights
    <2> DEFINE hit == {d \in ds : Exists(d)}
    <2>2. PICK late : height' = [d \in Drafts |->
                                   IF d \in hit THEN HeightWritten(d, to[d], d \in late)
                                   ELSE height[d]]
      BY DEF SetStatus
    <2> QED
      BY <2>1, <2>2 DEF TypeOK
  <1> QED
    BY <1>1, DraftsAssumption DEF TypeOK, SetStatus

\* Releasing reservations leaves them within their type.
LEMMA ReleaseTypes ==
    ASSUME TypeOK, NEW ds, Release(ds)
    PROVE  reservedBy' \in [Coins -> Drafts \cup {None}]
  BY DEF TypeOK, Release

\* What a verdict writes is a status.
LEMMA StatusAfterTypes ==
    ASSUME TypeOK, NEW d \in Drafts
    PROVE  StatusAfter(d) \in Status
  BY DEF TypeOK, StatusAfter, Status, Unsent, Reached, GivenUp, NoRow

\* Rows, reservations, commands and jobs keep their types: the columns hold
\* the values the code declares, whatever races them.
THEOREM TypeCorrect == Spec => []TypeOK
  <1> USE DraftsAssumption
  <1>1. Init => TypeOK
    BY ChainAssumption DEF Init, TypeOK, ChainInit, ChainTypeOK, Status, NoRow, Sending, Heights
  <1>2. TypeOK /\ [Next]_vars => TypeOK'
    <2> SUFFICES ASSUME TypeOK, [Next]_vars
                 PROVE  TypeOK'
      OBVIOUS
    <2>1. ASSUME NEW d \in Drafts, Build(d)
          PROVE  TypeOK'
      BY <2>1 DEF TypeOK, ChainTypeOK, Build, Claim, Spendable, chainVars, commandVars, jobVars, Status, Unsent
    <2>2. CASE Estimate
      BY <2>2, ReleaseTypes DEF TypeOK, ChainTypeOK, Estimate, chainVars, rowVars, commandVars, jobVars
    <2>3. ASSUME NEW d \in Drafts, Delete(d)
          PROVE  TypeOK'
      BY <2>3, ReleaseTypes DEF TypeOK, ChainTypeOK, Delete, chainVars, commandVars, jobVars, Status, NoRow
    <2>4. ASSUME NEW d \in Drafts, ReleaseReservation(d)
          PROVE  TypeOK'
      BY <2>4, ReleaseTypes
         DEF TypeOK, ChainTypeOK, ReleaseReservation, chainVars, rowVars, commandVars, jobVars
    <2>5. ASSUME NEW d \in Drafts, SignLoad(d)
          PROVE  TypeOK'
      BY <2>5 DEF TypeOK, ChainTypeOK, SignLoad, StillReserved, chainVars, rowVars, coinVars, jobVars
    <2>6. ASSUME NEW d \in Drafts, SignStore(d)
          PROVE  TypeOK'
      BY <2>6, SetStatusTypes
         DEF TypeOK, ChainTypeOK, SignStore, chainVars, coinVars, jobVars, Status, Unsent
    <2>7. ASSUME NEW d \in Drafts, SignRefused(d)
          PROVE  TypeOK'
      BY <2>7 DEF TypeOK, ChainTypeOK, SignRefused, chainVars, rowVars, coinVars, jobVars
    <2>8. ASSUME NEW d \in Drafts, SendLoad(d) \/ SendGated(d)
          PROVE  TypeOK'
      BY <2>8 DEF TypeOK, ChainTypeOK, SendLoad, SendGated, To, Sending,
                  chainVars, rowVars, coinVars, jobVars
    <2>9. ASSUME NEW d \in Drafts, SubmitDelivered(d)
          PROVE  TypeOK'
      BY <2>9 DEF TypeOK, ChainTypeOK, SubmitDelivered, Submit, Deliver, To, Sending,
                  rowVars, coinVars, jobVars
    <2>10. ASSUME NEW d \in Drafts, SubmitLost(d)
           PROVE  TypeOK'
      BY <2>10 DEF TypeOK, ChainTypeOK, SubmitLost, Submit, To, Sending,
                   chainVars, rowVars, coinVars, jobVars
    <2>11. ASSUME NEW d \in Drafts, SendSettle(d)
           PROVE  TypeOK'
      <3>1. PICK s \in Outcomes(d) : SetStatus({d}, [x \in Drafts |-> s])
        BY <2>11 DEF SendSettle
      <3>2. s \in Status
        BY DEF Outcomes, Status, Reached
      <3> QED
        BY <2>11, <3>1, <3>2, SetStatusTypes
           DEF TypeOK, ChainTypeOK, SendSettle, To, Sending, chainVars, coinVars, jobVars
    <2>12. ASSUME NEW d \in Drafts, SendUnknown(d)
           PROVE  TypeOK'
      BY <2>12, SetStatusTypes
         DEF TypeOK, ChainTypeOK, SendUnknown, To, Sending, chainVars, coinVars, jobVars,
             Status, Reached
    <2>13. ASSUME NEW d \in Drafts, SendFailed(d)
           PROVE  TypeOK'
      BY <2>13, SetStatusTypes, ReleaseTypes
         DEF TypeOK, ChainTypeOK, SendFailed, To, Sending, chainVars, jobVars, Status, GivenUp
    <2>14. CASE PollStart
      <3>1. \A d \in Drafts : ToPoll(d) \in {"off"} \cup Todo
        BY DEF ToPoll, Todo
      <3> QED
        BY <2>14, <3>1 DEF TypeOK, ChainTypeOK, PollStart, chainVars, rowVars, coinVars, commandVars
    <2>15. ASSUME NEW d \in Drafts, Look(d)
           PROVE  TypeOK'
      <3>1. \A was, answer : Verdict(was, answer) \in {"off"} \cup Verdicts
        BY DEF Verdict, Verdicts
      <3> QED
        BY <2>15, <3>1 DEF TypeOK, ChainTypeOK, Look, chainVars, rowVars, coinVars, commandVars
    <2>16. ASSUME NEW d \in Drafts, LookUnanswered(d)
           PROVE  TypeOK'
      BY <2>16 DEF TypeOK, ChainTypeOK, LookUnanswered, chainVars, rowVars, coinVars, commandVars
    <2>17. CASE PollPersist
      <3>1. PICK ds : /\ SetStatus(ds, [d \in Drafts |-> StatusAfter(d)])
                      /\ Release({d \in ds : Judging(d)})
        BY <2>17 DEF PollPersist
      <3> QED
        BY <2>17, <3>1, SetStatusTypes, ReleaseTypes, StatusAfterTypes
           DEF TypeOK, ChainTypeOK, PollPersist, chainVars, commandVars
    <2>18. CASE SyncFetch
      BY <2>18 DEF TypeOK, ChainTypeOK, SyncFetch, NodeCoins, chainVars, rowVars, coinVars, commandVars
    <2>19. CASE SyncApply \/ SyncFail
      BY <2>19 DEF TypeOK, ChainTypeOK, SyncApply, MarkMissing, SyncFail, chainVars, rowVars, coinVars, commandVars
    <2>20. CASE Tick
      BY <2>20 DEF TypeOK, ChainTypeOK, Tick, Capped, chainVars, coinVars, commandVars, jobVars
    <2>21. CASE Crash
      <3> DEFINE RowsTyped == /\ status \in [Drafts -> Status]
                              /\ idle \in [Drafts -> 0..Watch]
                              /\ height \in [Drafts -> Heights]
                              /\ reservedBy \in [Coins -> Drafts \cup {None}]
      <3>1. RowsTyped'
        <4>1. CASE UNCHANGED <<status, idle, height, reservedBy>>
          BY <4>1 DEF TypeOK
        <4>2. ASSUME NEW d \in Drafts, SetStatus({d}, [x \in Drafts |-> "failed"]),
                     UNCHANGED reservedBy
              PROVE  RowsTyped'
          BY <4>2, SetStatusTypes DEF TypeOK, Status, GivenUp
        <4>3. ASSUME NEW ds, SetStatus(ds, [d \in Drafts |-> StatusAfter(d)]),
                     NEW freed, Release(freed)
              PROVE  RowsTyped'
          BY <4>3, SetStatusTypes, ReleaseTypes, StatusAfterTypes
        <4> QED
          BY <2>21, <4>1, <4>2, <4>3 DEF Crash, CutShort
      <3> QED
        BY <2>21, <3>1 DEF TypeOK, ChainTypeOK, Crash, Fault, Sending
    <2>22. CASE Environment
      BY <2>22, ChainTypes DEF TypeOK, Environment, HeightsFollow, Heights, coinVars, commandVars, jobVars
    <2>23. ASSUME NEW d \in Drafts, TipPasses(d)
           PROVE  TypeOK'
      BY <2>23 DEF TypeOK, ChainTypeOK, TipPasses, Heights, chainVars, coinVars, commandVars, jobVars
    <2>24. CASE UNCHANGED vars
      BY <2>24 DEF TypeOK, ChainTypeOK, vars, chainVars, rowVars, coinVars, commandVars, jobVars
    <2> QED
      BY <2>1, <2>2, <2>3, <2>4, <2>5, <2>6, <2>7, <2>8, <2>9, <2>10, <2>11, <2>12, <2>13,
         <2>14, <2>15, <2>16, <2>17, <2>18, <2>19, <2>20, <2>21, <2>22, <2>23, <2>24
         DEF Next, Command, Poll, Sync
  <1> QED
    BY <1>1, <1>2, PTL DEF Spec

-----------------------------------------------------------------------------
(* Reservations name a live draft that spends the coin.                    *)

\* A verdict never makes a row vanish.
LEMMA StatusAfterExists ==
    ASSUME TypeOK, NEW d \in Drafts, Exists(d)
    PROVE  StatusAfter(d) \notin NoRow
  BY DEF TypeOK, StatusAfter, Exists, NoRow

\* Writing statuses that are rows keeps the rows that exist, and releasing
\* coins gives none away.
LEMMA WritesKeepOwners ==
    ASSUME TypeOK, ReservationsAreOwned, NEW ds, NEW to, NEW freed,
           SetStatus(ds, to), Release(freed) \/ UNCHANGED reservedBy,
           \A d \in Drafts : d \in ds /\ Exists(d) => to[d] \notin NoRow
    PROVE  ReservationsAreOwned'
  <1>1. \A d \in Drafts : Exists(d) => Exists(d)'
    BY DEF SetStatus, Exists, TypeOK
  <1>2. \A c \in Coins : reservedBy'[c] # None => reservedBy'[c] = reservedBy[c]
    BY DEF Release, TypeOK
  <1> QED
    BY <1>1, <1>2 DEF ReservationsAreOwned, TypeOK

\* No reservation outlives its draft, nor claims a coin the draft does not
\* spend: no order of builds, discards, refusals, verdicts and crashes leaves
\* one (release_stale_reservations' dangling case never arises).
THEOREM OwnedCorrect == Spec => []ReservationsAreOwned
  <1>1. Init => ReservationsAreOwned
    BY DEF Init, ReservationsAreOwned
  <1>2. TypeOK /\ ReservationsAreOwned /\ [Next]_vars => ReservationsAreOwned'
    <2> SUFFICES ASSUME TypeOK, ReservationsAreOwned, [Next]_vars
                 PROVE  ReservationsAreOwned'
      OBVIOUS
    <2>1. ASSUME NEW d \in Drafts, Build(d)
          PROVE  ReservationsAreOwned'
      BY <2>1, DraftsAssumption DEF ReservationsAreOwned, TypeOK, Build, Claim, Spendable, Exists, NoRow
    <2>2. CASE Estimate
      BY <2>2 DEF ReservationsAreOwned, TypeOK, Estimate, Release, Exists, rowVars
    <2>3. ASSUME NEW d \in Drafts, Delete(d)
          PROVE  ReservationsAreOwned'
      BY <2>3, DraftsAssumption DEF ReservationsAreOwned, TypeOK, Delete, Release, Exists
    <2>4. ASSUME NEW d \in Drafts, ReleaseReservation(d)
          PROVE  ReservationsAreOwned'
      BY <2>4 DEF ReservationsAreOwned, TypeOK, ReleaseReservation, Release, Exists, rowVars
    <2>5. ASSUME NEW d \in Drafts, SignStore(d)
          PROVE  ReservationsAreOwned'
      BY <2>5, WritesKeepOwners DEF SignStore, coinVars, NoRow
    <2>6. ASSUME NEW d \in Drafts, SendSettle(d)
          PROVE  ReservationsAreOwned'
      <3>1. PICK s \in Outcomes(d) : SetStatus({d}, [x \in Drafts |-> s])
        BY <2>6 DEF SendSettle
      <3>2. s \notin NoRow
        BY DEF Outcomes, NoRow
      <3> QED
        BY <2>6, <3>1, <3>2, WritesKeepOwners DEF SendSettle, coinVars
    <2>7. ASSUME NEW d \in Drafts, SendUnknown(d)
          PROVE  ReservationsAreOwned'
      BY <2>7, WritesKeepOwners DEF SendUnknown, coinVars, NoRow
    <2>8. ASSUME NEW d \in Drafts, SendFailed(d)
          PROVE  ReservationsAreOwned'
      BY <2>8, WritesKeepOwners DEF SendFailed, NoRow
    <2>9. CASE PollPersist
      <3>1. PICK ds : /\ SetStatus(ds, [d \in Drafts |-> StatusAfter(d)])
                      /\ Release({d \in ds : Judging(d)})
        BY <2>9 DEF PollPersist
      <3> QED
        BY <3>1, WritesKeepOwners, StatusAfterExists
    <2>10. CASE Crash
      <3>1. CASE UNCHANGED <<status, reservedBy>>
        BY <3>1 DEF ReservationsAreOwned, Exists
      <3>2. ASSUME NEW d \in Drafts, SetStatus({d}, [x \in Drafts |-> "failed"]),
                   UNCHANGED reservedBy
            PROVE  ReservationsAreOwned'
        BY <3>2, WritesKeepOwners DEF NoRow
      <3>3. ASSUME NEW ds, SetStatus(ds, [d \in Drafts |-> StatusAfter(d)]),
                   NEW freed, Release(freed)
            PROVE  ReservationsAreOwned'
        BY <3>3, WritesKeepOwners, StatusAfterExists
      <3> QED
        BY <2>10, <3>1, <3>2, <3>3 DEF Crash, CutShort
    <2>11. CASE UNCHANGED <<status, reservedBy>>
      BY <2>11 DEF ReservationsAreOwned, Exists
    <2> QED
      BY <2>1, <2>2, <2>3, <2>4, <2>5, <2>6, <2>7, <2>8, <2>9, <2>10, <2>11
         DEF Next, Command, Poll, Sync, vars, SignLoad, StillReserved, SignRefused, SendLoad, SendGated,
             SubmitDelivered, SubmitLost, PollStart, Look, LookUnanswered, SyncFetch, SyncApply, MarkMissing,
             SyncFail, Tick, Environment, TipPasses, rowVars, coinVars
  <1> QED
    BY <1>1, <1>2, TypeCorrect, PTL DEF Spec

-----------------------------------------------------------------------------
(* A draft given up holds nothing.                                         *)

\* If every draft a write gives up is released with it, none given up holds.
LEMMA WritesFreeGivenUp ==
    ASSUME TypeOK, GivenUpHoldsNothing, NEW ds, NEW to, NEW freed,
           SetStatus(ds, to), Release(freed) \/ (UNCHANGED reservedBy /\ freed = {}),
           \A d \in Drafts : d \in ds /\ to[d] \in GivenUp => d \in freed \/ status[d] \in GivenUp,
           UNCHANGED crashes
    PROVE  GivenUpHoldsNothing'
  <1> SUFFICES ASSUME crashes = 0, NEW d \in Drafts, status'[d] \in GivenUp, NEW c \in Coins
               PROVE  reservedBy'[c] # d
    BY DEF GivenUpHoldsNothing, Holds
  <1>1. status[d] \in GivenUp \/ d \in freed
    BY DEF SetStatus, TypeOK
  <1>2. status[d] \in GivenUp => reservedBy[c] # d
    BY DEF GivenUpHoldsNothing, Holds
  <1> QED
    BY <1>1, <1>2, DraftsAssumption DEF Release, TypeOK

\* While the application does not crash, a verdict and the release of its
\* coins are one step, and nothing that runs beside it gives coins to a draft
\* that is given up: a late signature, a second broadcast, another poll.
THEOREM GivenUpCorrect == Spec => []GivenUpHoldsNothing
  <1>1. Init => GivenUpHoldsNothing
    BY DraftsAssumption DEF Init, GivenUpHoldsNothing, Holds
  <1>2. TypeOK /\ GivenUpHoldsNothing /\ [Next]_vars => GivenUpHoldsNothing'
    <2> SUFFICES ASSUME TypeOK, GivenUpHoldsNothing, [Next]_vars
                 PROVE  GivenUpHoldsNothing'
      OBVIOUS
    <2>1. ASSUME NEW d \in Drafts, Build(d)
          PROVE  GivenUpHoldsNothing'
      BY <2>1, DraftsAssumption DEF GivenUpHoldsNothing, Holds, TypeOK, Build, Claim, Spendable, GivenUp
    <2>2. CASE Estimate
      BY <2>2, DraftsAssumption DEF GivenUpHoldsNothing, Holds, TypeOK, Estimate, Release, rowVars
    <2>3. ASSUME NEW d \in Drafts, Delete(d)
          PROVE  GivenUpHoldsNothing'
      BY <2>3, DraftsAssumption DEF GivenUpHoldsNothing, Holds, TypeOK, Delete, Release, GivenUp
    <2>4. ASSUME NEW d \in Drafts, ReleaseReservation(d)
          PROVE  GivenUpHoldsNothing'
      BY <2>4, DraftsAssumption
         DEF GivenUpHoldsNothing, Holds, TypeOK, ReleaseReservation, Release, rowVars
    <2>5. ASSUME NEW d \in Drafts, SignStore(d)
          PROVE  GivenUpHoldsNothing'
      BY <2>5, WritesFreeGivenUp DEF SignStore, coinVars, GivenUp
    <2>6. ASSUME NEW d \in Drafts, SendSettle(d)
          PROVE  GivenUpHoldsNothing'
      <3>1. PICK s \in Outcomes(d) : SetStatus({d}, [x \in Drafts |-> s])
        BY <2>6 DEF SendSettle
      <3>2. s \notin GivenUp
        BY DEF Outcomes, GivenUp
      <3> QED
        BY <2>6, <3>1, <3>2, WritesFreeGivenUp DEF SendSettle, coinVars
    <2>7. ASSUME NEW d \in Drafts, SendUnknown(d)
          PROVE  GivenUpHoldsNothing'
      BY <2>7, WritesFreeGivenUp DEF SendUnknown, coinVars, GivenUp
    <2>8. ASSUME NEW d \in Drafts, SendFailed(d)
          PROVE  GivenUpHoldsNothing'
      BY <2>8, WritesFreeGivenUp DEF SendFailed
    <2>9. CASE PollPersist
      <3>1. PICK ds \in Applied : /\ SetStatus(ds, [d \in Drafts |-> StatusAfter(d)])
                                  /\ Release({d \in ds : Judging(d)})
        BY <2>9 DEF PollPersist
      <3>2. \A d \in Drafts : StatusAfter(d) \in GivenUp => Judging(d) \/ status[d] \in GivenUp
        BY DEF StatusAfter, Judging, GivenUp
      <3> QED
        BY <2>9, <3>1, <3>2, WritesFreeGivenUp DEF PollPersist
    <2>10. CASE Crash
      BY <2>10 DEF Crash, GivenUpHoldsNothing, TypeOK
    <2>11. CASE UNCHANGED <<status, reservedBy, crashes>>
      BY <2>11 DEF GivenUpHoldsNothing, Holds
    <2> QED
      BY <2>1, <2>2, <2>3, <2>4, <2>5, <2>6, <2>7, <2>8, <2>9, <2>10, <2>11
         DEF Next, Command, Poll, Sync, vars, SignLoad, StillReserved, SignRefused, SendLoad, SendGated,
             SubmitDelivered, SubmitLost, PollStart, Look, LookUnanswered, SyncFetch, SyncApply, MarkMissing,
             SyncFail, Tick, Environment, TipPasses, rowVars, coinVars
  <1> QED
    BY <1>1, <1>2, TypeCorrect, PTL DEF Spec

-----------------------------------------------------------------------------
(* What reads as sent was sent.                                            *)

\* What the node knows of: its mempool and its blocks hold what was relayed.
ChainKnows ==
    /\ mempool \subseteq relayed
    /\ mined \subseteq landed
    /\ landed \subseteq relayed

\* What a broadcast or a poll in flight has learnt still holds when it is
\* written: a transaction stays relayed, and stays one that has been mined.
InFlightKnows ==
    \A d \in Drafts :
        /\ sending[d] = "submitted" => d \in relayed
        /\ polled[d] \in {"promote", "revert"} => d \in relayed
        /\ polled[d] \in {"confirmed", "confirm"} => d \in landed

Knows == ChainKnows /\ InFlightKnows /\ SentMeansSent

\* The chain only learns.
LEMMA ChainLearns ==
    ASSUME ChainTypeOK, ChainKnows, ChainNext
    PROVE  ChainKnows' /\ relayed \subseteq relayed' /\ landed \subseteq landed'
  BY DEF ChainNext, ChainTypeOK, ChainKnows, Mine, Bury, Reorg, Evict, RelayAgain,
         SpendElsewhere, UnspendElsewhere, Without

\* A verdict says no more than the node's answer.
LEMMA VerdictKnows ==
    ASSUME ChainKnows, InFlightKnows, NEW d \in Drafts, polled[d] \in Todo,
           NEW answer \in Answers(d)
    PROVE  /\ Verdict(polled[d], answer) \in {"promote", "revert"} => d \in relayed
           /\ Verdict(polled[d], answer) = "confirm" => d \in landed
           /\ Verdict(polled[d], answer) # "confirmed"
  <1>1. answer = "mempool" => d \in mempool
    BY DEF Answers
  <1>2. answer = "mined" => d \in mined
    BY DEF Answers
  <1>3. polled[d] = "confirmed" => d \in landed
    BY DEF InFlightKnows
  <1>4. /\ Verdict(polled[d], answer) = "confirm" => answer = "mined"
        /\ Verdict(polled[d], answer) = "promote" => answer = "mempool"
        /\ Verdict(polled[d], answer) = "revert" => polled[d] = "confirmed"
        /\ Verdict(polled[d], answer) # "confirmed"
    BY DEF Verdict
  <1> QED
    BY <1>1, <1>2, <1>3, <1>4 DEF ChainKnows

\* Writing statuses keeps SentMeansSent when what is written is so.
LEMMA WritesSayWhatIs ==
    ASSUME TypeOK, SentMeansSent, NEW ds, NEW to, SetStatus(ds, to),
           UNCHANGED <<relayed, landed>>,
           \A d \in Drafts : d \in ds =>
               /\ to[d] = "broadcasted" => d \in relayed \/ status[d] = "broadcasted"
               /\ to[d] = "confirmed" => d \in landed \/ status[d] = "confirmed"
    PROVE  SentMeansSent'
  BY DEF SentMeansSent, SetStatus, TypeOK

\* What a verdict writes is what the node said.
LEMMA VerdictsSayWhatIs ==
    ASSUME InFlightKnows, NEW d \in Drafts
    PROVE  /\ StatusAfter(d) = "broadcasted" => d \in relayed \/ status[d] = "broadcasted"
           /\ StatusAfter(d) = "confirmed" => d \in landed \/ status[d] = "confirmed"
  BY DEF StatusAfter, InFlightKnows

\* A row says broadcasted only of a transaction a node was handed, confirmed
\* only of one that has been in a block, however old the answer it is
\* written from and whatever the row became in between.
THEOREM SentCorrect == Spec => []SentMeansSent
  <1>1. Init => Knows
    BY DEF Init, ChainInit, Knows, ChainKnows, InFlightKnows, SentMeansSent
  <1>2. TypeOK /\ Knows /\ [Next]_vars => Knows'
    <2> SUFFICES ASSUME TypeOK, ChainKnows, InFlightKnows, SentMeansSent, [Next]_vars
                 PROVE  Knows'
      BY DEF Knows
    <2>1. CASE UNCHANGED <<chainVars, sending, polled>> /\ UNCHANGED status
      BY <2>1 DEF Knows, ChainKnows, InFlightKnows, SentMeansSent, chainVars
    <2>2. ASSUME NEW d \in Drafts, Build(d) \/ Delete(d)
          PROVE  Knows'
      BY <2>2 DEF Build, Claim, Delete, Knows, ChainKnows, InFlightKnows, SentMeansSent, TypeOK,
                  chainVars, commandVars, jobVars
    <2>3. ASSUME NEW d \in Drafts, SignStore(d)
          PROVE  Knows'
      <3>1. SentMeansSent'
        BY <2>3, WritesSayWhatIs DEF SignStore, chainVars
      <3> QED
        BY <2>3, <3>1 DEF SignStore, Knows, ChainKnows, InFlightKnows, chainVars, jobVars
    <2>4. ASSUME NEW d \in Drafts, SendLoad(d) \/ SendGated(d) \/ SubmitLost(d)
          PROVE  Knows'
      BY <2>4 DEF SendLoad, SendGated, SubmitLost, Submit, To, Knows, ChainKnows, InFlightKnows,
                  SentMeansSent, TypeOK, chainVars, rowVars, jobVars
    <2>5. ASSUME NEW d \in Drafts, SubmitDelivered(d)
          PROVE  Knows'
      BY <2>5 DEF SubmitDelivered, Submit, Deliver, To, Knows, ChainKnows, InFlightKnows,
                  SentMeansSent, TypeOK, rowVars, jobVars
    <2>6. ASSUME NEW d \in Drafts, SendSettle(d)
          PROVE  Knows'
      <3>1. PICK s \in Outcomes(d) : SetStatus({d}, [x \in Drafts |-> s])
        BY <2>6 DEF SendSettle
      <3>2. d \in relayed
        BY <2>6 DEF SendSettle, InFlightKnows
      <3>3. s = "confirmed" => d \in landed
        BY DEF Outcomes, Answers, ChainKnows
      <3>4. SentMeansSent'
        BY <2>6, <3>1, <3>2, <3>3, WritesSayWhatIs DEF SendSettle, chainVars
      <3> QED
        BY <2>6, <3>4 DEF SendSettle, To, Knows, ChainKnows, InFlightKnows, TypeOK,
                          chainVars, jobVars
    <2>7. ASSUME NEW d \in Drafts, SendUnknown(d) \/ SendFailed(d)
          PROVE  Knows'
      <3>1. SentMeansSent'
        BY <2>7, WritesSayWhatIs DEF SendUnknown, SendFailed, chainVars
      <3> QED
        BY <2>7, <3>1 DEF SendUnknown, SendFailed, To, Knows, ChainKnows, InFlightKnows, TypeOK,
                          chainVars, jobVars
    <2>8. CASE PollStart
      <3>1. \A d \in Drafts : /\ ToPoll(d) = "confirmed" => status[d] = "confirmed"
                              /\ ToPoll(d) \notin {"promote", "revert", "confirm"}
        BY DEF ToPoll
      <3> QED
        BY <2>8, <3>1 DEF PollStart, Knows, ChainKnows, InFlightKnows, SentMeansSent,
                          chainVars, rowVars, commandVars
    <2>9. ASSUME NEW d \in Drafts, Look(d)
          PROVE  Knows'
      <3>1. PICK answer \in Answers(d) :
              polled' = [polled EXCEPT ![d] = Verdict(polled[d], answer)]
        BY <2>9 DEF Look
      <3> QED
        BY <2>9, <3>1, VerdictKnows
           DEF Look, Knows, ChainKnows, InFlightKnows, SentMeansSent, TypeOK,
               chainVars, rowVars, commandVars
    <2>10. ASSUME NEW d \in Drafts, LookUnanswered(d)
           PROVE  Knows'
      BY <2>10 DEF LookUnanswered, Knows, ChainKnows, InFlightKnows, SentMeansSent, TypeOK,
                   chainVars, rowVars, commandVars
    <2>11. CASE PollPersist
      <3>1. PICK ds \in Applied : SetStatus(ds, [d \in Drafts |-> StatusAfter(d)])
        BY <2>11 DEF PollPersist
      <3>2. SentMeansSent'
        BY <2>11, <3>1, VerdictsSayWhatIs, WritesSayWhatIs DEF PollPersist, chainVars
      <3> QED
        BY <2>11, <3>2 DEF PollPersist, Knows, ChainKnows, InFlightKnows, chainVars, commandVars
    <2>12. CASE Crash
      <3>1. ASSUME UNCHANGED status
            PROVE  SentMeansSent'
        BY <2>12, <3>1 DEF Crash, SentMeansSent
      <3>2. ASSUME NEW d \in Drafts, SetStatus({d}, [x \in Drafts |-> "failed"])
            PROVE  SentMeansSent'
        BY <2>12, <3>2, WritesSayWhatIs DEF Crash
      <3>3. ASSUME NEW ds, SetStatus(ds, [d \in Drafts |-> StatusAfter(d)])
            PROVE  SentMeansSent'
        BY <2>12, <3>3, VerdictsSayWhatIs, WritesSayWhatIs DEF Crash
      <3>4. SentMeansSent'
        BY <2>12, <3>1, <3>2, <3>3 DEF Crash, CutShort
      <3> QED
        BY <2>12, <3>4 DEF Crash, Knows, ChainKnows, InFlightKnows
    <2>13. CASE Environment
      BY <2>13, ChainLearns DEF Environment, Knows, InFlightKnows, SentMeansSent, TypeOK,
                                rowVars, commandVars, jobVars
    <2> QED
      BY <2>1, <2>2, <2>3, <2>4, <2>5, <2>6, <2>7, <2>8, <2>9, <2>10, <2>11, <2>12, <2>13
         DEF Next, Command, Poll, Sync, vars, Estimate, ReleaseReservation, SignLoad, StillReserved, SignRefused,
             SyncFetch, SyncApply, MarkMissing, SyncFail, Tick, TipPasses, rowVars, coinVars, commandVars, jobVars
  <1>3. Knows => SentMeansSent
    BY DEF Knows
  <1> QED
    BY <1>1, <1>2, <1>3, TypeCorrect, PTL DEF Spec

-----------------------------------------------------------------------------
(* The coins of a draft in flight.                                         *)

\* A status and the release of the drafts it gives up free only their coins.
LEMMA WritesFreeByVerdict ==
    ASSUME TypeOK, NEW ds, NEW to, NEW freed, SetStatus(ds, to), Release(freed),
           \A d \in Drafts : d \in freed => d \in ds /\ to[d] \in GivenUp
    PROVE  CoinFreedByVerdict
  BY DEF CoinFreedByVerdict, SetStatus, Release, Holds, Exists, TypeOK, Reached, NoRow

\* A coin of a draft that may have reached the chain is freed by a verdict
\* that gives the draft up and by nothing else, crashes included, as long as
\* release_tx_draft_reservation is not called.
THEOREM InFlightCoinsSafe ==
    ASSUME ~ReleaseByHand
    PROVE  Spec => InFlightCoinsFreedOnlyByVerdict
  <1>1. TypeOK /\ [Next]_vars => [CoinFreedByVerdict]_vars
    <2> SUFFICES ASSUME TypeOK, Next
                 PROVE  CoinFreedByVerdict
      OBVIOUS
    <2>1. ASSUME NEW d \in Drafts, Build(d)
          PROVE  CoinFreedByVerdict
      BY <2>1, DraftsAssumption
         DEF CoinFreedByVerdict, Build, Claim, Spendable, Stale, Holds, TypeOK, Exists, Reached, NoRow
    <2>2. CASE Estimate
      BY <2>2 DEF CoinFreedByVerdict, Estimate, Release, Stale, Holds, TypeOK, Exists, Reached, NoRow
    <2>3. ASSUME NEW d \in Drafts, Delete(d)
          PROVE  CoinFreedByVerdict
      BY <2>3 DEF CoinFreedByVerdict, Delete, Release, Holds, TypeOK
    <2>4. ASSUME NEW d \in Drafts, SendFailed(d)
          PROVE  CoinFreedByVerdict
      BY <2>4, WritesFreeByVerdict DEF SendFailed, GivenUp
    <2>5. CASE PollPersist
      <3>1. PICK ds \in Applied : /\ SetStatus(ds, [d \in Drafts |-> StatusAfter(d)])
                                  /\ Release({d \in ds : Judging(d)})
        BY <2>5 DEF PollPersist
      <3>2. \A d \in Drafts : Judging(d) => StatusAfter(d) \in GivenUp
        BY DEF StatusAfter, Judging, GivenUp
      <3> QED
        BY <3>1, <3>2, WritesFreeByVerdict
    <2>6. CASE Crash
      <3>1. CASE UNCHANGED reservedBy
        BY <3>1 DEF CoinFreedByVerdict, Holds
      <3>2. ASSUME NEW ds, SetStatus(ds, [d \in Drafts |-> StatusAfter(d)]),
                   NEW freed \in SUBSET {d \in ds : Judging(d)}, Release(freed)
            PROVE  CoinFreedByVerdict
        <4>1. \A d \in Drafts : Judging(d) => StatusAfter(d) \in GivenUp
          BY DEF StatusAfter, Judging, GivenUp
        <4> QED
          BY <3>2, <4>1, WritesFreeByVerdict
      <3> QED
        BY <2>6, <3>1, <3>2 DEF Crash, CutShort
    <2>7. CASE UNCHANGED reservedBy
      BY <2>7 DEF CoinFreedByVerdict, Holds
    <2> QED
      BY <2>1, <2>2, <2>3, <2>4, <2>5, <2>6, <2>7
         DEF Next, Command, Poll, Sync, ReleaseReservation, SignLoad, StillReserved, SignStore, SignRefused,
             SendLoad, SendGated, SubmitDelivered, SubmitLost, SendSettle, SendUnknown,
             PollStart, Look, LookUnanswered, SyncFetch, SyncApply, MarkMissing, SyncFail, Tick, Environment, TipPasses,
             coinVars
  <1> QED
    BY <1>1, TypeCorrect, PTL DEF Spec, InFlightCoinsFreedOnlyByVerdict

-----------------------------------------------------------------------------
(* The reservations implement CoinClaims.                                  *)

\* A draft that holds one of its coins holds them all.
Whole == \A d \in Drafts : \A c, e \in Inputs[d] : Holds(d, c) => Holds(d, e)

\* Releasing whole drafts leaves whole drafts.
LEMMA ReleaseKeepsWhole ==
    ASSUME TypeOK, Whole, NEW ds, Release(ds)
    PROVE  Whole'
  BY ChainAssumption, DraftsAssumption DEF TypeOK, Whole, Holds, Release

\* A draft's coins are claimed together, go back together, and no claim of
\* another draft takes one of them away.
LEMMA ClaimKeepsWhole ==
    ASSUME TypeOK, Whole, NEW d \in Drafts, Claim(d)
    PROVE  Whole'
  <1> SUFFICES ASSUME NEW x \in Drafts, NEW c \in Inputs[x], NEW e \in Inputs[x], reservedBy'[c] = x
               PROVE  reservedBy'[e] = x
    BY DEF Whole, Holds
  <1>1. c \in Coins /\ e \in Coins
    BY ChainAssumption
  <1>2. CASE x = d
    BY <1>1, <1>2 DEF Claim
  <1>3. CASE x # d
    <2>1. reservedBy[c] = x /\ x \notin Stale
      BY <1>1, <1>3, DraftsAssumption DEF Claim
    <2>2. reservedBy[e] = x
      BY <2>1 DEF Whole, Holds
    <2>3. e \notin Inputs[d]
      BY <2>1, <2>2, DraftsAssumption DEF Claim, Spendable
    <2> QED
      BY <1>1, <2>1, <2>2, <2>3 DEF Claim
  <1> QED
    BY <1>2, <1>3

\* Every claim is whole, whatever races it.
THEOREM WholeCorrect == Spec => []Whole
  <1>1. Init => Whole
    BY ChainAssumption, DraftsAssumption DEF Init, Whole, Holds
  <1>2. TypeOK /\ Whole /\ [Next]_vars => Whole'
    <2> SUFFICES ASSUME TypeOK, Whole, [Next]_vars
                 PROVE  Whole'
      OBVIOUS
    <2>1. ASSUME NEW d \in Drafts, Build(d)
          PROVE  Whole'
      BY <2>1, ClaimKeepsWhole DEF Build
    <2>2. ASSUME NEW ds, Release(ds)
          PROVE  Whole'
      BY <2>2, ReleaseKeepsWhole
    <2>3. CASE UNCHANGED reservedBy
      BY <2>3 DEF Whole, Holds
    <2> QED
      BY <2>1, <2>2, <2>3
         DEF Next, Command, Poll, Sync, vars, coinVars, Estimate, Delete, ReleaseReservation, SignLoad,
             SignStore, SignRefused, SendLoad, SendGated, SubmitDelivered, SubmitLost, SendSettle,
             SendUnknown, SendFailed, PollStart, Look, LookUnanswered, PollPersist, SyncFetch, SyncApply,
             SyncFail, Tick, Crash, CutShort, Environment, TipPasses
  <1> QED
    BY <1>1, <1>2, TypeCorrect, PTL DEF Spec

\* What a release takes from the claims.
LEMMA ReleaseEnds ==
    ASSUME TypeOK, NEW ds, Release(ds)
    PROVE  Claiming' = Claiming \ ds
  BY DraftsAssumption DEF TypeOK, Claiming, Holds, Release

\* A sweep takes nothing in flight.
LEMMA SweepYields == Claims!Yields(Claiming \cap Stale)
  BY DEF Claims!Yields, Stale, InFlight, Exists, Reached, NoRow

\* A build claims over the stale, and only over them.
LEMMA BuildClaims ==
    ASSUME TypeOK, ReservationsAreOwned, Whole, NEW d \in Drafts, Build(d)
    PROVE  Claims!Next
  <1>1. d \notin Claiming
    BY DraftsAssumption DEF Build, Claiming, Holds, ReservationsAreOwned, Exists, NoRow
  <1>2. InFlight' = InFlight
    BY DEF Build, InFlight, TypeOK, Reached
  <1>3. \A x \in Drafts : x # d => (x \in Claiming' <=> x \in Claiming \ Stale)
    <2> SUFFICES ASSUME NEW x \in Drafts, x # d
                 PROVE  x \in Claiming' <=> x \in Claiming \ Stale
      OBVIOUS
    <2>1. ASSUME NEW c \in Coins, reservedBy'[c] = x
          PROVE  reservedBy[c] = x /\ x \notin Stale
      BY <2>1, DraftsAssumption DEF Build, Claim
    <2>2. ASSUME NEW c \in Coins, reservedBy[c] = x, x \notin Stale
          PROVE  reservedBy'[c] = x
      <3>1. c \notin Inputs[d]
        BY <2>2, DraftsAssumption DEF Build, Claim, Spendable
      <3> QED
        BY <2>2, <3>1 DEF Build, Claim
    <2> QED
      BY <2>1, <2>2 DEF Claiming, Holds
  <1>4. \A e \in Claiming \ Stale : Inputs[d] \cap Inputs[e] = {}
    <2> SUFFICES ASSUME NEW e \in Claiming \ Stale, NEW c \in Inputs[d], c \in Inputs[e]
                 PROVE  FALSE
      OBVIOUS
    <2>1. PICK b \in Coins : reservedBy[b] = e
      BY DEF Claiming, Holds
    <2>2. e \in Drafts /\ b \in Inputs[e]
      BY <2>1, DraftsAssumption DEF Claiming, ReservationsAreOwned
    <2>3. reservedBy[c] = e
      BY <2>1, <2>2 DEF Whole, Holds
    <2> QED
      BY <2>2, <2>3, DraftsAssumption DEF Build, Claim, Spendable
  <1>5. CASE d \in Claiming'
    <2>1. Claiming' = (Claiming \ (Claiming \cap Stale)) \cup {d}
      BY <1>3, <1>5 DEF Claiming
    <2>2. Claims!Claim(d)
      BY <1>1, <1>2, <1>4, <2>1, SweepYields DEF Claims!Claim, Claims!Disjoint
    <2> QED
      BY <2>2 DEF Claims!Next
  <1>6. CASE d \notin Claiming'
    <2>1. Claiming' = Claiming \ (Claiming \cap Stale)
      BY <1>1, <1>3, <1>6 DEF Claiming
    <2>2. Claims!Return(Claiming \cap Stale)
      BY <1>2, <2>1, SweepYields DEF Claims!Return
    <2> QED
      BY <2>2 DEF Claims!Next
  <1> QED
    BY <1>5, <1>6

\* Writing statuses is a settlement, when what is released with them is not
\* in flight afterwards.
LEMMA WritesSettle ==
    ASSUME TypeOK, NEW ds, NEW to, NEW freed, SetStatus(ds, to), Release(freed),
           \A d \in Drafts : d \in freed => d \in ds /\ to[d] \notin Reached
    PROVE  Claims!Next
  <1>1. Claiming' = Claiming \ (Claiming \cap freed)
    BY ReleaseEnds
  <1>2. (Claiming \cap freed) \cap InFlight' = {}
    BY DEF Claiming, InFlight, SetStatus, Exists, NoRow, Reached, TypeOK
  <1>3. Claims!Settle(Claiming \cap freed)
    BY <1>1, <1>2 DEF Claims!Settle, InFlight
  <1> QED
    BY <1>3 DEF Claims!Next

\* Writing statuses alone settles without freeing anything.
LEMMA WritesSettleAlone ==
    ASSUME UNCHANGED reservedBy
    PROVE  Claims!Next
  <1>1. Claiming' = Claiming \ {}
    BY DEF Claiming, Holds
  <1>2. Claims!Settle({})
    BY <1>1 DEF Claims!Settle, InFlight
  <1> QED
    BY <1>2 DEF Claims!Next

\* The reservations keep the promise of CoinClaims: whole, exclusive, and in
\* flight until the draft itself no longer is, whatever races and crashes, as
\* long as release_tx_draft_reservation is not called.
THEOREM ClaimsRefined ==
    ASSUME ~ReleaseByHand
    PROVE  Spec => ClaimsKept
  <1>1. Init => Claims!Init
    BY DraftsAssumption DEF Init, Claims!Init, Claiming, InFlight, Holds, Reached
  <1>2. TypeOK /\ ReservationsAreOwned /\ Whole /\ [Next]_vars => [Claims!Next]_(Claims!vars)
    <2> SUFFICES ASSUME TypeOK, ReservationsAreOwned, Whole, [Next]_vars
                 PROVE  Claims!Next \/ UNCHANGED <<Claiming, InFlight>>
      BY DEF Claims!vars
    <2>1. ASSUME NEW d \in Drafts, Build(d)
          PROVE  Claims!Next
      BY <2>1, BuildClaims
    <2>2. CASE Estimate
      <3>1. Claims!Return(Claiming \cap Stale)
        BY <2>2, ReleaseEnds, SweepYields DEF Estimate, rowVars, InFlight, Claims!Return
      <3> QED
        BY <3>1 DEF Claims!Next
    <2>3. ASSUME NEW d \in Drafts, Delete(d)
          PROVE  Claims!Next
      <3>1. InFlight' = InFlight
        BY <2>3 DEF Delete, InFlight, TypeOK, Reached
      <3>2. Claims!Return(Claiming \cap {d})
        BY <2>3, <3>1, ReleaseEnds DEF Delete, InFlight, Claims!Return, Claims!Yields
      <3> QED
        BY <3>2 DEF Claims!Next
    <2>4. ASSUME NEW d \in Drafts, SignStore(d) \/ SendSettle(d) \/ SendUnknown(d)
          PROVE  Claims!Next
      BY <2>4, WritesSettleAlone DEF SignStore, SendSettle, SendUnknown, coinVars
    <2>5. ASSUME NEW d \in Drafts, SendFailed(d)
          PROVE  Claims!Next
      BY <2>5, WritesSettle DEF SendFailed, Reached
    <2>6. CASE PollPersist
      <3>1. PICK ds \in Applied : /\ SetStatus(ds, [d \in Drafts |-> StatusAfter(d)])
                                  /\ Release({d \in ds : Judging(d)})
        BY <2>6 DEF PollPersist
      <3>2. \A d \in Drafts : Judging(d) => StatusAfter(d) \notin Reached
        BY DEF StatusAfter, Judging, Reached
      <3> QED
        BY <3>1, <3>2, WritesSettle
    <2>7. CASE Crash
      <3>1. CASE UNCHANGED reservedBy
        BY <3>1, WritesSettleAlone
      <3>2. ASSUME NEW ds, SetStatus(ds, [d \in Drafts |-> StatusAfter(d)]),
                   NEW freed \in SUBSET {d \in ds : Judging(d)}, Release(freed)
            PROVE  Claims!Next
        <4>1. \A d \in Drafts : Judging(d) => StatusAfter(d) \notin Reached
          BY DEF StatusAfter, Judging, Reached
        <4> QED
          BY <3>2, <4>1, WritesSettle
      <3> QED
        BY <2>7, <3>1, <3>2 DEF Crash, CutShort
    <2>8. CASE UNCHANGED <<status, reservedBy>>
      BY <2>8 DEF Claiming, InFlight, Holds
    <2> QED
      BY <2>1, <2>2, <2>3, <2>4, <2>5, <2>6, <2>7, <2>8
         DEF Next, Command, Poll, Sync, vars, ReleaseReservation, SignLoad, StillReserved, SignRefused,
             SendLoad, SendGated, SubmitDelivered, SubmitLost, PollStart, Look, LookUnanswered, SyncFetch,
             SyncApply, MarkMissing, SyncFail, Tick, Environment, TipPasses, rowVars, coinVars
  <1> QED
    BY <1>1, <1>2, TypeCorrect, OwnedCorrect, WholeCorrect, PTL DEF Spec, ClaimsKept, Claims!Spec
=============================================================================
