---------------------------- MODULE DesktopProofs ----------------------------
(***************************************************************************)
(* The signer, the local node, and the five protocols in one app.          *)
(*                                                                         *)
(* The signer's key is gone in time and never another profile's, for any   *)
(* profiles and any timeouts.  What a step does to the slot is one of a    *)
(* few things; what makes it right is that a switch or a deletion is noted *)
(* from its write to the database until it has looked at the slot.         *)
(*                                                                         *)
(* The app stops only nodes of its own and forgets none, for any number of *)
(* processes and pids.                                                     *)
(*                                                                         *)
(* An app that runs one of the five behaves as each of them, so what is    *)
(* proved of each holds of the app.                                        *)
(***************************************************************************)
EXTENDS MCDesktop, SyncLockProofs, RemindersProofs, ChainScanProofs

(* The signer.                                                             *)

\* The hard expiry and the ticks since the unlock make up the cap, and the
\* sliding expiry comes no later.
UnderCap ==
    /\ session.left \in Nat /\ session.hard \in Nat /\ held \in Nat
    /\ Unlocked => session.left <= session.hard /\ session.hard + held = MaxSession

\* A key that is not the active profile's is about to be dropped, or was
\* stored too late.
OthersDoomed ==
    Unlocked =>
        \/ session.owner = active
        \/ strayed
        \/ session.owner \in deleting
        \/ \E p \in switching : p # session.owner

\* So is a deleted profile's.
DeletedDoomed ==
    Unlocked => session.owner \in existing \/ strayed \/ session.owner \in deleting

Slots == [owner : Profiles \cup {Nobody}, left : 0..MaxSession, hard : 0..MaxSession]

SignerInv == SignerTypeOK /\ UnderCap /\ OthersDoomed /\ DeletedDoomed

-----------------------------------------------------------------------------
(* The slot: its types and the cap.                                        *)

LEMMA NoSessionIs ==
    /\ NoSession \in Slots
    /\ NoSession.owner = Nobody /\ NoSession.left = 0 /\ NoSession.hard = 0
<1>1. 0 \in 0..MaxSession
  BY SignerAssumption
<1>. QED
  BY <1>1 DEF NoSession, Slots

LEMMA SignerInitHolds == SignerInit => SignerInv
<1> SUFFICES ASSUME SignerInit PROVE SignerInv
  OBVIOUS
<1>1. session \in Slots /\ session.owner = Nobody /\ session.left = 0 /\ session.hard = 0
  BY NoSessionIs DEF SignerInit
<1>2. SignerTypeOK
  BY <1>1 DEF SignerInit, SignerTypeOK, Slots
<1>3. UnderCap
  BY <1>1 DEF SignerInit, UnderCap, Unlocked
<1>. QED
  BY <1>1, <1>2, <1>3 DEF SignerInit, SignerInv, OthersDoomed, DeletedDoomed, Unlocked

\* What a step does to the slot: nothing, empties it, fills it, slides its
\* expiry, or lets a tick pass.
Keeps == UNCHANGED <<session, held, strayed>>

Fills(p) ==
    /\ p \in prompting
    /\ \E ttl \in Ttls : session' = [owner |-> p, left |-> ttl, hard |-> MaxSession]
    /\ held' = 0
    /\ strayed' = (p # active \/ p \notin existing)

Slides == Unlocked /\ (\E ttl \in Ttls : session' = Touched(ttl)) /\ UNCHANGED <<held, strayed>>

SlotStep == Keeps \/ Empty \/ (\E p \in Profiles : Fills(p)) \/ Slides \/ TimePasses

LEMMA UseOfSlot == ASSUME NEW p \in Profiles, NEW ttl \in Ttls, Use(p, ttl) PROVE Empty \/ Slides
BY DEF Use, Slides

LEMMA DropOfSlot == ASSUME NEW picked, DropIf(picked) PROVE Keeps \/ Empty
BY DEF DropIf, Keeps

LEMMA SlotKept ==
  ASSUME SignerTypeOK, UnderCap, SlotStep
  PROVE  UnderCap' /\ session' \in Slots /\ held' \in Nat /\ strayed' \in BOOLEAN
<1>. USE SignerAssumption
<1>1. CASE Keeps
  BY <1>1 DEF Keeps, SignerTypeOK, UnderCap, Unlocked, Slots
<1>2. CASE Empty
  <2>1. session' = NoSession /\ held' = 0 /\ strayed' \in BOOLEAN
    BY <1>2 DEF Empty
  <2>2. UnderCap'
    BY <2>1, NoSessionIs DEF UnderCap, Unlocked
  <2>. QED
    BY <2>1, <2>2, NoSessionIs
<1>3. ASSUME NEW p \in Profiles, Fills(p)
      PROVE  UnderCap' /\ session' \in Slots /\ held' \in Nat /\ strayed' \in BOOLEAN
  <2>1. PICK ttl \in Ttls : session' = [owner |-> p, left |-> ttl, hard |-> MaxSession]
    BY <1>3 DEF Fills
  <2>. QED
    BY <1>3, <2>1 DEF Fills, UnderCap, Unlocked, Ttls, Slots
<1>4. CASE Slides
  <2>1. PICK ttl \in Ttls : session' = Touched(ttl)
    BY <1>4 DEF Slides
  <2>2. session' = [session EXCEPT !.left = IF ttl < session.hard THEN ttl ELSE session.hard]
    BY <2>1 DEF Touched, Least
  <2>. QED
    BY <1>4, <2>2 DEF Slides, SignerTypeOK, UnderCap, Unlocked, Ttls, Slots
<1>5. CASE TimePasses
  <2>1. session.left > 0 /\ session.hard > 0
    BY <1>5 DEF TimePasses, Expired, UnderCap
  <2>2. session' \in Slots
    <3>1. /\ session \in Slots
          /\ session' = [session EXCEPT !.left = @ - 1, !.hard = @ - 1]
      BY <1>5 DEF TimePasses, SignerTypeOK, Slots
    <3>2. session.left - 1 \in 0..MaxSession /\ session.hard - 1 \in 0..MaxSession
      BY <2>1, <3>1 DEF Slots
    <3>. QED
      BY <3>1, <3>2 DEF Slots
  <2>3. UnderCap' /\ held' \in Nat
    BY <1>5, <2>1 DEF TimePasses, SignerTypeOK, UnderCap, Unlocked
  <2>4. strayed' \in BOOLEAN
    BY <1>5 DEF TimePasses, SignerTypeOK
  <2>. QED
    BY <2>2, <2>3, <2>4
<1>. QED
  BY <1>1, <1>2, <1>3, <1>4, <1>5 DEF SlotStep

-----------------------------------------------------------------------------
(* Whose key it is.                                                        *)

\* The steps that leave the profiles, the prompts and the looks alone.
Elsewhere == UNCHANGED <<existing, active, prompting, found, switching, deleting>>

\* A step that keeps the slot's owner, or empties it.
SameOwner ==
    \/ session'.owner = session.owner /\ strayed' = strayed
    \/ session'.owner = Nobody

LEMMA OwnerOfSlot ==
  ASSUME SignerTypeOK, Keeps \/ Empty \/ Slides \/ TimePasses
  PROVE  SameOwner
BY NoSessionIs DEF SignerTypeOK, Keeps, Empty, Slides, TimePasses, Touched, SameOwner

LEMMA ElsewhereKeeps ==
  ASSUME SignerInv, SlotStep, Elsewhere, SameOwner
  PROVE  SignerInv'
<1>1. UnderCap' /\ session' \in Slots /\ held' \in Nat /\ strayed' \in BOOLEAN
  BY SlotKept DEF SignerInv
<1>2. SignerTypeOK'
  BY <1>1 DEF SignerInv, SignerTypeOK, Elsewhere, Slots
<1>3. DeletedDoomed'
  BY DEF SignerInv, DeletedDoomed, SameOwner, Elsewhere, Unlocked
<1>4. OthersDoomed'
  BY DEF SignerInv, OthersDoomed, SameOwner, Elsewhere, Unlocked
<1>. QED
  BY <1>1, <1>2, <1>3, <1>4 DEF SignerInv

LEMMA SignerNextHolds == SignerInv /\ [SignerNext]_signerVars => SignerInv'
<1> SUFFICES ASSUME SignerInv, [SignerNext]_signerVars PROVE SignerInv'
  OBVIOUS
<1>1. ASSUME NEW p \in Profiles, Ask(p) PROVE SignerInv'
  <2>1. Keeps /\ SlotStep
    BY <1>1 DEF Ask, Keeps, SlotStep, signerHistory
  <2>2. UnderCap' /\ session' \in Slots /\ held' \in Nat /\ strayed' \in BOOLEAN
    BY <2>1, SlotKept DEF SignerInv
  <2>. QED
    BY <1>1, <2>2 DEF Ask, SignerInv, SignerTypeOK, OthersDoomed, DeletedDoomed, Unlocked, signerHistory, Slots
<1>2. ASSUME NEW p \in Profiles, Dismiss(p) PROVE SignerInv'
  <2>1. Keeps /\ SlotStep
    BY <1>2 DEF Dismiss, Keeps, SlotStep, signerHistory
  <2>2. UnderCap' /\ session' \in Slots /\ held' \in Nat /\ strayed' \in BOOLEAN
    BY <2>1, SlotKept DEF SignerInv
  <2>. QED
    BY <1>2, <2>2 DEF Dismiss, SignerInv, SignerTypeOK, OthersDoomed, DeletedDoomed, Unlocked, signerHistory, Slots
<1>3. ASSUME NEW p \in Profiles, Create(p) PROVE SignerInv'
  <2>1. Keeps /\ SlotStep
    BY <1>3 DEF Create, Keeps, SlotStep, signerHistory
  <2>2. UnderCap' /\ session' \in Slots /\ held' \in Nat /\ strayed' \in BOOLEAN
    BY <2>1, SlotKept DEF SignerInv
  <2>. QED
    BY <1>3, <2>2 DEF Create, SignerInv, SignerTypeOK, OthersDoomed, DeletedDoomed, Unlocked, signerHistory, Slots
<1>13. ASSUME NEW p \in Profiles, Switch(p) PROVE SignerInv'
  <2>1. Keeps /\ SlotStep
    BY <1>13 DEF Switch, Keeps, SlotStep, signerHistory
  <2>2. UnderCap' /\ session' \in Slots /\ held' \in Nat /\ strayed' \in BOOLEAN
    BY <2>1, SlotKept DEF SignerInv
  <2>. QED
    BY <1>13, <2>2 DEF Switch, SignerInv, SignerTypeOK, OthersDoomed, DeletedDoomed, Unlocked, signerHistory, Slots
<1>4. ASSUME NEW p \in Profiles, Activate(p) PROVE SignerInv'
  <2>1. Keeps /\ SlotStep
    BY <1>4 DEF Activate, Keeps, SlotStep, signerHistory
  <2>2. UnderCap' /\ session' \in Slots /\ held' \in Nat /\ strayed' \in BOOLEAN
    BY <2>1, SlotKept DEF SignerInv
  <2>3. SignerTypeOK'
    BY <1>4, <2>2 DEF Activate, SignerInv, SignerTypeOK, Slots, signerHistory
  <2>4. DeletedDoomed'
    BY <1>4 DEF Activate, SignerInv, DeletedDoomed, Unlocked, signerHistory
  <2>5. OthersDoomed'
    BY <1>4 DEF Activate, SignerInv, OthersDoomed, Unlocked, signerHistory
  <2>. QED
    BY <2>2, <2>3, <2>4, <2>5 DEF SignerInv
<1>5. ASSUME NEW p \in Profiles, Switched(p) PROVE SignerInv'
  <2>1. Keeps \/ Empty
    BY <1>5, DropOfSlot DEF Switched
  <2>2. UnderCap' /\ session' \in Slots /\ held' \in Nat /\ strayed' \in BOOLEAN
    BY <2>1, SlotKept DEF SignerInv, SlotStep
  <2>3. SignerTypeOK'
    BY <1>5, <2>2 DEF Switched, SignerInv, SignerTypeOK, Slots
  <2>5. CASE Empty
    BY <2>5, NoSessionIs, <2>2, <2>3 DEF Empty, SignerInv, OthersDoomed, DeletedDoomed, Unlocked
  <2>6. CASE ~Empty
    <3>1. Keeps /\ (Unlocked => session.owner = p)
      BY <1>5, <2>6 DEF Switched, DropIf, Drops, Keeps
    <3>2. OthersDoomed'
      BY <1>5, <3>1 DEF Switched, Keeps, SignerInv, OthersDoomed, Unlocked
    <3>3. DeletedDoomed'
      BY <1>5, <3>1 DEF Switched, Keeps, SignerInv, DeletedDoomed, Unlocked
    <3>. QED
      BY <2>2, <2>3, <3>2, <3>3 DEF SignerInv
  <2>. QED
    BY <2>5, <2>6
<1>6. ASSUME NEW p \in Profiles, Delete(p) PROVE SignerInv'
  <2>1. Keeps /\ SlotStep
    BY <1>6 DEF Delete, Keeps, SlotStep, signerHistory
  <2>2. UnderCap' /\ session' \in Slots /\ held' \in Nat /\ strayed' \in BOOLEAN
    BY <2>1, SlotKept DEF SignerInv
  <2>3. SignerTypeOK'
    BY <1>6, <2>2 DEF Delete, SignerInv, SignerTypeOK, Slots, signerHistory
  <2>4. DeletedDoomed'
    BY <1>6 DEF Delete, SignerInv, DeletedDoomed, Unlocked, SignerTypeOK, signerHistory
  <2>5. OthersDoomed'
    BY <1>6 DEF Delete, SignerInv, OthersDoomed, Unlocked, signerHistory
  <2>. QED
    BY <2>2, <2>3, <2>4, <2>5 DEF SignerInv
<1>7. ASSUME NEW p \in Profiles, Deleted(p) PROVE SignerInv'
  <2>1. Keeps \/ Empty
    BY <1>7, DropOfSlot DEF Deleted
  <2>2. UnderCap' /\ session' \in Slots /\ held' \in Nat /\ strayed' \in BOOLEAN
    BY <2>1, SlotKept DEF SignerInv, SlotStep
  <2>3. SignerTypeOK'
    BY <1>7, <2>2 DEF Deleted, SignerInv, SignerTypeOK, Slots
  <2>5. CASE Empty
    BY <2>5, NoSessionIs, <2>2, <2>3 DEF Empty, SignerInv, OthersDoomed, DeletedDoomed, Unlocked
  <2>6. CASE ~Empty
    <3>1. Keeps /\ (Unlocked => session.owner # p)
      BY <1>7, <2>6 DEF Deleted, DropIf, Drops, Keeps
    <3>2. OthersDoomed'
      BY <1>7, <3>1 DEF Deleted, Keeps, SignerInv, OthersDoomed, Unlocked
    <3>3. DeletedDoomed'
      BY <1>7, <3>1 DEF Deleted, Keeps, SignerInv, DeletedDoomed, Unlocked
    <3>. QED
      BY <2>2, <2>3, <3>2, <3>3 DEF SignerInv
  <2>. QED
    BY <2>5, <2>6
<1>8. ASSUME NEW p \in Profiles, NEW ttl \in Ttls, Unlock(p, ttl) PROVE SignerInv'
  <2>1. Fills(p)
    BY <1>8 DEF Unlock, Fills
  <2>2. UnderCap' /\ session' \in Slots /\ held' \in Nat /\ strayed' \in BOOLEAN
    BY <2>1, SlotKept DEF SignerInv, SlotStep
  <2>3. session'.owner = p
    BY <1>8 DEF Unlock
  <2>4. SignerTypeOK'
    BY <1>8, <2>2 DEF Unlock, SignerInv, SignerTypeOK, Slots
  <2>5. strayed' \/ (p = active /\ p \in existing)
    BY <1>8 DEF Unlock
  <2>6. OthersDoomed'
    BY <1>8, <2>3, <2>5 DEF Unlock, OthersDoomed
  <2>7. DeletedDoomed'
    BY <1>8, <2>3, <2>5 DEF Unlock, DeletedDoomed
  <2>. QED
    BY <2>2, <2>4, <2>6, <2>7 DEF SignerInv
<1>9. ASSUME NEW p \in Profiles, NEW ttl \in Ttls, Use(p, ttl) PROVE SignerInv'
  <2>1. (Empty \/ Slides) /\ Elsewhere
    BY <1>9, UseOfSlot DEF Use, Elsewhere
  <2>. QED
    BY <2>1, OwnerOfSlot, ElsewhereKeeps DEF SlotStep, SignerInv
<1>10. CASE Lock \/ Sweep
  <2>1. Empty /\ Elsewhere
    BY <1>10 DEF Lock, Sweep, Elsewhere
  <2>. QED
    BY <2>1, OwnerOfSlot, ElsewhereKeeps DEF SlotStep, SignerInv
<1>11. CASE TimePasses
  <2>1. Elsewhere
    BY <1>11 DEF TimePasses, Elsewhere
  <2>. QED
    BY <1>11, <2>1, OwnerOfSlot, ElsewhereKeeps DEF SlotStep, SignerInv
<1>12. CASE UNCHANGED signerVars
  <2>1. Keeps /\ Elsewhere
    BY <1>12 DEF signerVars, signerHistory, Keeps, Elsewhere
  <2>. QED
    BY <2>1, OwnerOfSlot, ElsewhereKeeps DEF SlotStep, SignerInv
<1>. QED
  BY <1>1, <1>2, <1>3, <1>4, <1>5, <1>6, <1>7, <1>8, <1>9, <1>10, <1>11, <1>12, <1>13 DEF SignerNext

-----------------------------------------------------------------------------

\* The slot and the profiles keep their types.
THEOREM SignerTypeCorrect == SignerSpec => []SignerTypeOK
<1>1. SignerInv => SignerTypeOK
  BY DEF SignerInv
<1>. QED
  BY <1>1, SignerInitHolds, SignerNextHolds, PTL DEF SignerSpec

\* No key outlives MAX_SESSION_SECS, whatever the timeouts and the uses.
THEOREM KeyGoneCorrect == SignerSpec => []KeyGoneInTime
<1>1. SignerInv => KeyGoneInTime
  BY SignerAssumption DEF SignerInv, UnderCap, KeyGoneInTime
<1>. QED
  BY <1>1, SignerInitHolds, SignerNextHolds, PTL DEF SignerSpec

\* After switches and deletions, however they overlap, only the active
\* profile's key is left, and that profile exists; or one stored too late.
THEOREM OwnKeyCorrect == SignerSpec => []NoKeyOfAnother
<1>1. SignerInv => NoKeyOfAnother
  BY DEF SignerInv, OthersDoomed, DeletedDoomed, NoKeyOfAnother
<1>. QED
  BY <1>1, SignerInitHolds, SignerNextHolds, PTL DEF SignerSpec

-----------------------------------------------------------------------------
(* The local node.                                                         *)

\* What the app holds a handle or a record of, it has spawned; no process
\* has a second life.
Held ==
    /\ \A p \in mine : life[p] # "unborn"
    /\ child \in mine \cup {NoHsd}
    /\ record \in mine \cup {NoHsd}
    /\ start.at \in {"spawned", "waiting"} => start.hsd \in mine

\* What the app has spawned and neither holds nor has lost is dead.  While a
\* start has checked, that is all of them: the one it spawns is the only one.
\* While it is spawned, it is this session's or dead.
Known ==
    /\ NoneForgotten
    /\ start.at = "checked" => (mine \cap Live) \subseteq orphans
    /\ start.at = "spawned" =>
          (mine \cap Live) \subseteq (orphans \cup ({start.hsd} \cap {child}))
    /\ start.at # "spawned" =>
          (mine \cap Live) \subseteq ({record} \cup orphans)

NodeInv == NodeTypeOK /\ OnlyOwnStopped /\ Held /\ Known

\* The invariant holds before anything has run.
LEMMA NodeInitially == NodeInit => NodeInv
<1> SUFFICES ASSUME NodeInit PROVE NodeInv
  OBVIOUS
<1>1. NodeTypeOK
  BY NodeAssumption DEF NodeInit, NodeTypeOK, NotStarting
<1> QED
  BY <1>1 DEF NodeInit, NodeInv, OnlyOwnStopped, Held, Known, NoneForgotten,
       NotStarting, Live, Alive

\* Every step of the app and of the processes keeps the invariant.
LEMMA NodeStep == NodeInv /\ [NodeNext]_nodeVars => NodeInv'
<1> SUFFICES ASSUME NodeInv, [NodeNext]_nodeVars PROVE NodeInv'
  OBVIOUS
<1> USE NodeAssumption DEF NodeInv, NodeTypeOK, OnlyOwnStopped, Held, Known,
        NoneForgotten, Live, Alive
<1>1. ASSUME NEW p \in Hsds, UserStarts(p) PROVE NodeInv'
  BY <1>1 DEF UserStarts, Free
<1>2. ASSUME NEW p \in Hsds, Answers(p) PROVE NodeInv'
  BY <1>2 DEF Answers
<1>3. ASSUME NEW p \in Hsds, Exits(p) PROVE NodeInv'
  BY <1>3 DEF Exits
<1>4. CASE StartChecks
  BY <1>4 DEF StartChecks, MayStart, Left, OwnChild, Named
<1>5. CASE StartRefused
  BY <1>5 DEF StartRefused, NotStarting
<1>6. CASE Spawn
  <2>1. PICK p \in Hsds :
           /\ Free(p)
           /\ life' = [life EXCEPT ![p] = "loading"]
           /\ mine' = mine \cup {p}
           /\ child' = p
           /\ start' = [at |-> "spawned", hsd |-> p]
    BY <1>6 DEF Spawn
  <2>2. NodeTypeOK'
    BY <1>6, <2>1 DEF Spawn
  <2>3. OnlyOwnStopped' /\ Held'
    BY <1>6, <2>1, <2>2 DEF Spawn
  <2>4. Live' = Live \cup {p}
    BY <2>1
  <2>5. (mine \cap Live) \subseteq orphans
    BY <1>6 DEF Spawn
  <2>6. (mine' \cap Live') \subseteq (orphans' \cup {p})
    BY <1>6, <2>1, <2>4, <2>5 DEF Spawn
  <2>7. start'.at = "spawned" /\ start'.hsd = p /\ child' = p
    BY <2>1
  <2>8. Known'
    <3>1. NoneForgotten'
      BY <2>6, <2>7
    <3>2. (mine' \cap Live') \subseteq (orphans' \cup ({start'.hsd} \cap {child'}))
      BY <2>6, <2>7
    <3> QED
      BY <3>1, <3>2, <2>7
  <2> QED
    BY <2>2, <2>3, <2>8
<1>7. CASE Record
  BY <1>7 DEF Record
<1>8. CASE RecordFails
  BY <1>8 DEF RecordFails
<1>9. CASE StartEnds
  BY <1>9 DEF StartEnds, NotStarting
<1>10. CASE StopKillsChild
  BY <1>10 DEF StopKillsChild, OwnChild
<1>11. CASE StopForgetsChild
  BY <1>11 DEF StopForgetsChild, Named
<1>12. CASE StopSignalsLeft
  BY <1>12 DEF StopSignalsLeft, Left, OwnChild, Named, KeptRecord
<1>13. CASE SessionEnds
  BY <1>13 DEF SessionEnds, NotStarting
<1>14. CASE SessionStarts
  BY <1>14 DEF SessionStarts
<1>15. CASE UNCHANGED nodeVars
  BY <1>15 DEF nodeVars
<1> QED
  BY <1>1, <1>2, <1>3, <1>4, <1>5, <1>6, <1>7, <1>8, <1>9, <1>10, <1>11, <1>12,
     <1>13, <1>14, <1>15 DEF NodeNext

(* A stop, a quit or a later session's stop ends no process the app has    *)
(* not spawned, of any number of processes and pids (stop_own_node,        *)
(* local_node.rs:233).                                                     *)
THEOREM OnlyOwnStoppedCorrect == NodeSpec => []OnlyOwnStopped
<1>1. NodeInv => OnlyOwnStopped
  BY DEF NodeInv
<1> QED BY <1>1, NodeInitially, NodeStep, PTL DEF NodeSpec

(* No start, stop and end of the app, in any order, leaves a running node  *)
(* of the app's unknown to it, but for the exceptions that orphans names   *)
(* (own_node, local_node.rs:206, and start_hsd, node.rs:666).              *)
THEOREM NoneForgottenCorrect == NodeSpec => []NoneForgotten
<1>1. NodeInv => NoneForgotten
  BY DEF NodeInv, Known
<1> QED BY <1>1, NodeInitially, NodeStep, PTL DEF NodeSpec

-----------------------------------------------------------------------------
(* The app.                                                                *)

LEMMA NodeTypesKept == NodeSpec => []NodeTypeOK
<1>1. NodeInv => NodeTypeOK
  BY DEF NodeInv
<1>. QED
  BY <1>1, NodeInitially, NodeStep, PTL DEF NodeSpec

\* Each step of the app is one of each protocol's, or leaves it alone: the app
\* behaves as every one of the five.
THEOREM DeskRunsEach ==
    DeskSpec => Spec /\ RemindersSteps /\ SignerSpec /\ ScanSpec /\ NodeSpec
<1>1. DeskInit => Init /\ RemindersInit /\ SignerInit /\ ScanInit /\ NodeInit
  BY DEF DeskInit
<1>2. [DeskNext]_deskVars => [Next]_vars
  BY DEF DeskNext, deskVars
<1>3. [DeskNext]_deskVars => [RemindersNext]_remindVars
  BY DEF DeskNext, deskVars
<1>4. [DeskNext]_deskVars => [SignerNext]_signerVars
  BY DEF DeskNext, deskVars
<1>5. [DeskNext]_deskVars => [ScanNext]_scanVars
  BY DEF DeskNext, deskVars
<1>6. [DeskNext]_deskVars => [NodeNext]_nodeVars
  BY DEF DeskNext, deskVars
<1>. QED
  BY <1>1, <1>2, <1>3, <1>4, <1>5, <1>6, PTL
     DEF DeskSpec, Spec, RemindersSteps, SignerSpec, ScanSpec, NodeSpec

\* The slot of the key, the reminders' claims, the scanner's rows and cursor
\* and the node's handles and records keep their types in the app.
THEOREM DeskTypeCorrect == DeskSpec => []DeskTypeOK
<1>1. RemindersTypeOK /\ SignerTypeOK /\ ScanTypeOK /\ NodeTypeOK => DeskTypeOK
  BY DEF DeskTypeOK
<1>. QED
  BY <1>1, DeskRunsEach, RemindersTypesKept, SignerTypeCorrect, ScanTypesKept, NodeTypesKept, PTL

\* The safety of the lock, the keys, the index and the node.
DeskSafe ==
    /\ TypeOK /\ StaleMeansGone /\ TakeoverNoticedInTime
    /\ KeyGoneInTime /\ NoKeyOfAnother
    /\ IndexComplete
    /\ OnlyOwnStopped /\ NoneForgotten

\* What holds of each of the five alone holds of the app that runs any of them:
\* its lock is not taken from a live run unnoticed (db/sync_lock.rs), its key
\* goes in time and with its profile (noncustodial/session.rs), its index has
\* every bid (chain_scan.rs), its node alone is stopped (node.rs), and its
\* reminders go out once (deadlines.rs).
THEOREM DeskCorrect == DeskSpec => []DeskSafe /\ SentOnce
<1>1. /\ TypeOK /\ StaleMeansGone /\ TakeoverNoticedInTime
      /\ KeyGoneInTime /\ NoKeyOfAnother
      /\ IndexComplete
      /\ OnlyOwnStopped /\ NoneForgotten
      => DeskSafe
  BY DEF DeskSafe
<1>. QED
  BY <1>1, DeskRunsEach, LockTypeCorrect, StaleCorrect, TakeoverCorrect, KeyGoneCorrect,
     OwnKeyCorrect, IndexCompleteCorrect, OnlyOwnStoppedCorrect, NoneForgottenCorrect,
     RemindersSentOnce, PTL
=============================================================================
