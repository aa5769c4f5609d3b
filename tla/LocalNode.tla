------------------------------ MODULE LocalNode ------------------------------
(***************************************************************************)
(* The app's own hsd of one network: it is started by one task, stopped by *)
(* another, and survives the app; the next session knows it by the record  *)
(* of its pid and start time.  The user runs processes as well, and a pid  *)
(* is used again.                                                          *)
(*                                                                         *)
(* Code: src/src-tauri/src/commands/local_node.rs, and the start, stop and *)
(* quit of src/src-tauri/src/commands/node.rs.                             *)
(*                                                                         *)
(* A quit that leaves the node running is SessionEnds; one that stops it is a  *)
(* stop and then SessionEnds.  Not modelled: the re-sync; a pid used again     *)
(* between own_node's look and the signal; the generated API key.          *)
(***************************************************************************)
EXTENDS Integers, FiniteSets

CONSTANTS
    Hsds,           \* processes, each of one life
    PidOf,          \* their pids: two of them may share one, one after the other
    NoHsd

ASSUME NodeAssumption ==
    /\ NoHsd \notin Hsds
    /\ PidOf \in [Hsds -> Nat]

VARIABLES
    life,           \* of each process: a loading hsd does not answer yet
    mine,           \* processes the app has spawned (history)
    appUp,
    child,          \* hsd_children: this session's
    record,         \* the pid file, with the start time: the process it was written for
    start,          \* start_hsd: how far, and the process it spawned
    forgets,        \* stop_own_node has killed the child and not yet removed the record
    stopped,        \* processes the app has killed or sent a SIGTERM (history)
    orphans         \* spawned and not recorded, or robbed of its record (history)

nodeVars == <<life, mine, appUp, child, record, start, forgets, stopped, orphans>>

Alive(p) == life[p] \in {"loading", "serving", "closing"}
Live == {p \in Hsds : Alive(p)}

NotStarting == [at |-> "idle", hsd |-> NoHsd]

NodeTypeOK ==
    /\ life \in [Hsds -> {"unborn", "loading", "serving", "closing", "gone"}]
    /\ appUp \in BOOLEAN /\ forgets \in BOOLEAN
    /\ child \in Hsds \cup {NoHsd} /\ record \in Hsds \cup {NoHsd}
    /\ start \in [at : {"idle", "checked", "spawned", "waiting"}, hsd : Hsds \cup {NoHsd}]
    /\ mine \subseteq Hsds /\ stopped \subseteq Hsds /\ orphans \subseteq Hsds

NodeInit ==
    /\ life = [p \in Hsds |-> "unborn"]
    /\ appUp = TRUE
    /\ child = NoHsd
    /\ record = NoHsd
    /\ start = NotStarting
    /\ forgets = FALSE
    /\ mine = {} /\ stopped = {} /\ orphans = {}

-----------------------------------------------------------------------------
(* Which process is the app's own.                                         *)

\* Mutant of Named: by the pid alone.
NamedByPid == {p \in Live : record # NoHsd /\ PidOf[p] = PidOf[record]}

\* own_node_pid: the process that has the record's pid and its start time.
Named == {record} \cap Live

\* own_node: the child while it lives, else the one an earlier session left.
OwnChild == {child} \cap Live
Left == IF OwnChild = {} THEN Named ELSE {}

-----------------------------------------------------------------------------
(* The processes.                                                          *)

Free(p) == life[p] = "unborn" /\ \A q \in Live : PidOf[q] # PidOf[p]

UserStarts(p) ==
    /\ Free(p)
    /\ life' = [life EXCEPT ![p] = "loading"]
    /\ UNCHANGED <<mine, appUp, child, record, start, forgets, stopped, orphans>>

Answers(p) ==
    /\ life[p] = "loading"
    /\ \A q \in Hsds : life[q] # "serving"
    /\ life' = [life EXCEPT ![p] = "serving"]
    /\ UNCHANGED <<mine, appUp, child, record, start, forgets, stopped, orphans>>

Exits(p) ==
    /\ Alive(p)
    /\ life' = [life EXCEPT ![p] = "gone"]
    /\ UNCHANGED <<mine, appUp, child, record, start, forgets, stopped, orphans>>

-----------------------------------------------------------------------------
(* start_hsd.                                                              *)

\* Mutant of MayStart: the node an earlier session left is not looked for.
MayStartOverLeft == OwnChild = {}

\* No own node is running, and none answers that could be adopted.
MayStart == OwnChild = {} /\ Left = {}

StartChecks ==
    /\ appUp
    /\ start.at = "idle"
    /\ MayStart
    /\ \A p \in Hsds : life[p] # "serving"
    /\ start' = [start EXCEPT !.at = "checked"]
    /\ UNCHANGED <<life, mine, appUp, child, record, forgets, stopped, orphans>>

\* The port is held, the binary too old, the data directory unusable.
StartRefused ==
    /\ start.at = "checked"
    /\ start' = NotStarting
    /\ UNCHANGED <<life, mine, appUp, child, record, forgets, stopped, orphans>>

\* Starts exclude each other, so no other child can have landed meanwhile.
Spawn ==
    /\ start.at = "checked"
    /\ \E p \in Hsds :
           /\ Free(p)
           /\ life' = [life EXCEPT ![p] = "loading"]
           /\ mine' = mine \cup {p}
           /\ child' = p
           /\ start' = [at |-> "spawned", hsd |-> p]
    /\ UNCHANGED <<appUp, record, forgets, stopped, orphans>>

\* write_pid_file: a process that is gone already has no start time.
Record ==
    /\ start.at = "spawned"
    /\ record' = IF Alive(start.hsd) THEN start.hsd ELSE record
    /\ start' = [start EXCEPT !.at = "waiting"]
    /\ UNCHANGED <<life, mine, appUp, child, forgets, stopped, orphans>>

RecordFails ==
    /\ start.at = "spawned"
    /\ orphans' = orphans \cup {start.hsd}
    /\ start' = [start EXCEPT !.at = "waiting"]
    /\ UNCHANGED <<life, mine, appUp, child, record, forgets, stopped>>

\* It answers, it has exited, or the wait times out.
StartEnds ==
    /\ start.at = "waiting"
    /\ child' = IF child \in Live THEN child ELSE NoHsd
    /\ start' = NotStarting
    /\ UNCHANGED <<life, mine, appUp, record, forgets, stopped, orphans>>

-----------------------------------------------------------------------------
(* stop_own_node, and the app's end.                                       *)

StopKillsChild ==
    /\ appUp /\ ~forgets
    /\ OwnChild # {}
    /\ life' = [life EXCEPT ![child] = "gone"]
    /\ stopped' = stopped \cup {child}
    /\ child' = NoHsd
    /\ forgets' = TRUE
    /\ UNCHANGED <<mine, appUp, record, start, orphans>>

\* remove_pid_file: a start may have written its own record meanwhile.
StopForgetsChild ==
    /\ forgets
    /\ forgets' = FALSE
    /\ record' = NoHsd
    /\ orphans' = orphans \cup Named
    /\ UNCHANGED <<life, mine, appUp, child, start, stopped>>

\* Mutant of KeptRecord: the record of a node still closing is removed.
KeptRecordNot == NoHsd

\* The record stays while the process runs.
KeptRecord == record

StopSignalsLeft ==
    /\ appUp /\ ~forgets
    /\ Left # {}
    /\ life' = [p \in Hsds |-> IF p \in Left THEN "closing" ELSE life[p]]
    /\ stopped' = stopped \cup Left
    /\ record' = KeptRecord
    /\ UNCHANGED <<mine, appUp, child, start, forgets, orphans>>

\* A quit or a crash: the child goes on without its handle.
SessionEnds ==
    /\ appUp
    /\ appUp' = FALSE
    /\ child' = NoHsd
    /\ start' = NotStarting
    /\ forgets' = FALSE
    /\ orphans' = IF start.at = "spawned" THEN orphans \cup {start.hsd} ELSE orphans
    /\ UNCHANGED <<life, mine, record, stopped>>

SessionStarts ==
    /\ ~appUp
    /\ appUp' = TRUE
    /\ UNCHANGED <<life, mine, child, record, start, forgets, stopped, orphans>>

NodeNext ==
    \/ \E p \in Hsds : UserStarts(p) \/ Answers(p) \/ Exits(p)
    \/ StartChecks \/ StartRefused \/ Spawn \/ Record \/ RecordFails \/ StartEnds
    \/ StopKillsChild \/ StopForgetsChild \/ StopSignalsLeft
    \/ SessionEnds \/ SessionStarts

NodeSpec == NodeInit /\ [][NodeNext]_nodeVars

-----------------------------------------------------------------------------
(* A stop and a quit end processes the app has spawned and no other, also  *)
(* sessions later, when the pid it recorded is another process's           *)
(* (local_node.rs:106, 116: only a pid own_node_pid vouched for).          *)
OnlyOwnStopped == stopped \subseteq mine

(* Every node the app has spawned and that still runs is known as its own, *)
(* by this session's handle or by the record, whatever was started and     *)
(* stopped in whatever order; node.rs:691 says of a second hsd over the    *)
(* data directory of a silent one that it would take its record.  The      *)
(* exceptions are in orphans: no record was written before the app ended or   *)
(* because the write failed (best effort, node.rs:862), or the late end of *)
(* a stop removed the record of a start that followed it.                  *)
NoneForgotten == (mine \cap Live) \subseteq ({child, record} \cup orphans)
=============================================================================
