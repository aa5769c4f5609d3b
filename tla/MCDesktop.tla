------------------------------ MODULE MCDesktop ------------------------------
(* Five protocols of the desktop app that share no state, in one run: the  *)
(* sync lock, the reminders, the signer, the chain scanner, the local      *)
(* node.  Which one moves is chosen at the start; the others rest.         *)
EXTENDS MCSyncLock, Reminders, SignerSession, ChainScan, LocalNode, TLC

CONSTANTS sale, reveal, alice, bob, bid1, bid2, hsd1, hsd2, hsd3

OpenHeights == bid1 :> 1 @@ bid2 :> 2

\* hsd1 and hsd2 have one pid, one after the other.
Pids == hsd1 :> 1 @@ hsd2 :> 1 @@ hsd3 :> 2

VARIABLE part

deskVars == <<part, vars, remindVars, signerVars, scanVars, nodeVars>>

locked == part = "lock"
reminds == part = "reminders"
signs == part = "signer"
scans == part = "scanner"
runsNode == part = "node"

DeskInit ==
    /\ part \in {"lock", "reminders", "signer", "scanner", "node"}
    /\ Init
    /\ RemindersInit
    /\ SignerInit
    /\ ScanInit
    /\ NodeInit
    /\ reminds \/ (daily = {} /\ stays = "app")

DeskNext ==
    /\ UNCHANGED part
    /\ \/ locked /\ Next /\ UNCHANGED <<remindVars, signerVars, scanVars, nodeVars>>
       \/ reminds /\ RemindersNext /\ UNCHANGED <<vars, signerVars, scanVars, nodeVars>>
       \/ signs /\ SignerNext /\ UNCHANGED <<vars, remindVars, scanVars, nodeVars>>
       \/ scans /\ ScanNext /\ UNCHANGED <<vars, remindVars, signerVars, nodeVars>>
       \/ runsNode /\ NodeNext /\ UNCHANGED <<vars, remindVars, signerVars, scanVars>>

\* The fairness of each of them, while it is the one that moves.
DeskFairness ==
    /\ WF_vars(locked /\ Tick)
    /\ \A t \in Threads : WF_vars(locked /\ Goes(t))
    /\ WF_remindVars(reminds /\ BeatAges)
    /\ WF_remindVars(reminds /\ DaemonGoesOn)
    /\ WF_remindVars(reminds /\ AppGoesOn)

DeskSpec == DeskInit /\ [][DeskNext]_deskVars /\ DeskFairness

\* Stops, of one run and one cycle: the others differ in name only.
LostRunsStop == \A t \in {run1, cycle1} : Stops(t)

DeskTypeOK == RemindersTypeOK /\ SignerTypeOK /\ ScanTypeOK /\ NodeTypeOK
=============================================================================
