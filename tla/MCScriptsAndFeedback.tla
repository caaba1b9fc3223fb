------------------------- MODULE MCScriptsAndFeedback -------------------------
(***************************************************************************)
(* Small instances of what remembers in files: the operator's scripts with  *)
(* their keys and deployment files, and the feedback half of the consumer   *)
(* with its ledger.  They have no file in common, so a behaviour is one of  *)
(* them at work with the other at rest.                                     *)
(***************************************************************************)
EXTENDS Deployments, ConsumerCycle

VARIABLE serving        \* which of the two is at work

FileVars == <<vars, cycleVars, serving>>

FileInit == Init /\ CycleInit /\ serving \in {"scripts", "consumer"}

FileNext ==
    /\ UNCHANGED serving
    /\ \/ serving = "scripts" /\ Next /\ UNCHANGED cycleVars
       \/ serving = "consumer" /\ CycleNext /\ UNCHANGED vars

FileSpec == FileInit /\ [][FileNext]_FileVars /\ CycleFairness
=============================================================================
