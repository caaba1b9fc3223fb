----------------------------- MODULE MCRequests -----------------------------
(***************************************************************************)
(* Small instances of the three request handlers that share nothing: the    *)
(* chain statistics and the premium analyses of the oracle server, and the  *)
(* acquisition server with its form.  A behaviour is one of them at work    *)
(* with the others at rest; interleaving what has no state in common would  *)
(* reach nothing more.                                                     *)
(***************************************************************************)
EXTENDS ChainStats, PremiumJobs, Acquisition

CONSTANTS r1, r2, p1, f1, f2

VARIABLE serving        \* which of the three is at work

\* One event before and one after the reads of the bonds.
TwoEvents == <<"AgentRegistered", "bonds", "AgentSlashed">>

RequestVars == <<vars, premiumVars, acquisitionVars, serving>>

RequestInit ==
    /\ Init /\ PremiumInit /\ AcquisitionInit
    /\ serving \in {"statistics", "premium", "acquisition"}

RequestNext ==
    \/ serving = "statistics" /\ Next /\ UNCHANGED <<premiumVars, acquisitionVars, serving>>
    \/ serving = "premium" /\ PremiumNext /\ UNCHANGED <<vars, acquisitionVars, serving>>
    \/ serving = "acquisition" /\ AcquisitionNext /\ UNCHANGED <<vars, premiumVars, serving>>

RequestSpec == RequestInit /\ [][RequestNext]_RequestVars /\ Fairness /\ AcquisitionFairness
=============================================================================
