-------------------------- MODULE MCRailAndSettlement --------------------------
(***************************************************************************)
(* Small instances of what pays for services and for training: the consumer *)
(* that settles clean verdicts, and the pools and claims of the training    *)
(* rail.  They have no state in common, so a behaviour is one of them at    *)
(* work with the other at rest.  The corpora have an odd and an even number *)
(* of leaves, the amounts leave a remainder; for the consumer a tick is     *)
(* half a minute and an hour two minutes, and the caps let one payment      *)
(* through per minute, two per hour.                                        *)
(***************************************************************************)
EXTENDS TrainingCompensation, ConsumerCycle, TLC

CONSTANTS a1, a2, a3, f1, f2, f3, j1, j2, co1, co2

VARIABLE serving        \* which of the two is at work

SmallCorpora == {<<f1, f2, f3>>, <<f2, f1>>}

SmallRegistrations == {<<a1, f1>>, <<a1, f2>>, <<a2, f2>>, <<a3, f3>>}

PaymentInit == Init /\ CycleInit /\ serving \in {"rail", "consumer"}

PaymentNext ==
    /\ UNCHANGED serving
    /\ \/ serving = "rail" /\ Next /\ UNCHANGED cycleVars
       \/ serving = "consumer" /\ CycleNext /\ UNCHANGED vars

PaymentSpec == PaymentInit /\ [][PaymentNext]_<<vars, cycleVars, serving>>

\* All tracks but one are registered before the first job and the first pool.
RegisteredEarly ==
    (\E f \in {f1, f3} : tracks[f] = Nobody)
        => nextPoolId = 1 /\ \A j \in Jobs : pc[j] = "idle"

Symmetry == Permutations(Jobs)
=============================================================================
