---------------------------- MODULE MCBondCallers ----------------------------
(***************************************************************************)
(* Small instances of the bond under its two kinds of callers: the owner,   *)
(* who retunes the whole schedule under a bond of some size, and the slash  *)
(* pipeline, which works on a small one through the guard or beside it.     *)
(* They differ in the constants only, so a behaviour starts as one of the   *)
(* two and stays it.  A basis point is a tenth here.                        *)
(***************************************************************************)
EXTENDS SlashPipeline, TLC

CONSTANTS o1, c1, c2, c3, k1, l1, s1, s2, h1, r1

VARIABLE calling        \* whose behaviour it is

-----------------------------------------------------------------------------
\* The pipeline: hard 50% of the bond, semantic min(2, 50%), cliffs at 2 hard
\* and 2 semantic breaches, every semantic amount goes to dispute at first; the
\* owner may retune so that a disputable amount no longer is one.
PipelineConfig ==
    [ feeAtomic |-> 1, feeMultiple |-> 2,
      capBps    |-> [Semantic |-> 5, Hard |-> 5],
      threshold |-> [Semantic |-> 2, Hard |-> 2],
      challengeThreshold |-> 0, disputeWindow |-> 1 ]

Challenges == {<<1, 1>>}

-----------------------------------------------------------------------------
\* The owner: hard 40% of the bond, semantic min(2, 30%), cliffs at 2 hard and
\* 3 semantic breaches, a semantic amount above 1 goes to dispute.  An epoch is
\* two ticks; the amounts are chosen so that the semantic amount crosses the
\* challenge threshold on a fresh bond and falls below it after a breach, and
\* the inputs of the setters include values the contract refuses.
OwnerConfig ==
    [ feeAtomic |-> 1, feeMultiple |-> 2,
      capBps    |-> [Semantic |-> 3, Hard |-> 4],
      threshold |-> [Semantic |-> 3, Hard |-> 2],
      challengeThreshold |-> 1, disputeWindow |-> 1 ]

\* The bond with these inputs, and with slashes that pay these consumers.
Bond(payees) == INSTANCE ArcIDBond WITH
    Consumers <- payees, Slashers <- {s1, s2}, Adapters <- {r1},
    InitialFunds <- 7, PostAmounts <- {7}, EpochDuration <- 2, MaxTime <- 3,
    InitialConfig <- OwnerConfig,
    ScheduleInputs <- {<<4, 10, 2>>, <<2, 11, 4>>}, FeeInputs <- {3},
    ThresholdInputs <- {<<1, 2>>, <<0, 3>>}, ChallengeInputs <- {<<0, 2>>, <<1, 0>>}

OwnerInit == Bond(Consumers)!Init /\ GuardInit /\ LoopsAtRest

OwnerNext == Bond({c1})!Next /\ UNCHANGED <<guardVars, loopVars, trigger>>

-----------------------------------------------------------------------------
CallersInit ==
    \/ calling = "pipeline" /\ PipelineInit
    \/ calling = "owner" /\ OwnerInit

CallersNext ==
    /\ UNCHANGED calling
    /\ \/ calling = "pipeline" /\ PipelineNext
       \/ calling = "owner" /\ OwnerNext

\* Blocks are produced, and anyone may finalize, in either instance.
CallersFairness ==
    /\ WF_vars(calling = "pipeline" /\ Tick)
    /\ WF_vars(calling = "owner" /\ Bond({c1})!Tick)
    /\ \A d \in 1..MaxDisputes : WF_vars(FinalizeExpiredDispute(d))

CallersSpec == CallersInit /\ [][CallersNext]_<<allVars, calling>> /\ CallersFairness
=============================================================================
