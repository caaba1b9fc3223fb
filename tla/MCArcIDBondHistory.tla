------------------------- MODULE MCArcIDBondHistory -------------------------
(***************************************************************************)
(* Small instances of ArcIDBondHistory, with both cliffs at two breaches so *)
(* that an agent reaches either of them.  A basis point is a tenth here, an *)
(* epoch two ticks; hard 40% of the bond, semantic min(2, 30%), a semantic  *)
(* amount above 1 goes to dispute.                                          *)
(***************************************************************************)
EXTENDS ArcIDBondHistory

CONSTANTS a1, c1, s1, h1, h2, r1

SmallConfig ==
    [ feeAtomic |-> 1, feeMultiple |-> 2,
      capBps    |-> [Semantic |-> 3, Hard |-> 4],
      threshold |-> [Semantic |-> 2, Hard |-> 2],
      challengeThreshold |-> 1, disputeWindow |-> 1 ]

\* Feedback is watched over a shorter stretch: the adapter, and the second
\* hash, only in states of the first epoch with one dispute at most.
Observed ==
    \/ reputationAdapter # NoAdapter \/ feedback # {}
    \/ h2 \in settledVerdicts
    \/ \E a \in Agents : \E i \in DOMAIN breachLog[a] : breachLog[a][i].hash = h2
    \/ \E d \in 1..nextDisputeId : disputes[d].rationaleHash = h2
ObservedBriefly == Observed => now <= 2 /\ nextDisputeId <= 1
=============================================================================
