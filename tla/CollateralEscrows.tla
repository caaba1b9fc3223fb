--------------------------- MODULE CollateralEscrows ---------------------------
(***************************************************************************)
(* ExploitBounty and RightsClaimBond on one chain: the same people fund     *)
(* bounties, are paid them, stake and challenge claims, in one token.       *)
(***************************************************************************)
EXTENDS ExploitBounty, RightsClaimBond

\* Two deployments, two addresses.
ASSUME EscrowsAssumption == Bounty # ClaimBond

vars == <<tokenVars, bountyVars, claimVars>>

Init == TokenInit /\ BountyInit /\ ClaimsInit

Next ==
    \/ BountyNext /\ UNCHANGED claimVars
    \/ ClaimsNext /\ UNCHANGED bountyVars
    \/ Tick /\ UNCHANGED <<bountyVars, claimVars>>

Spec == Init /\ [][Next]_vars

-----------------------------------------------------------------------------
\* Every token is where the records of the two contracts say it is: a bounty
\* with its pool, its owner or one researcher, a bond with the contract or
\* the winner, once each, for any race of verdicts, withdrawals, challenges
\* and resolutions (a pool that is both withdrawn and claimed included).
BalancesAreExplained ==
    /\ balance[Bounty] = BountiesHeld
    /\ balance[ClaimBond] = BondsHeld
    /\ \A w \in Wallets : balance[w] = InitialFunds + BountyGain(w) + ClaimGain(w)
=============================================================================
