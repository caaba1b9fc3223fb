----------------------------- MODULE ExploitBounty -----------------------------
(***************************************************************************)
(* The ExploitBounty contract and the harness that is its verifier: the     *)
(* submission server and the command line run the exploit against a fresh   *)
(* local vault and then send the verdict, so that several runs, and the     *)
(* owner's withdrawal, may race for one target.  The server's rate limit    *)
(* only delays a submission and is left out.                                *)
(*                                                                         *)
(* An operator that no other definition uses is a mutant of the definition  *)
(* right after it.                                                          *)
(***************************************************************************)
EXTENDS CollateralToken

CONSTANTS
    Bounty,             \* the contract's account
    Deployer, Verifier, \* the deployer, and the harness's wallet
    Invariants,         \* invariantId values
    Reentrancy,         \* the one the harness checks
    BountyAmounts,
    Submissions,        \* handlers and command lines that may run at a time
    MaxTargets          \* bound: targets ever registered

TargetIds == 1..MaxTargets

ASSUME BountyAssumption ==
    /\ Bounty \in Escrows /\ Reentrancy \in Invariants
    /\ BountyAmounts \subseteq Nat \ {0} /\ MaxTargets \in Nat

VARIABLES
    targets, nextTargetId,
    authorizedVerifier,
    teeVerified,        \* the harness's wallet is in the registry
    run                 \* per submission: the verdict it is about to send

bountyVars == <<targets, nextTargetId, authorizedVerifier, teeVerified, run>>

NoTarget == [owner |-> Nobody]
NoRun    == [target |-> 0]

-----------------------------------------------------------------------------
\* The contract.

\* funded keeps the amount of the TargetRegistered event, researcher that of
\* BountyPaid.
RegisterTarget(owner, invariant, amount) ==
    /\ nextTargetId \in TargetIds
    /\ targets' = [targets EXCEPT ![nextTargetId] =
                     [owner |-> owner, invariantId |-> invariant, bountyAmount |-> amount,
                      claimed |-> FALSE, withdrawn |-> FALSE,
                      funded |-> amount, researcher |-> Nobody]]
    /\ nextTargetId' = nextTargetId + 1
    /\ Move(owner, Bounty, amount)
    /\ UNCHANGED <<now, authorizedVerifier, teeVerified, run>>

\* A rejected submission is logged only.  A pool its owner has taken back can
\* still be claimed, for the nothing that is left of it.
SubmitVerdict(sender, t, researcher, confirmed, invariant) ==
    /\ sender = authorizedVerifier
    /\ sender = Verifier /\ teeVerified
    /\ targets[t].owner # Nobody
    /\ targets[t].invariantId = invariant
    /\ ~targets[t].claimed
    /\ IF confirmed
       THEN /\ researcher # Nobody
            /\ targets' = [targets EXCEPT ![t].claimed = TRUE, ![t].bountyAmount = 0,
                                          ![t].researcher = researcher]
            /\ Move(Bounty, researcher, targets[t].bountyAmount)
       ELSE UNCHANGED <<targets, balance>>
    /\ UNCHANGED <<now, nextTargetId, authorizedVerifier, teeVerified>>

WithdrawAndKeep(t) ==
    /\ targets[t].owner # Nobody
    /\ ~targets[t].claimed /\ ~targets[t].withdrawn
    /\ targets' = [targets EXCEPT ![t].withdrawn = TRUE]
    /\ Move(Bounty, targets[t].owner, targets[t].bountyAmount)
    /\ UNCHANGED <<now, nextTargetId, authorizedVerifier, teeVerified, run>>
WithdrawBounty(t) ==
    /\ targets[t].owner # Nobody
    /\ ~targets[t].claimed /\ ~targets[t].withdrawn
    /\ targets' = [targets EXCEPT ![t].withdrawn = TRUE, ![t].bountyAmount = 0]
    /\ Move(Bounty, targets[t].owner, targets[t].bountyAmount)
    /\ UNCHANGED <<now, nextTargetId, authorizedVerifier, teeVerified, run>>

SetAuthorizedVerifier(v) ==
    /\ authorizedVerifier' = v
    /\ UNCHANGED <<tokenVars, targets, nextTargetId, teeVerified, run>>

\* ArcIDRegistryV2.registerAgent by the harness's wallet.
RegisterVerifier ==
    /\ teeVerified' = TRUE
    /\ UNCHANGED <<tokenVars, targets, nextTargetId, authorizedVerifier, run>>

-----------------------------------------------------------------------------
\* A submission: POST /submit, or the harness from the command line.

\* Only the mode "control" tests the fixed vault.  Any well-formed address
\* is a researcher, the zero address too.
VaultFor(mode) == IF mode = "control" THEN "VulnerableVaultFixed" ELSE "VulnerableVault"

\* runExploit: the attacker ends with more than its deposit just when the
\* vault pays before it clears the balance.
Breach(vault) == vault = "VulnerableVault"

\* The exploit runs on a chain of its own; nobody else sees it run.
RunExploit(s, t, researcher, mode) ==
    /\ run[s] = NoRun
    /\ run' = [run EXCEPT ![s] =
                 [target |-> t, researcher |-> researcher, breach |-> Breach(VaultFor(mode))]]
    /\ UNCHANGED <<tokenVars, targets, nextTargetId, authorizedVerifier, teeVerified>>

\* The server refuses a researcher that is no address before it runs anything;
\* the command line finds out when it sends, which is then a failure.
Submit(s, t, mode) == \E researcher \in Wallets \cup {Nobody} : RunExploit(s, t, researcher, mode)
HarnessMain(s, t, mode) ==
    \E researcher \in Wallets \cup {Nobody, "malformed"} : RunExploit(s, t, researcher, mode)

\* submitOnChain; whether the answer then arrives changes nothing.
SubmitOnChain(s) ==
    /\ run[s] # NoRun /\ run[s].researcher # "malformed"
    /\ SubmitVerdict(Verifier, run[s].target, run[s].researcher, run[s].breach, Reentrancy)
    /\ run' = [run EXCEPT ![s] = NoRun]

\* A missing key, a local chain that fails, a revert, a crash.
SubmissionFails(s) ==
    /\ run[s] # NoRun
    /\ run' = [run EXCEPT ![s] = NoRun]
    /\ UNCHANGED <<tokenVars, targets, nextTargetId, authorizedVerifier, teeVerified>>

-----------------------------------------------------------------------------
BountyInit ==
    /\ targets = [t \in TargetIds |-> NoTarget]
    /\ nextTargetId = 1
    /\ authorizedVerifier = Deployer
    /\ teeVerified \in BOOLEAN
    /\ run = [s \in Submissions |-> NoRun]

BountyNext ==
    \/ \E w \in Wallets, i \in Invariants, amount \in BountyAmounts : RegisterTarget(w, i, amount)
    \/ \E t \in TargetIds : WithdrawBounty(t)
    \/ \E v \in {Deployer, Verifier} : SetAuthorizedVerifier(v)
    \/ RegisterVerifier
    \/ \E s \in Submissions :
          \/ \E t \in TargetIds, mode \in {"exploit", "control"} :
                Submit(s, t, mode) \/ HarnessMain(s, t, mode)
          \/ SubmitOnChain(s) \/ SubmissionFails(s)

-----------------------------------------------------------------------------
\* What the state of the targets says each account holds.

Open(t) == targets[t].owner # Nobody /\ ~targets[t].claimed /\ ~targets[t].withdrawn

\* A claim pays only what no withdrawal took before it.
Paid(t) == targets[t].owner # Nobody /\ targets[t].claimed /\ ~targets[t].withdrawn

\* What the pool of a target still holds, and what a target has brought a
\* person so far.
TargetHeld(t) == IF Open(t) THEN targets[t].funded ELSE 0
TargetGain(w, t) ==
    (IF Paid(t) /\ targets[t].researcher = w THEN targets[t].funded ELSE 0)
      - (IF (Open(t) \/ Paid(t)) /\ targets[t].owner = w THEN targets[t].funded ELSE 0)

BountiesHeld  == SumFunctionOnSet([t \in TargetIds |-> TargetHeld(t)], TargetIds)
BountyGain(w) == SumFunctionOnSet([t \in TargetIds |-> TargetGain(w, t)], TargetIds)
=============================================================================
