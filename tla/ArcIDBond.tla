------------------------------ MODULE ArcIDBond ------------------------------
(***************************************************************************)
(* The bond contract: TEE-registered agents post collateral, the authorised *)
(* slasher awards part of it to a consumer on a breach, repeated breaches   *)
(* in one epoch escalate to a full drain and a permanent blacklist, and a   *)
(* large semantic slash waits in a dispute that the owner may resolve and   *)
(* anyone may finalize after its deadline.  Every external function runs as *)
(* one transaction under nonReentrant, so each is one action.               *)
(*                                                                         *)
(* An operator that no other definition uses is a mutant: the definition   *)
(* right after it with a plausible bug, used to show that a property can   *)
(* fail (PROJECT.json says which property each one breaks).                *)
(***************************************************************************)
EXTENDS Integers, FiniteSets, FiniteSetsExt

CONSTANTS
    Agents,             \* wallets that may post a bond
    Consumers,          \* wallets a slash may pay
    Slashers,           \* wallets that may hold the slasher role
    Hashes,             \* rationale and verdict hashes
    BondContract,       \* address(this), the escrow account
    NoAdapter,          \* address(0) for the reputation adapter
    Adapters,           \* non-zero reputation adapter addresses
    InitialFunds,       \* token balance every agent starts with
    PostAmounts,        \* inputs of postBond
    EpochDuration,      \* EPOCH_DURATION in clock ticks
    BpsDenominator,     \* BPS_DENOMINATOR
    InitialConfig,      \* the schedule the contract is deployed with
    ScheduleInputs,     \* <<feeMultiple, semanticCapBps, hardCapBps>> the owner submits
    FeeInputs,          \* inputs of setServiceFee
    ThresholdInputs,    \* <<hard, semantic>> the owner submits
    ChallengeInputs,    \* <<challengeThreshold, disputeWindow>> the owner submits
    MaxTime,            \* bound: last value of the clock; deadlines lie within it
    MaxDisputes         \* bound: number of disputes filed

BreachClass == {"Semantic", "Hard"}

\* The slash schedule: fee basis, cap in basis points and escalation
\* threshold per breach class, and the challenge window's parameters.
Configs ==
    [ feeAtomic: Nat, feeMultiple: Nat,
      capBps: [BreachClass -> 0..BpsDenominator],
      threshold: [BreachClass -> Nat \ {0}],
      challengeThreshold: Nat, disputeWindow: Nat \ {0} ]

ASSUME BondAssumption ==
    /\ IsFiniteSet(Agents)
    /\ Agents \cap Consumers = {}
    /\ BondContract \notin Agents \cup Consumers
    /\ NoAdapter \notin Adapters
    /\ InitialFunds \in Nat
    /\ PostAmounts \subseteq Nat
    /\ EpochDuration \in Nat \ {0}
    /\ BpsDenominator \in Nat \ {0}
    /\ InitialConfig \in Configs
    /\ ScheduleInputs \subseteq Nat \X Nat \X Nat
    /\ FeeInputs \subseteq Nat
    /\ ThresholdInputs \subseteq Nat \X Nat
    /\ ChallengeInputs \subseteq Nat \X Nat
    /\ MaxTime \in Nat \ {0}
    /\ MaxDisputes \in Nat

VARIABLES
    now,                \* block.timestamp
    balance,            \* collateral token balances
    registered,         \* agents with registry.agentIdBySigner /= 0
    bonds,              \* per agent: remaining amount, postedAt /= 0, slashed
    breachEpochs,       \* per agent: epochStart and the two breach counts
    blacklisted,        \* agents barred from postBond for ever
    settledVerdicts,    \* verdict hashes recordSettlement has seen
    disputes,           \* per dispute id, the filed claim and its state
    nextDisputeId,      \* last dispute id given out
    config,             \* the owner-tunable schedule
    authorizedSlasher,
    reputationAdapter,
    feedback            \* ERC-8004 feedback the adapter has accepted

bondVars  == <<bonds, balance>>
adminVars == <<config, authorizedSlasher, reputationAdapter>>
vars == <<now, balance, registered, bonds, breachEpochs, blacklisted, settledVerdicts,
          disputes, nextDisputeId, config, authorizedSlasher, reputationAdapter, feedback>>

Accounts     == Agents \cup Consumers \cup {BondContract}
NoBond       == [amount |-> 0, posted |-> FALSE, slashed |-> FALSE]
NoDispute    == [state |-> "None"]
NoEpoch      == [epochStart |-> 0, count |-> [class \in BreachClass |-> 0]]

-----------------------------------------------------------------------------
\* Views.

IsActiveBondedAgent(a) == bonds[a].posted /\ ~bonds[a].slashed

EpochExpired(a) ==
    \/ breachEpochs[a].epochStart = 0
    \/ now >= breachEpochs[a].epochStart + EpochDuration

\* The count a breach of this class would continue from, after expiry.
EpochCount(a, class) == IF EpochExpired(a) THEN 0 ELSE breachEpochs[a].count[class]

AtMost(x, bound)  == IF x < bound THEN x ELSE bound
Share(x, bps)     == (x * bps) \div BpsDenominator

UncappedSlashAmount(remaining, class) ==
    AtMost(IF class = "Hard" THEN Share(remaining, config.capBps[class])
           ELSE config.feeMultiple * config.feeAtomic, remaining)
ComputeSlashAmount(remaining, class) ==
    LET cap   == Share(remaining, config.capBps[class])
        share == IF class = "Hard" THEN cap
                 ELSE AtMost(config.feeMultiple * config.feeAtomic, cap)
        floored == IF share = 0 /\ remaining > 0 THEN 1 ELSE share
    IN  AtMost(floored, remaining)

EscalateOnStoredCount(a, class) ==
    IsActiveBondedAgent(a) /\ breachEpochs[a].count[class] + 1 >= config.threshold[class]
WouldEscalate(a, class) ==
    /\ IsActiveBondedAgent(a)
    /\ EpochCount(a, class) + 1 >= config.threshold[class]

PreviewSlash(a, class) ==
    IF ~IsActiveBondedAgent(a) THEN 0
    ELSE IF WouldEscalate(a, class) THEN bonds[a].amount
    ELSE ComputeSlashAmount(bonds[a].amount, class)

-----------------------------------------------------------------------------
\* Effects shared by several functions.

Transfer(from, to, amount) ==
    balance' = [balance EXCEPT ![from] = @ - amount, ![to] = @ + amount]

\* The adapter call sits in try/catch: it may record feedback or fail, and
\* either way the surrounding transaction commits.
ReportFeedback(entry) ==
    \/ UNCHANGED feedback
    \/ /\ reputationAdapter # NoAdapter
       /\ feedback' = feedback \cup {entry}

\* The counting and the taking of _executeSlash.
CliffPastThreshold(newCount, class) == newCount > config.threshold[class]
CliffOneEarly(newCount, class)      == newCount + 1 >= config.threshold[class]
Escalates(newCount, class)          == newCount >= config.threshold[class]

BarWithoutDrain(a, class, escalated) == ComputeSlashAmount(bonds[a].amount, class)
SlashedAmount(a, class, escalated) ==
    IF escalated THEN bonds[a].amount ELSE ComputeSlashAmount(bonds[a].amount, class)

\* _executeSlash: the counter reset, the escalation test, the fund movement.
\* Only the breached class's stored counter is written; a fresh epoch
\* restarts the local counts but leaves the other class's stored one.
ExecuteSlash(a, c, class, h) ==
    LET newCount  == EpochCount(a, class) + 1
        start     == IF EpochExpired(a) THEN now ELSE breachEpochs[a].epochStart
        escalated == Escalates(newCount, class)
        amount    == SlashedAmount(a, class, escalated)
        left      == bonds[a].amount - amount
    IN  /\ IsActiveBondedAgent(a)
        /\ breachEpochs' = [breachEpochs EXCEPT ![a] =
                              [epochStart |-> start, count |-> [@.count EXCEPT ![class] = newCount]]]
        /\ bonds' = [bonds EXCEPT ![a] =
                       [amount |-> left, posted |-> TRUE, slashed |-> (left = 0)]]
        /\ blacklisted' = IF escalated THEN blacklisted \cup {a} ELSE blacklisted
        /\ Transfer(BondContract, c, amount)
        /\ ReportFeedback(<<class, a, h>>)

\* _executeSlashOrVoid: a dispute against a bond already slashed is moot.
ExecuteSlashAlways(a, c, h) == ExecuteSlash(a, c, "Semantic", h)
VoidAndReport(a, c, h) ==
    \/ /\ bonds[a].slashed
       /\ UNCHANGED <<bonds, balance, breachEpochs, blacklisted>>
       /\ ReportFeedback(<<"Semantic", a, h>>)
    \/ /\ ~bonds[a].slashed
       /\ ExecuteSlash(a, c, "Semantic", h)
ExecuteSlashOrVoid(a, c, h) ==
    \/ /\ bonds[a].slashed
       /\ UNCHANGED <<bonds, balance, breachEpochs, blacklisted, feedback>>
    \/ /\ ~bonds[a].slashed
       /\ ExecuteSlash(a, c, "Semantic", h)

-----------------------------------------------------------------------------
\* External functions.

PostBondWhenBarred(a, amount) ==
    /\ amount > 0
    /\ a \in registered
    /\ ~IsActiveBondedAgent(a)
    /\ balance[a] >= amount
    /\ Transfer(a, BondContract, amount)
    /\ bonds' = [bonds EXCEPT ![a] =
                   [amount |-> amount, posted |-> TRUE, slashed |-> FALSE]]
    /\ UNCHANGED <<now, registered, breachEpochs, blacklisted, settledVerdicts,
                   disputes, nextDisputeId, adminVars, feedback>>

PostBond(a, amount) ==
    /\ amount > 0
    /\ a \notin blacklisted
    /\ a \in registered
    /\ ~IsActiveBondedAgent(a)
    /\ balance[a] >= amount
    /\ Transfer(a, BondContract, amount)
    /\ bonds' = [bonds EXCEPT ![a] =
                   [amount |-> amount, posted |-> TRUE, slashed |-> FALSE]]
    /\ UNCHANGED <<now, registered, breachEpochs, blacklisted, settledVerdicts,
                   disputes, nextDisputeId, adminVars, feedback>>

\* slash(): a large semantic breach that does not escalate is refused here.
SlashAdmits(a, class) ==
    ~ /\ class = "Semantic"
      /\ ~WouldEscalate(a, class)
      /\ PreviewSlash(a, class) > config.challengeThreshold

Slash(s, a, c, class, h) ==
    /\ s = authorizedSlasher
    /\ SlashAdmits(a, class)
    /\ ExecuteSlash(a, c, class, h)
    /\ UNCHANGED <<now, registered, settledVerdicts, disputes, nextDisputeId, adminVars>>

RecordSettlement(s, a, h) ==
    /\ s = authorizedSlasher
    /\ IsActiveBondedAgent(a)
    /\ h \notin settledVerdicts
    /\ settledVerdicts' = settledVerdicts \cup {h}
    /\ ReportFeedback(<<"Settled", a, h>>)
    /\ UNCHANGED <<now, balance, registered, bonds, breachEpochs, blacklisted,
                   disputes, nextDisputeId, adminVars>>

IndictmentAdmits(a) ==
    /\ IsActiveBondedAgent(a)
    /\ ~WouldEscalate(a, "Semantic")
    /\ PreviewSlash(a, "Semantic") > config.challengeThreshold

FileIndictment(s, a, c, h) ==
    /\ s = authorizedSlasher
    /\ IndictmentAdmits(a)
    /\ nextDisputeId < MaxDisputes
    /\ now + config.disputeWindow <= MaxTime
    /\ nextDisputeId' = nextDisputeId + 1
    /\ disputes' = [disputes EXCEPT ![nextDisputeId + 1] =
                      [ consumer |-> c, provider |-> a, rationaleHash |-> h,
                        claimAmount |-> PreviewSlash(a, "Semantic"),
                        challengeDeadline |-> now + config.disputeWindow,
                        state |-> "Indicted" ]]
    /\ UNCHANGED <<now, balance, registered, bonds, breachEpochs, blacklisted,
                   settledVerdicts, adminVars, feedback>>

\* Marks the dispute resolved; shared by the owner's and the public path.
CloseDispute(d) ==
    /\ disputes[d].state = "Indicted"
    /\ disputes' = [disputes EXCEPT ![d].state = "Resolved"]
    /\ UNCHANGED <<now, registered, settledVerdicts, nextDisputeId, adminVars>>

ApproveDispute(d) ==
    /\ CloseDispute(d)
    /\ ExecuteSlashOrVoid(disputes[d].provider, disputes[d].consumer, disputes[d].rationaleHash)

RejectAndForget(d) ==
    /\ disputes[d].state = "Indicted"
    /\ disputes' = [disputes EXCEPT ![d] = NoDispute]
    /\ UNCHANGED <<now, registered, settledVerdicts, nextDisputeId, adminVars>>
    /\ UNCHANGED <<bonds, balance, breachEpochs, blacklisted, feedback>>

RejectDispute(d) ==
    /\ CloseDispute(d)
    /\ UNCHANGED <<bonds, balance, breachEpochs, blacklisted, feedback>>

ResolveDispute(d, approved) == IF approved THEN ApproveDispute(d) ELSE RejectDispute(d)

FinalizeExpiredDispute(d) ==
    /\ CloseDispute(d)
    /\ now >= disputes[d].challengeDeadline
    /\ ExecuteSlashOrVoid(disputes[d].provider, disputes[d].consumer, disputes[d].rationaleHash)

WithdrawAndLaunder(a) ==
    /\ IsActiveBondedAgent(a)
    /\ Transfer(BondContract, a, bonds[a].amount)
    /\ bonds' = [bonds EXCEPT ![a] = NoBond]
    /\ breachEpochs' = [breachEpochs EXCEPT ![a] = NoEpoch]
    /\ UNCHANGED <<now, registered, blacklisted, settledVerdicts,
                   disputes, nextDisputeId, adminVars, feedback>>

DeleteBeforeRead(a) ==
    /\ IsActiveBondedAgent(a)
    /\ bonds' = [bonds EXCEPT ![a] = NoBond]
    /\ UNCHANGED <<now, balance, registered, breachEpochs, blacklisted, settledVerdicts,
                   disputes, nextDisputeId, adminVars, feedback>>

WithdrawBond(a) ==
    /\ IsActiveBondedAgent(a)
    /\ Transfer(BondContract, a, bonds[a].amount)
    /\ bonds' = [bonds EXCEPT ![a] = NoBond]
    /\ UNCHANGED <<now, registered, breachEpochs, blacklisted, settledVerdicts,
                   disputes, nextDisputeId, adminVars, feedback>>

-----------------------------------------------------------------------------
\* Owner functions.

unchangedByOwner == <<now, balance, registered, bonds, breachEpochs, blacklisted,
                      settledVerdicts, disputes, nextDisputeId, feedback>>

PerClass(semantic, hard) ==
    [class \in BreachClass |-> IF class = "Hard" THEN hard ELSE semantic]

Retune(new) ==
    /\ config' = new
    /\ UNCHANGED <<unchangedByOwner, authorizedSlasher, reputationAdapter>>

SetSlashParameters(multiple, semanticBps, hardBps) ==
    /\ semanticBps <= BpsDenominator
    /\ hardBps <= BpsDenominator
    /\ Retune([config EXCEPT !.feeMultiple = multiple,
                              !.capBps = PerClass(semanticBps, hardBps)])

SetServiceFee(fee) == Retune([config EXCEPT !.feeAtomic = fee])

SetEscalationThresholds(hard, semantic) ==
    /\ hard # 0
    /\ semantic # 0
    /\ Retune([config EXCEPT !.threshold = PerClass(semantic, hard)])

SetChallengeParameters(threshold, window) ==
    /\ window # 0
    /\ Retune([config EXCEPT !.challengeThreshold = threshold, !.disputeWindow = window])

SetAuthorizedSlasher(s) ==
    /\ authorizedSlasher' = s
    /\ UNCHANGED <<unchangedByOwner, config, reputationAdapter>>

SetReputationAdapter(r) ==
    /\ reputationAdapter' = r
    /\ UNCHANGED <<unchangedByOwner, config, authorizedSlasher>>

-----------------------------------------------------------------------------
\* Environment: the registry gives an attested signer an agentId, time passes.

RegisterAgent(a) ==
    /\ registered' = registered \cup {a}
    /\ UNCHANGED <<now, balance, bonds, breachEpochs, blacklisted, settledVerdicts,
                   disputes, nextDisputeId, adminVars, feedback>>

Tick ==
    /\ now < MaxTime
    /\ now' = now + 1
    /\ UNCHANGED <<balance, registered, bonds, breachEpochs, blacklisted,
                   settledVerdicts, disputes, nextDisputeId, adminVars, feedback>>

-----------------------------------------------------------------------------

Init ==
    /\ now = 1
    /\ balance = [x \in Accounts |-> IF x \in Agents THEN InitialFunds ELSE 0]
    /\ registered = {}
    /\ bonds = [a \in Agents |-> NoBond]
    /\ breachEpochs = [a \in Agents |-> NoEpoch]
    /\ blacklisted = {}
    /\ settledVerdicts = {}
    /\ disputes = [d \in 1..MaxDisputes |-> NoDispute]
    /\ nextDisputeId = 0
    /\ config = InitialConfig
    /\ authorizedSlasher \in Slashers
    /\ reputationAdapter = NoAdapter
    /\ feedback = {}

AgentStep ==
    \E a \in Agents :
        \/ \E n \in PostAmounts : PostBond(a, n)
        \/ WithdrawBond(a)

SlasherStep ==
    \E s \in Slashers, a \in Agents, h \in Hashes :
        \/ \E c \in Consumers, class \in BreachClass : Slash(s, a, c, class, h)
        \/ RecordSettlement(s, a, h)
        \/ \E c \in Consumers : FileIndictment(s, a, c, h)

OwnerStep ==
    \/ \E d \in 1..MaxDisputes, approved \in BOOLEAN : ResolveDispute(d, approved)
    \/ \E x \in ScheduleInputs : SetSlashParameters(x[1], x[2], x[3])
    \/ \E fee \in FeeInputs : SetServiceFee(fee)
    \/ \E x \in ThresholdInputs : SetEscalationThresholds(x[1], x[2])
    \/ \E x \in ChallengeInputs : SetChallengeParameters(x[1], x[2])
    \/ \E s \in Slashers : SetAuthorizedSlasher(s)
    \/ \E r \in Adapters \cup {NoAdapter} : SetReputationAdapter(r)

PublicStep == \E d \in 1..MaxDisputes : FinalizeExpiredDispute(d)

Next ==
    \/ AgentStep
    \/ SlasherStep
    \/ OwnerStep
    \/ PublicStep
    \/ \E a \in Agents : RegisterAgent(a)
    \/ Tick

Spec == Init /\ [][Next]_vars

-----------------------------------------------------------------------------
\* Type invariant.

Epochs == [epochStart: Nat, count: [BreachClass -> Nat]]

FiledDisputes ==
    [ consumer: Consumers, provider: Agents, rationaleHash: Hashes, claimAmount: Nat,
      challengeDeadline: Nat, state: {"Indicted", "Resolved"} ]

\* Every variable stays in its domain; in particular no schedule setter lets
\* a zero threshold, a zero window or a cap above 100% into the contract.
TypeOK ==
    /\ now \in 1..MaxTime
    /\ balance \in [Accounts -> Int]
    /\ registered \subseteq Agents
    /\ bonds \in [Agents -> [amount: Nat, posted: BOOLEAN, slashed: BOOLEAN]]
    /\ breachEpochs \in [Agents -> Epochs]
    /\ blacklisted \subseteq Agents
    /\ settledVerdicts \subseteq Hashes
    /\ disputes \in [1..MaxDisputes -> FiledDisputes \cup {NoDispute}]
    /\ nextDisputeId \in 0..MaxDisputes
    /\ config \in Configs
    /\ authorizedSlasher \in Slashers
    /\ reputationAdapter \in Adapters \cup {NoAdapter}
    /\ feedback \subseteq (BreachClass \cup {"Settled"}) \X Agents \X Hashes

-----------------------------------------------------------------------------
\* Safety.

\* The escrow account holds exactly the remaining collateral of all bonds,
\* through every partial slash, drain, dispute, withdrawal and re-post, so
\* each withdrawBond and each award can be paid.
Solvency ==
    /\ balance[BondContract] = SumFunctionOnSet([a \in Agents |-> bonds[a].amount], Agents)
    /\ \A x \in Accounts : balance[x] >= 0

\* A bond is closed exactly when nothing is left of it: no active bond is
\* empty (it could neither be slashed nor be re-posted over), and no closed
\* or absent bond still holds collateral.
ClosedIffEmpty ==
    \A a \in Agents :
        /\ bonds[a].posted => (bonds[a].slashed <=> bonds[a].amount = 0)
        /\ ~bonds[a].posted => bonds[a] = NoBond

\* An escalated agent never holds collateral in the contract again: the
\* drained record is neither withdrawn, nor posted over, nor revived by a
\* dispute that was pending when the escalation struck.
BlacklistIsFinal ==
    \A a \in blacklisted : bonds[a].posted /\ bonds[a].slashed /\ bonds[a].amount = 0

-----------------------------------------------------------------------------
\* Action properties.

Loss(a) == bonds[a].amount - bonds'[a].amount

\* Short of escalation, one transaction takes from a bond at most the
\* larger class's share of what remains (one atomic unit when that rounds
\* to zero), whichever of the three routes executes it and however the
\* bond or the schedule changed since the indictment.
LossIsCapped ==
    [][ \A a \in Agents :
          (bonds'[a].posted /\ Loss(a) > 0 /\ a \notin blacklisted')
            => \/ Loss(a) = 1
               \/ \E class \in BreachClass :
                     Loss(a) <= Share(bonds[a].amount, config.capBps[class]) ]_vars

\* previewSlash is what slash then does: the amount and the escalation the
\* consumer and the guards computed are the ones executed.
PreviewIsExact ==
    [][ \A a \in Agents, class \in BreachClass :
          (\E s \in Slashers, c \in Consumers, h \in Hashes : Slash(s, a, c, class, h))
            => /\ Loss(a) = PreviewSlash(a, class)
               /\ a \in blacklisted' <=> WouldEscalate(a, class) ]_vars

\* One semantic verdict never moves more than challengeThreshold at once:
\* the instant path does so only for an escalation.
LargeSemanticIsDisputable ==
    [][ \A a \in Agents :
          (\E s \in Slashers, c \in Consumers, h \in Hashes : Slash(s, a, c, "Semantic", h))
            => Loss(a) <= config.challengeThreshold \/ a \in blacklisted' ]_vars

\* The breach window is anchored: it restarts only once it has elapsed, and
\* inside it no operation (withdrawing and re-posting included) lowers a
\* count, so an agent cannot launder its breaches.
WindowIsAnchored ==
    [][ \A a \in Agents :
          \/ breachEpochs'[a].epochStart # breachEpochs[a].epochStart /\ EpochExpired(a)
          \/ /\ breachEpochs'[a].epochStart = breachEpochs[a].epochStart
             /\ \A class \in BreachClass :
                   breachEpochs'[a].count[class] >= breachEpochs[a].count[class] ]_vars

\* A dispute id is filed once, its terms never change (a retuned window does
\* not move a running deadline), and it is resolved at most once.
DisputeTermsAreFixed ==
    [][ \A d \in 1..MaxDisputes :
          \/ disputes'[d] = disputes[d]
          \/ disputes[d].state = "None" /\ disputes'[d].state = "Indicted"
          \/ /\ disputes[d].state = "Indicted"
             /\ disputes'[d] = [disputes[d] EXCEPT !.state = "Resolved"] ]_vars

-----------------------------------------------------------------------------
\* The abstract contract this one implements: schedule, epochs, disputes and
\* roles only decide which of its steps happen.

Escrow == INSTANCE BondEscrow WITH
    wallet <- [x \in Agents \cup Consumers |-> balance[x]],
    held   <- [a \in Agents |-> bonds[a].amount],
    pot    <- balance[BondContract],
    barred <- blacklisted,
    Amounts <- PostAmounts

\* Every transaction is a deposit, a full refund, an award to a consumer, a
\* drain with a bar, or moves no collateral at all.
ImplementsEscrow == Escrow!Spec

-----------------------------------------------------------------------------
\* Liveness.  Blocks keep being produced, and finalizeExpiredDispute is open
\* to anyone, so an expired dispute that can be finalized is finalized.
Fairness ==
    /\ WF_vars(Tick)
    /\ \A d \in 1..MaxDisputes : WF_vars(FinalizeExpiredDispute(d))

FairSpec == Spec /\ Fairness

\* Every indictment is closed, unless its provider keeps no bond at all
\* (the withdrawal gap the contract documents): a bond drained meanwhile
\* voids the claim instead of stranding it.
DisputesClose ==
    \A d \in 1..MaxDisputes :
        disputes[d].state = "Indicted"
          ~> \/ disputes[d].state = "Resolved"
             \/ /\ disputes[d].state = "Indicted"
                /\ ~bonds[disputes[d].provider].posted

=============================================================================
