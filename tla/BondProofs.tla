------------------------------ MODULE BondProofs ------------------------------
(***************************************************************************)
(* Theorems of the bond contract and of what is built on it, for every set *)
(* of agents, every schedule the owner can configure and every clock bound: *)
(* first ArcIDBond, then its breach log (ArcIDBondHistory), then the guard,  *)
(* the consumer loops and the trigger cycle of SlashPipeline.               *)
(***************************************************************************)
EXTENDS SlashPipeline, ArcIDBondHistory, SumTheorems

-----------------------------------------------------------------------------
\* Arithmetic of the schedule.

\* A share of a natural amount is a natural amount.
LEMMA ShareIsNat == ASSUME NEW x \in Nat, NEW bps \in Nat
                    PROVE  Share(x, bps) \in Nat
<1>1. x * bps \in Nat
  OBVIOUS
<1>2. \A m \in Nat : m \div BpsDenominator \in Nat
  BY BondAssumption
<1> QED BY <1>1, <1>2 DEF Share

\* The amount a breach costs is between one atomic unit and the whole bond,
\* and at most one unit or the class's share.
LEMMA SlashAmountBounds ==
    ASSUME config \in Configs, NEW remaining \in Nat, NEW class \in BreachClass
    PROVE  /\ ComputeSlashAmount(remaining, class) \in 0..remaining
           /\ remaining > 0 => ComputeSlashAmount(remaining, class) > 0
           /\ \/ ComputeSlashAmount(remaining, class) = 1
              \/ ComputeSlashAmount(remaining, class) <= Share(remaining, config.capBps[class])
<1> DEFINE cap == Share(remaining, config.capBps[class])
           fee == config.feeMultiple * config.feeAtomic
<1>1. cap \in Nat
  <2>1. config.capBps[class] \in Nat
    BY BondAssumption DEF Configs
  <2> QED BY <2>1, ShareIsNat
<1>2. fee \in Nat
  <2>1. config.feeMultiple \in Nat /\ config.feeAtomic \in Nat
    BY DEF Configs
  <2> QED BY <2>1
<1> HIDE DEF cap, fee
<1>3. ComputeSlashAmount(remaining, class) =
        LET share   == IF class = "Hard" THEN cap ELSE AtMost(fee, cap)
            floored == IF share = 0 /\ remaining > 0 THEN 1 ELSE share
        IN  AtMost(floored, remaining)
  BY DEF ComputeSlashAmount, cap, fee
<1>4. CASE remaining = 0
  BY <1>1, <1>2, <1>3, <1>4 DEF AtMost, cap
<1>5. CASE remaining > 0
  BY <1>1, <1>2, <1>3, <1>5 DEF AtMost, cap
<1> QED BY <1>4, <1>5

-----------------------------------------------------------------------------
\* What an executed slash does to the state, whichever route executes it.

\* The conjuncts of TypeOK an executed slash can disturb, and the bond record
\* it leaves: a positive amount not above the collateral leaves the bond,
\* which is closed exactly when that was all of it, as it is when escalating.
LEMMA ExecuteSlashEffect ==
    ASSUME TypeOK, ClosedIffEmpty,
           NEW a \in Agents, NEW c \in Consumers, NEW class \in BreachClass, NEW h \in Hashes,
           ExecuteSlash(a, c, class, h)
    PROVE  \E amount \in 1..bonds[a].amount :
             /\ bonds[a].posted /\ ~bonds[a].slashed
             /\ bonds' = [bonds EXCEPT ![a] =
                            [ amount |-> bonds[a].amount - amount, posted |-> TRUE,
                              slashed |-> (bonds[a].amount - amount = 0) ]]
             /\ Transfer(BondContract, c, amount)
             /\ \/ blacklisted' = blacklisted
                \/ /\ blacklisted' = blacklisted \cup {a}
                   /\ amount = bonds[a].amount
             /\ \/ blacklisted' = blacklisted \cup {a}
                \/ amount = 1
                \/ amount <= Share(bonds[a].amount, config.capBps[class])
<1> DEFINE newCount  == EpochCount(a, class) + 1
           escalated == newCount >= config.threshold[class]
           taken     == IF escalated THEN bonds[a].amount
                        ELSE ComputeSlashAmount(bonds[a].amount, class)
<1>1. /\ bonds[a].posted /\ ~bonds[a].slashed
      /\ bonds[a] \in [amount: Nat, posted: BOOLEAN, slashed: BOOLEAN]
      /\ bonds[a].amount \in Nat
      /\ bonds[a].amount > 0
      /\ config \in Configs
  BY DEF ExecuteSlash, IsActiveBondedAgent, TypeOK, ClosedIffEmpty
<1>2. /\ taken \in 1..bonds[a].amount
      /\ \/ escalated
         \/ taken = 1
         \/ taken <= Share(bonds[a].amount, config.capBps[class])
  BY <1>1, SlashAmountBounds
<1>3. /\ bonds' = [bonds EXCEPT ![a] =
                      [ amount |-> bonds[a].amount - taken, posted |-> TRUE,
                        slashed |-> (bonds[a].amount - taken = 0) ]]
      /\ blacklisted' = IF escalated THEN blacklisted \cup {a} ELSE blacklisted
      /\ Transfer(BondContract, c, taken)
  BY DEF ExecuteSlash, Escalates, SlashedAmount
<1> HIDE DEF escalated, taken
<1>4. escalated => taken = bonds[a].amount
  BY DEF taken
<1> QED BY <1>1, <1>2, <1>3, <1>4

\* The breach counters it leaves: still well typed, the window restarted only
\* if it had elapsed, and inside a window no count lowered.
LEMMA ExecuteSlashEpoch ==
    ASSUME TypeOK,
           NEW a \in Agents, NEW c \in Consumers, NEW class \in BreachClass, NEW h \in Hashes,
           ExecuteSlash(a, c, class, h)
    PROVE  /\ breachEpochs' \in [Agents -> Epochs]
           /\ \A b \in Agents : b # a => breachEpochs'[b] = breachEpochs[b]
           /\ \/ /\ EpochExpired(a)
                 /\ breachEpochs'[a].epochStart # breachEpochs[a].epochStart
              \/ /\ breachEpochs'[a].epochStart = breachEpochs[a].epochStart
                 /\ \A x \in BreachClass :
                       breachEpochs'[a].count[x] >= breachEpochs[a].count[x]
<1> DEFINE old      == breachEpochs[a]
           newCount == EpochCount(a, class) + 1
           start    == IF EpochExpired(a) THEN now ELSE old.epochStart
<1>1. /\ old \in Epochs
      /\ old.epochStart \in Nat
      /\ old.count \in [BreachClass -> Nat]
      /\ now \in Nat \ {0}
      /\ EpochDuration \in Nat \ {0}
  BY BondAssumption DEF TypeOK, Epochs
<1>2. newCount \in Nat /\ start \in Nat
  BY <1>1 DEF EpochCount
<1>3. breachEpochs' = [breachEpochs EXCEPT ![a] =
        [epochStart |-> start, count |-> [old.count EXCEPT ![class] = newCount]]]
  BY DEF ExecuteSlash
<1>4. /\ breachEpochs'[a].epochStart = start
      /\ breachEpochs'[a].count = [old.count EXCEPT ![class] = newCount]
  BY <1>3 DEF TypeOK
<1>5. breachEpochs' \in [Agents -> Epochs]
  <2>1. [old.count EXCEPT ![class] = newCount] \in [BreachClass -> Nat]
    BY <1>1, <1>2
  <2>2. [epochStart |-> start, count |-> [old.count EXCEPT ![class] = newCount]] \in Epochs
    BY <2>1, <1>2 DEF Epochs
  <2> QED BY <1>3, <2>2 DEF TypeOK
<1>6. CASE EpochExpired(a)
  <2>1. now # old.epochStart
    BY <1>1, <1>6 DEF EpochExpired
  <2> QED BY <1>3, <1>4, <1>5, <1>6, <2>1 DEF TypeOK
<1>7. CASE ~EpochExpired(a)
  <2>1. newCount = old.count[class] + 1
    BY <1>7 DEF EpochCount
  <2>2. \A x \in BreachClass : breachEpochs'[a].count[x] >= old.count[x]
    BY <1>1, <1>4, <2>1
  <2> QED BY <1>3, <1>4, <1>5, <1>7, <2>2 DEF TypeOK
<1> QED BY <1>6, <1>7

-----------------------------------------------------------------------------
\* Every step, sorted by what it does to the collateral.

(* Only posting, withdrawing and an executed slash touch collateral, windows or the blacklist. *)
LEMMA CollateralSteps ==
    ASSUME TypeOK, Next
    PROVE  \/ \E a \in Agents, n \in PostAmounts : PostBond(a, n)
           \/ \E a \in Agents : WithdrawBond(a)
           \/ \E a \in Agents, c \in Consumers, class \in BreachClass, h \in Hashes :
                 ExecuteSlash(a, c, class, h)
           \/ UNCHANGED <<bonds, balance, breachEpochs, blacklisted>>
<1>1. CASE AgentStep
  BY <1>1 DEF AgentStep
<1>2. CASE SlasherStep
  <2>1. ASSUME NEW s \in Slashers, NEW a \in Agents, NEW c \in Consumers, NEW class \in BreachClass,
               NEW h \in Hashes, Slash(s, a, c, class, h)
        PROVE  ExecuteSlash(a, c, class, h)
    BY <2>1 DEF Slash
  <2>2. ASSUME NEW s, NEW a, NEW h, RecordSettlement(s, a, h)
        PROVE  UNCHANGED <<bonds, balance, breachEpochs, blacklisted>>
    BY <2>2 DEF RecordSettlement
  <2>3. ASSUME NEW s, NEW a, NEW c, NEW h, FileIndictment(s, a, c, h)
        PROVE  UNCHANGED <<bonds, balance, breachEpochs, blacklisted>>
    BY <2>3 DEF FileIndictment
  <2> QED BY <1>2, <2>1, <2>2, <2>3 DEF SlasherStep
<1>3. ASSUME NEW d \in 1..MaxDisputes, CloseDispute(d),
             ExecuteSlashOrVoid(disputes[d].provider, disputes[d].consumer,
                                disputes[d].rationaleHash)
      PROVE  \/ \E a \in Agents, c \in Consumers, class \in BreachClass, h \in Hashes :
                   ExecuteSlash(a, c, class, h)
             \/ UNCHANGED <<bonds, balance, breachEpochs, blacklisted>>
  <2>1. disputes[d] \in FiledDisputes
    BY <1>3 DEF CloseDispute, TypeOK, NoDispute
  <2>2. /\ disputes[d].provider \in Agents
        /\ disputes[d].consumer \in Consumers
        /\ disputes[d].rationaleHash \in Hashes
    BY <2>1 DEF FiledDisputes
  <2> QED BY <1>3, <2>2 DEF ExecuteSlashOrVoid, BreachClass
<1>4. CASE OwnerStep
  BY <1>3, <1>4 DEF OwnerStep, ResolveDispute, ApproveDispute, RejectDispute,
     SetSlashParameters, SetServiceFee, SetEscalationThresholds, SetChallengeParameters,
     Retune, SetAuthorizedSlasher, SetReputationAdapter, unchangedByOwner
<1>5. CASE PublicStep
  BY <1>3, <1>5 DEF PublicStep, FinalizeExpiredDispute
<1>6. CASE \E a \in Agents : RegisterAgent(a)
  BY <1>6 DEF RegisterAgent
<1>7. CASE Tick
  BY <1>7 DEF Tick
<1> QED BY <1>1, <1>2, <1>4, <1>5, <1>6, <1>7 DEF Next

-----------------------------------------------------------------------------
\* The inductive invariant.  TypeOK alone is not inductive: that an executed
\* slash takes a positive amount, and so that a drained bond is closed, needs
\* active bonds to be non-empty.

\* Dispute ids not yet given out hold no dispute, so filing overwrites none.
IdsAreFresh ==
    \A d \in 1..MaxDisputes : d > nextDisputeId => disputes[d] = NoDispute

Inv == TypeOK /\ ClosedIffEmpty /\ BlacklistIsFinal /\ IdsAreFresh

(* Nothing is posted at the start, so the invariant holds. *)
LEMMA InvInit == Init => Inv
<1> SUFFICES ASSUME Init PROVE Inv
  OBVIOUS
<1>1. TypeOK
  <2>1. NoEpoch \in Epochs /\ NoBond \in [amount: Nat, posted: BOOLEAN, slashed: BOOLEAN]
    BY DEF NoEpoch, NoBond, Epochs
  <2>2. balance \in [Accounts -> Int]
    BY BondAssumption DEF Init
  <2> QED BY <2>1, <2>2, BondAssumption DEF Init, TypeOK
<1>2. ClosedIffEmpty
  BY DEF Init, ClosedIffEmpty, NoBond
<1>3. BlacklistIsFinal
  BY DEF Init, BlacklistIsFinal
<1>4. IdsAreFresh
  BY BondAssumption DEF Init, IdsAreFresh
<1> QED BY <1>1, <1>2, <1>3, <1>4 DEF Inv

\* A transfer keeps every balance an integer.
LEMMA TransferType ==
    ASSUME balance \in [Accounts -> Int], NEW x \in Accounts, NEW y \in Accounts,
           NEW n \in Int, Transfer(x, y, n)
    PROVE  balance' \in [Accounts -> Int]
BY DEF Transfer

\* The collateral half of TypeOK, by kind of step.
LEMMA CollateralType ==
    ASSUME Inv, Next
    PROVE  /\ balance' \in [Accounts -> Int]
           /\ bonds' \in [Agents -> [amount: Nat, posted: BOOLEAN, slashed: BOOLEAN]]
           /\ breachEpochs' \in [Agents -> Epochs]
           /\ blacklisted' \subseteq Agents
<1> USE DEF Inv
<1>0. /\ balance \in [Accounts -> Int] /\ breachEpochs \in [Agents -> Epochs]
      /\ bonds \in [Agents -> [amount: Nat, posted: BOOLEAN, slashed: BOOLEAN]]
      /\ blacklisted \subseteq Agents
      /\ Agents \subseteq Accounts /\ Consumers \subseteq Accounts /\ BondContract \in Accounts
  BY DEF TypeOK, Accounts
<1>1. CASE \E a \in Agents, n \in PostAmounts : PostBond(a, n)
  <2> PICK a \in Agents, n \in PostAmounts : PostBond(a, n)
    BY <1>1
  <2>1. n \in Nat
    BY BondAssumption
  <2>2. balance' \in [Accounts -> Int]
    BY <1>0, <2>1, TransferType DEF PostBond
  <2> QED BY <1>0, <2>1, <2>2 DEF PostBond
<1>2. CASE \E a \in Agents : WithdrawBond(a)
  <2> PICK a \in Agents : WithdrawBond(a)
    BY <1>2
  <2>1. bonds[a].amount \in Int
    BY <1>0
  <2>2. balance' \in [Accounts -> Int]
    BY <1>0, <2>1, TransferType DEF WithdrawBond
  <2> QED BY <1>0, <2>2 DEF WithdrawBond, NoBond
<1>3. CASE \E a \in Agents, c \in Consumers, class \in BreachClass, h \in Hashes :
             ExecuteSlash(a, c, class, h)
  <2> PICK a \in Agents, c \in Consumers, class \in BreachClass, h \in Hashes :
             ExecuteSlash(a, c, class, h)
    BY <1>3
  <2> PICK amount \in 1..bonds[a].amount :
        /\ bonds' = [bonds EXCEPT ![a] =
                       [ amount |-> bonds[a].amount - amount, posted |-> TRUE,
                         slashed |-> (bonds[a].amount - amount = 0) ]]
        /\ Transfer(BondContract, c, amount)
        /\ blacklisted' = blacklisted \/ blacklisted' = blacklisted \cup {a}
    BY ExecuteSlashEffect
  <2>1. bonds[a].amount \in Nat /\ amount \in Nat /\ bonds[a].amount - amount \in Nat
    BY <1>0
  <2>2. balance' \in [Accounts -> Int]
    BY <1>0, <2>1, TransferType
  <2>3. breachEpochs' \in [Agents -> Epochs]
    BY ExecuteSlashEpoch
  <2> QED BY <1>0, <2>1, <2>2, <2>3
<1>4. CASE UNCHANGED <<bonds, balance, breachEpochs, blacklisted>>
  BY <1>0, <1>4
<1> QED BY <1>1, <1>2, <1>3, <1>4, CollateralSteps

\* Filing and closing keep the dispute table well typed.
LEMMA DisputeType ==
    ASSUME TypeOK, Next
    PROVE  /\ disputes' \in [1..MaxDisputes -> FiledDisputes \cup {NoDispute}]
           /\ nextDisputeId' \in 0..MaxDisputes
           /\ settledVerdicts' \subseteq Hashes
           /\ now' \in 1..MaxTime
           /\ registered' \subseteq Agents
<1>0. /\ disputes \in [1..MaxDisputes -> FiledDisputes \cup {NoDispute}]
      /\ nextDisputeId \in 0..MaxDisputes
      /\ settledVerdicts \subseteq Hashes
      /\ now \in 1..MaxTime
      /\ registered \subseteq Agents
      /\ MaxTime \in Nat /\ MaxDisputes \in Nat
  BY BondAssumption DEF TypeOK
<1>1. CASE AgentStep
  BY <1>0, <1>1 DEF AgentStep, PostBond, WithdrawBond
<1>2. ASSUME NEW s \in Slashers, NEW a \in Agents, NEW c \in Consumers, NEW h \in Hashes,
             FileIndictment(s, a, c, h)
      PROVE  /\ disputes' \in [1..MaxDisputes -> FiledDisputes \cup {NoDispute}]
             /\ nextDisputeId' \in 0..MaxDisputes
  <2> DEFINE filed == [ consumer |-> c, provider |-> a, rationaleHash |-> h,
                        claimAmount |-> PreviewSlash(a, "Semantic"),
                        challengeDeadline |-> now + config.disputeWindow,
                        state |-> "Indicted" ]
  <2>1. bonds[a].amount \in Nat /\ config.disputeWindow \in Nat /\ config \in Configs
    BY DEF TypeOK, Configs
  <2>2. PreviewSlash(a, "Semantic") \in Nat
    <3>1. ComputeSlashAmount(bonds[a].amount, "Semantic") \in Nat
      BY <2>1, SlashAmountBounds DEF BreachClass
    <3> QED BY <2>1, <3>1 DEF PreviewSlash
  <2>3. filed \in FiledDisputes
    BY <1>0, <2>1, <2>2 DEF FiledDisputes
  <2>4. disputes' = [disputes EXCEPT ![nextDisputeId + 1] = filed]
    BY <1>2 DEF FileIndictment
  <2> HIDE DEF filed
  <2>5. disputes' \in [1..MaxDisputes -> FiledDisputes \cup {NoDispute}]
    BY <1>0, <2>3, <2>4
  <2>6. nextDisputeId' \in 0..MaxDisputes
    BY <1>0, <1>2 DEF FileIndictment
  <2> QED BY <2>5, <2>6
<1>3. CASE SlasherStep
  <2>1. CASE \E s \in Slashers, a \in Agents, c \in Consumers, h \in Hashes :
               FileIndictment(s, a, c, h)
    BY <1>0, <1>2, <2>1 DEF FileIndictment
  <2>2. CASE ~ \E s \in Slashers, a \in Agents, c \in Consumers, h \in Hashes :
               FileIndictment(s, a, c, h)
    BY <1>0, <1>3, <2>2 DEF SlasherStep, Slash, RecordSettlement
  <2> QED BY <2>1, <2>2
<1>4. ASSUME NEW d \in 1..MaxDisputes, CloseDispute(d)
      PROVE  disputes' \in [1..MaxDisputes -> FiledDisputes \cup {NoDispute}]
  <2>1. disputes[d] \in FiledDisputes
    BY <1>0, <1>4 DEF CloseDispute, NoDispute
  <2>2. [disputes[d] EXCEPT !.state = "Resolved"] \in FiledDisputes
    BY <2>1 DEF FiledDisputes
  <2> QED BY <1>0, <1>4, <2>2 DEF CloseDispute
<1>5. CASE OwnerStep
  <2>1. CASE \E d \in 1..MaxDisputes, approved \in BOOLEAN : ResolveDispute(d, approved)
    BY <1>0, <1>4, <2>1 DEF ResolveDispute, ApproveDispute, RejectDispute, CloseDispute
  <2>2. CASE ~ \E d \in 1..MaxDisputes, approved \in BOOLEAN : ResolveDispute(d, approved)
    BY <1>0, <1>5, <2>2 DEF OwnerStep,
       SetSlashParameters, SetServiceFee, SetEscalationThresholds, SetChallengeParameters,
       Retune, SetAuthorizedSlasher, SetReputationAdapter, unchangedByOwner
  <2> QED BY <2>1, <2>2
<1>6. CASE PublicStep
  BY <1>0, <1>4, <1>6 DEF PublicStep, FinalizeExpiredDispute, CloseDispute
<1>7. CASE \E a \in Agents : RegisterAgent(a)
  BY <1>0, <1>7 DEF RegisterAgent
<1>8. CASE Tick
  BY <1>0, <1>8 DEF Tick
<1> QED BY <1>1, <1>3, <1>5, <1>6, <1>7, <1>8 DEF Next

\* No setter lets an inadmissible schedule in, and every feedback entry names
\* an agent of the contract.
LEMMA ConfigType ==
    ASSUME TypeOK, Next
    PROVE  /\ config' \in Configs
           /\ authorizedSlasher' \in Slashers
           /\ reputationAdapter' \in Adapters \cup {NoAdapter}
<1>0. /\ config \in Configs
      /\ authorizedSlasher \in Slashers
      /\ reputationAdapter \in Adapters \cup {NoAdapter}
      /\ BpsDenominator \in Nat
  BY BondAssumption DEF TypeOK
<1>1. CASE UNCHANGED adminVars
  BY <1>0, <1>1 DEF adminVars
<1>2. ASSUME NEW x \in ScheduleInputs, SetSlashParameters(x[1], x[2], x[3])
      PROVE  config' \in Configs
  <2>1. x[1] \in Nat /\ x[2] \in 0..BpsDenominator /\ x[3] \in 0..BpsDenominator
    BY <1>0, <1>2, BondAssumption DEF SetSlashParameters
  <2>2. PerClass(x[2], x[3]) \in [BreachClass -> 0..BpsDenominator]
    BY <2>1 DEF PerClass
  <2> QED BY <1>0, <1>2, <2>1, <2>2 DEF SetSlashParameters, Retune, Configs
<1>3. ASSUME NEW fee \in FeeInputs, SetServiceFee(fee)
      PROVE  config' \in Configs
  BY <1>0, <1>3, BondAssumption DEF SetServiceFee, Retune, Configs
<1>4. ASSUME NEW x \in ThresholdInputs, SetEscalationThresholds(x[1], x[2])
      PROVE  config' \in Configs
  <2>1. x[1] \in Nat \ {0} /\ x[2] \in Nat \ {0}
    BY <1>4, BondAssumption DEF SetEscalationThresholds
  <2>2. PerClass(x[2], x[1]) \in [BreachClass -> Nat \ {0}]
    BY <2>1 DEF PerClass
  <2> QED BY <1>0, <1>4, <2>2 DEF SetEscalationThresholds, Retune, Configs
<1>5. ASSUME NEW x \in ChallengeInputs, SetChallengeParameters(x[1], x[2])
      PROVE  config' \in Configs
  BY <1>0, <1>5, BondAssumption DEF SetChallengeParameters, Retune, Configs
<1>6. CASE OwnerStep
  BY <1>0, <1>1, <1>2, <1>3, <1>4, <1>5, <1>6 DEF OwnerStep, ResolveDispute, ApproveDispute,
     RejectDispute, CloseDispute, SetSlashParameters, SetServiceFee, SetEscalationThresholds,
     SetChallengeParameters, Retune, SetAuthorizedSlasher, SetReputationAdapter
<1>7. CASE ~OwnerStep
  BY <1>1, <1>7 DEF Next, AgentStep, PostBond, WithdrawBond, SlasherStep, Slash,
     RecordSettlement, FileIndictment, PublicStep, FinalizeExpiredDispute, CloseDispute,
     RegisterAgent, Tick
<1> QED BY <1>6, <1>7

(* Feedback entries stay of their type, whichever transaction adds one. *)
LEMMA FeedbackType ==
    ASSUME TypeOK, Next
    PROVE  feedback' \subseteq (BreachClass \cup {"Settled"}) \X Agents \X Hashes
<1> DEFINE Entries == (BreachClass \cup {"Settled"}) \X Agents \X Hashes
<1>0. feedback \subseteq Entries
  BY DEF TypeOK
<1>1. ASSUME NEW a \in Agents, NEW c \in Consumers, NEW class \in BreachClass, NEW h \in Hashes,
             ExecuteSlash(a, c, class, h)
      PROVE  feedback' \subseteq Entries
  BY <1>0, <1>1 DEF ExecuteSlash, ReportFeedback
<1>2. ASSUME NEW d \in 1..MaxDisputes, CloseDispute(d),
             ExecuteSlashOrVoid(disputes[d].provider, disputes[d].consumer,
                                disputes[d].rationaleHash)
      PROVE  feedback' \subseteq Entries
  <2>1. disputes[d] \in FiledDisputes
    BY <1>2 DEF CloseDispute, TypeOK, NoDispute
  <2>2. /\ disputes[d].provider \in Agents
        /\ disputes[d].consumer \in Consumers
        /\ disputes[d].rationaleHash \in Hashes
    BY <2>1 DEF FiledDisputes
  <2>3. CASE UNCHANGED feedback
    BY <1>0, <2>3
  <2>4. CASE ExecuteSlash(disputes[d].provider, disputes[d].consumer, "Semantic",
                          disputes[d].rationaleHash)
    BY <1>1, <2>2, <2>4 DEF BreachClass
  <2> QED BY <1>2, <2>3, <2>4 DEF ExecuteSlashOrVoid
<1>3. CASE SlasherStep
  <2>1. CASE UNCHANGED feedback
    BY <1>0, <2>1
  <2>2. CASE \E s \in Slashers, a \in Agents, c \in Consumers, class \in BreachClass, h \in Hashes :
               Slash(s, a, c, class, h)
    BY <1>1, <2>2 DEF Slash
  <2>3. CASE \E s \in Slashers, a \in Agents, h \in Hashes : RecordSettlement(s, a, h)
    BY <1>0, <2>3 DEF RecordSettlement, ReportFeedback
  <2> QED BY <1>3, <2>1, <2>2, <2>3 DEF SlasherStep, FileIndictment
<1>4. CASE OwnerStep
  <2>1. CASE UNCHANGED feedback
    BY <1>0, <2>1
  <2>2. CASE \E d \in 1..MaxDisputes : ApproveDispute(d)
    BY <1>2, <2>2 DEF ApproveDispute
  <2> QED BY <1>4, <2>1, <2>2 DEF OwnerStep, ResolveDispute, RejectDispute,
     SetSlashParameters, SetServiceFee, SetEscalationThresholds, SetChallengeParameters,
     Retune, SetAuthorizedSlasher, SetReputationAdapter, unchangedByOwner
<1>5. CASE PublicStep
  BY <1>2, <1>5 DEF PublicStep, FinalizeExpiredDispute
<1>6. CASE UNCHANGED feedback
  BY <1>0, <1>6
<1> QED BY <1>3, <1>4, <1>5, <1>6
        DEF Next, AgentStep, PostBond, WithdrawBond, RegisterAgent, Tick

\* No kind of collateral step leaves a closed bond with collateral, an active
\* one without, or a blacklisted agent with either.
LEMMA LifecycleStep ==
    ASSUME Inv, Next
    PROVE  ClosedIffEmpty' /\ BlacklistIsFinal'
<1> USE DEF Inv
<1>0. /\ bonds \in [Agents -> [amount: Nat, posted: BOOLEAN, slashed: BOOLEAN]]
      /\ blacklisted \subseteq Agents
  BY DEF TypeOK
<1>1. CASE \E a \in Agents, n \in PostAmounts : PostBond(a, n)
  BY <1>0, <1>1 DEF PostBond, ClosedIffEmpty, BlacklistIsFinal
<1>2. CASE \E a \in Agents : WithdrawBond(a)
  BY <1>0, <1>2 DEF WithdrawBond, IsActiveBondedAgent, NoBond, ClosedIffEmpty, BlacklistIsFinal
<1>3. CASE \E a \in Agents, c \in Consumers, class \in BreachClass, h \in Hashes :
             ExecuteSlash(a, c, class, h)
  <2> PICK a \in Agents, c \in Consumers, class \in BreachClass, h \in Hashes :
             ExecuteSlash(a, c, class, h)
    BY <1>3
  <2> PICK amount \in 1..bonds[a].amount :
        /\ bonds[a].posted /\ ~bonds[a].slashed
        /\ bonds' = [bonds EXCEPT ![a] =
                       [ amount |-> bonds[a].amount - amount, posted |-> TRUE,
                         slashed |-> (bonds[a].amount - amount = 0) ]]
        /\ \/ blacklisted' = blacklisted
           \/ blacklisted' = blacklisted \cup {a} /\ amount = bonds[a].amount
    BY ExecuteSlashEffect
  <2>1. ClosedIffEmpty'
    BY <1>0 DEF ClosedIffEmpty
  <2>2. BlacklistIsFinal'
    BY <1>0 DEF BlacklistIsFinal
  <2> QED BY <2>1, <2>2
<1>4. CASE UNCHANGED <<bonds, balance, breachEpochs, blacklisted>>
  BY <1>4 DEF ClosedIffEmpty, BlacklistIsFinal
<1> QED BY <1>1, <1>2, <1>3, <1>4, CollateralSteps

\* An id is handed out in order and only filing hands one out.
LEMMA FreshIdsStep == ASSUME Inv, Next PROVE IdsAreFresh'
<1>0. /\ disputes \in [1..MaxDisputes -> FiledDisputes \cup {NoDispute}]
      /\ nextDisputeId \in Nat
      /\ IdsAreFresh
  BY BondAssumption DEF Inv, TypeOK
<1>1. CASE UNCHANGED <<disputes, nextDisputeId>>
  BY <1>0, <1>1 DEF IdsAreFresh
<1>2. ASSUME NEW d \in 1..MaxDisputes, CloseDispute(d)
      PROVE  IdsAreFresh'
  <2>1. d <= nextDisputeId
    BY <1>0, <1>2 DEF CloseDispute, IdsAreFresh, NoDispute
  <2> QED BY <1>0, <1>2, <2>1 DEF CloseDispute, IdsAreFresh
<1>3. ASSUME NEW s \in Slashers, NEW a \in Agents, NEW c \in Consumers, NEW h \in Hashes,
             FileIndictment(s, a, c, h)
      PROVE  IdsAreFresh'
  BY <1>0, <1>3 DEF FileIndictment, IdsAreFresh
<1>4. CASE AgentStep
  BY <1>1, <1>4 DEF AgentStep, PostBond, WithdrawBond
<1>5. CASE SlasherStep
  BY <1>1, <1>3, <1>5 DEF SlasherStep, Slash, RecordSettlement
<1>6. CASE OwnerStep
  BY <1>1, <1>2, <1>6 DEF OwnerStep, ResolveDispute, ApproveDispute, RejectDispute,
     SetSlashParameters, SetServiceFee, SetEscalationThresholds, SetChallengeParameters,
     Retune, SetAuthorizedSlasher, SetReputationAdapter, unchangedByOwner
<1>7. CASE PublicStep
  BY <1>2, <1>7 DEF PublicStep, FinalizeExpiredDispute
<1> QED BY <1>1, <1>4, <1>5, <1>6, <1>7 DEF Next, RegisterAgent, Tick

(* Every transaction keeps the invariant. *)
LEMMA InvStep == Inv /\ [Next]_vars => Inv'
<1> SUFFICES ASSUME Inv, [Next]_vars PROVE Inv'
  OBVIOUS
<1>1. CASE Next
  <2>1. TypeOK'
    BY <1>1, CollateralType, DisputeType, ConfigType, FeedbackType DEF Inv, TypeOK
  <2> QED BY <1>1, <2>1, LifecycleStep, FreshIdsStep DEF Inv
<1>2. CASE UNCHANGED vars
  BY <1>2 DEF vars, Inv, TypeOK, ClosedIffEmpty, BlacklistIsFinal, IdsAreFresh
<1> QED BY <1>1, <1>2

(* The inductive invariant of the bond holds in every reachable state. *)
LEMMA InvHolds == Spec => []Inv
BY InvInit, InvStep, PTL DEF Spec

-----------------------------------------------------------------------------
\* Invariance theorems.

\* Every variable keeps its type, the schedule stays admissible included.
THEOREM TypeCorrect == Spec => []TypeOK
<1>1. Inv => TypeOK
  BY DEF Inv
<1> QED BY <1>1, InvHolds, PTL

\* A bond is closed exactly when it is empty, for every schedule the owner
\* can configure (a 0% or a 100% cap, a zero fee).
THEOREM ClosedBondsAreEmpty == Spec => []ClosedIffEmpty
<1>1. Inv => ClosedIffEmpty
  BY DEF Inv
<1> QED BY <1>1, InvHolds, PTL

\* A blacklisted agent never holds collateral again.
THEOREM BlacklistingIsPermanent == Spec => []BlacklistIsFinal
<1>1. Inv => BlacklistIsFinal
  BY DEF Inv
<1> QED BY <1>1, InvHolds, PTL

-----------------------------------------------------------------------------
\* The money.

\* What each bond record says the escrow account holds for its agent.
Held == [a \in Agents |-> bonds[a].amount]

IsSolvent == Inv /\ Solvency

(* What a bond holds is a natural number. *)
LEMMA HeldIsNat == ASSUME TypeOK PROVE \A a \in Agents : Held[a] \in Nat
BY DEF TypeOK, Held

\* One rewritten record moves the total by the difference.
LEMMA HeldMoves ==
    ASSUME TypeOK, TypeOK', NEW a \in Agents,
           \A b \in Agents \ {a} : bonds'[b].amount = bonds[b].amount
    PROVE  SumFunctionOnSet(Held', Agents)
             = SumFunctionOnSet(Held, Agents) - bonds[a].amount + bonds'[a].amount
<1>1. IsFiniteSet(Agents) BY BondAssumption
<1>2. \A b \in Agents : Held[b] \in Int /\ Held'[b] \in Int BY DEF TypeOK, Held
<1>3. \A b \in Agents \ {a} : Held'[b] = Held[b] BY DEF Held
<1>4. SumFunctionOnSet(Held', Agents) = SumFunctionOnSet(Held, Agents) - Held[a] + Held'[a]
  BY <1>1, <1>2, <1>3, SumChange
<1> QED BY <1>4 DEF Held

\* The total is a natural number, and at least any one bond.
LEMMA HeldIsCovered ==
    ASSUME TypeOK
    PROVE  /\ SumFunctionOnSet(Held, Agents) \in Nat
           /\ \A a \in Agents : bonds[a].amount <= SumFunctionOnSet(Held, Agents)
<1>1. IsFiniteSet(Agents) BY BondAssumption
<1>2. SumFunctionOnSet(Held, Agents) \in Nat BY <1>1, HeldIsNat, SumIsNat
<1>3. ASSUME NEW a \in Agents PROVE bonds[a].amount <= SumFunctionOnSet(Held, Agents)
  <2>1. IsFiniteSet(Agents \ {a}) /\ \A b \in Agents \ {a} : Held[b] \in Nat
    BY <1>1, HeldIsNat, FS_Subset
  <2>2. SumFunctionOnSet(Held, Agents \ {a}) \in Nat BY <2>1, SumIsNat
  <2>3. \A b \in Agents : Held[b] \in Int BY HeldIsNat
  <2>4. SumFunctionOnSet(Held, Agents) = Held[a] + SumFunctionOnSet(Held, Agents \ {a})
    BY <1>1, <2>3, SumRemove
  <2>5. Held[a] = bonds[a].amount /\ Held[a] \in Nat BY HeldIsNat DEF Held
  <2> QED BY <2>2, <2>4, <2>5
<1> QED BY <1>2, <1>3

\* The two halves of Solvency.
EscrowMatches    == balance[BondContract] = SumFunctionOnSet(Held, Agents)
NobodyIsOverdrawn == \A x \in Accounts : balance[x] >= 0

(* Solvency says that the escrow balance matches the bonds and that nobody is overdrawn. *)
LEMMA SolvencyHalves == Solvency <=> EscrowMatches /\ NobodyIsOverdrawn
BY DEF Solvency, EscrowMatches, NobodyIsOverdrawn, Held

\* A transfer between distinct accounts, of what the payer has.
LEMMA TransferSolvent ==
    ASSUME balance \in [Accounts -> Int], NobodyIsOverdrawn,
           NEW x \in Accounts, NEW y \in Accounts, x # y,
           NEW n \in Nat, n <= balance[x], Transfer(x, y, n)
    PROVE  NobodyIsOverdrawn' /\ balance'[x] = balance[x] - n /\ balance'[y] = balance[y] + n
BY DEF Transfer, NobodyIsOverdrawn

(* At the start the contract holds nothing and owes nothing. *)
LEMMA SolvencyInit == Init => Solvency
<1> SUFFICES ASSUME Init PROVE Solvency OBVIOUS
<1>1. \A a \in Agents : Held[a] = 0 BY DEF Held, Init, NoBond
<1>2. SumFunctionOnSet(Held, Agents) = 0 BY <1>1, BondAssumption, SumZero
<1>3. balance[BondContract] = 0 /\ NobodyIsOverdrawn
  BY BondAssumption DEF Init, Accounts, NobodyIsOverdrawn
<1> QED BY <1>2, <1>3, SolvencyHalves DEF EscrowMatches

\* Every kind of collateral step moves the escrow account and the records
\* alike, and takes from an account only what it has.
LEMMA SolvencyStep == ASSUME Inv, Solvency, Next, Inv' PROVE Solvency'
<1>0. /\ TypeOK /\ TypeOK' /\ ClosedIffEmpty /\ EscrowMatches /\ NobodyIsOverdrawn
      /\ balance \in [Accounts -> Int]
      /\ bonds \in [Agents -> [amount: Nat, posted: BOOLEAN, slashed: BOOLEAN]]
  BY SolvencyHalves DEF Inv, TypeOK
<1>1. Agents \subseteq Accounts /\ Consumers \subseteq Accounts /\ BondContract \in Accounts
      /\ BondContract \notin Agents /\ BondContract \notin Consumers
  BY BondAssumption DEF Accounts
<1> DEFINE Total == SumFunctionOnSet(Held, Agents)
<1>2. Total \in Nat /\ \A a \in Agents : bonds[a].amount \in Nat /\ bonds[a].amount <= Total
  BY <1>0, HeldIsCovered
<1>3. ASSUME NEW a \in Agents, \A b \in Agents \ {a} : bonds'[b].amount = bonds[b].amount
      PROVE  Total' = Total - bonds[a].amount + bonds'[a].amount
  BY <1>0, <1>3, HeldMoves
<1> HIDE DEF Total
<1>4. EscrowMatches <=> balance[BondContract] = Total BY DEF EscrowMatches, Total
<1>5. EscrowMatches' <=> balance'[BondContract] = Total' BY DEF EscrowMatches, Total
<1>10. EscrowMatches' /\ NobodyIsOverdrawn' => Solvency'
  BY DEF Solvency, EscrowMatches, NobodyIsOverdrawn, Held
<1>6. CASE \E a \in Agents, n \in PostAmounts : PostBond(a, n)
  <2> PICK a \in Agents, n \in PostAmounts : PostBond(a, n) BY <1>6
  <2>1. n \in Nat /\ n <= balance[a] /\ Transfer(a, BondContract, n)
    BY <1>0, <1>1, BondAssumption DEF PostBond
  <2>2. NobodyIsOverdrawn' /\ balance'[BondContract] = balance[BondContract] + n
    BY <1>0, <1>1, <2>1, TransferSolvent
  <2>3. bonds' = [bonds EXCEPT ![a] = [amount |-> n, posted |-> TRUE, slashed |-> FALSE]]
    BY DEF PostBond
  <2>4. bonds[a].amount = 0
    BY <1>0 DEF PostBond, IsActiveBondedAgent, ClosedIffEmpty, NoBond
  <2>5. bonds'[a].amount = n /\ \A b \in Agents \ {a} : bonds'[b].amount = bonds[b].amount
    BY <1>0, <2>3
  <2>6. Total' = Total + n BY <1>2, <1>3, <2>1, <2>4, <2>5
  <2> QED BY <1>0, <1>4, <1>5, <1>10, <2>2, <2>6
<1>7. CASE \E a \in Agents : WithdrawBond(a)
  <2> PICK a \in Agents : WithdrawBond(a) BY <1>7
  <2> DEFINE n == bonds[a].amount
  <2>1. n \in Nat /\ n <= balance[BondContract] /\ Transfer(BondContract, a, n)
    BY <1>0, <1>2, <1>4 DEF WithdrawBond
  <2> HIDE DEF n
  <2>2. NobodyIsOverdrawn' /\ balance'[BondContract] = balance[BondContract] - n
    BY <1>0, <1>1, <2>1, TransferSolvent
  <2>3. bonds' = [bonds EXCEPT ![a] = NoBond] BY DEF WithdrawBond
  <2>4. bonds'[a].amount = 0 /\ \A b \in Agents \ {a} : bonds'[b].amount = bonds[b].amount
    BY <1>0, <2>3 DEF NoBond
  <2>5. Total' = Total - n BY <1>2, <1>3, <2>1, <2>4 DEF n
  <2> QED BY <1>0, <1>4, <1>5, <1>10, <2>2, <2>5
<1>8. CASE \E a \in Agents, c \in Consumers, class \in BreachClass, h \in Hashes :
             ExecuteSlash(a, c, class, h)
  <2> PICK a \in Agents, c \in Consumers, class \in BreachClass, h \in Hashes :
             ExecuteSlash(a, c, class, h)
    BY <1>8
  <2>1. PICK n \in 1..bonds[a].amount :
          /\ bonds' = [bonds EXCEPT ![a] =
                         [ amount |-> bonds[a].amount - n, posted |-> TRUE,
                           slashed |-> (bonds[a].amount - n = 0) ]]
          /\ Transfer(BondContract, c, n)
    BY <1>0, ExecuteSlashEffect
  <2>2. n \in Nat /\ n <= balance[BondContract] BY <1>0, <1>2, <1>4
  <2>3. NobodyIsOverdrawn' /\ balance'[BondContract] = balance[BondContract] - n
    BY <1>0, <1>1, <2>1, <2>2, TransferSolvent
  <2>4. bonds'[a].amount = bonds[a].amount - n
        /\ \A b \in Agents \ {a} : bonds'[b].amount = bonds[b].amount
    BY <1>0, <2>1
  <2>5. Total' = Total - n BY <1>2, <1>3, <2>2, <2>4
  <2> QED BY <1>0, <1>4, <1>5, <1>10, <2>3, <2>5
<1>9. CASE UNCHANGED <<bonds, balance, breachEpochs, blacklisted>>
  BY <1>0, <1>9, <1>10 DEF EscrowMatches, NobodyIsOverdrawn, Held
<1> QED BY <1>0, <1>6, <1>7, <1>8, <1>9, CollateralSteps

\* The escrow account holds what the bonds add up to, and no account is
\* overdrawn: every withdrawal and every award can be paid, whatever the
\* agents, amounts, schedules and disputes.
THEOREM EscrowIsSolvent == Spec => []Solvency
<1>1. Init => IsSolvent BY InvInit, SolvencyInit DEF IsSolvent
<1>2. IsSolvent /\ [Next]_vars => IsSolvent'
  <2> SUFFICES ASSUME IsSolvent, [Next]_vars PROVE IsSolvent' OBVIOUS
  <2>1. Inv' BY InvStep DEF IsSolvent
  <2>2. CASE Next BY <2>1, <2>2, SolvencyStep DEF IsSolvent
  <2>3. CASE UNCHANGED vars BY <2>1, <2>3 DEF vars, IsSolvent, Solvency
  <2> QED BY <2>2, <2>3
<1>3. IsSolvent => Solvency BY DEF IsSolvent
<1> QED BY <1>1, <1>2, <1>3, PTL DEF Spec

-----------------------------------------------------------------------------
\* Action properties.

\* Short of escalation, a transaction costs a bond at most one class's share.
THEOREM LossesAreCapped == Spec => LossIsCapped
<1>1. ASSUME Inv, [Next]_vars, NEW a \in Agents,
             bonds'[a].posted, Loss(a) > 0, a \notin blacklisted'
      PROVE  \/ Loss(a) = 1
             \/ \E class \in BreachClass :
                   Loss(a) <= Share(bonds[a].amount, config.capBps[class])
  <2> USE <1>1 DEF Inv, Loss
  <2>0. /\ bonds \in [Agents -> [amount: Nat, posted: BOOLEAN, slashed: BOOLEAN]]
        /\ blacklisted \subseteq Agents
    BY DEF TypeOK
  <2>1. CASE \E b \in Agents, n \in PostAmounts : PostBond(b, n)
    <3> PICK b \in Agents, n \in PostAmounts : PostBond(b, n)
      BY <2>1
    <3>1. bonds[b].amount = 0
      BY <2>0 DEF PostBond, IsActiveBondedAgent, ClosedIffEmpty, NoBond
    <3> QED BY <2>0, <3>1, BondAssumption DEF PostBond
  <2>2. CASE \E b \in Agents : WithdrawBond(b)
    BY <2>0, <2>2 DEF WithdrawBond, NoBond
  <2>3. CASE \E b \in Agents, c \in Consumers, class \in BreachClass, h \in Hashes :
               ExecuteSlash(b, c, class, h)
    <3> PICK b \in Agents, c \in Consumers, class \in BreachClass, h \in Hashes :
               ExecuteSlash(b, c, class, h)
      BY <2>3
    <3> PICK amount \in 1..bonds[b].amount :
          /\ bonds' = [bonds EXCEPT ![b] =
                         [ amount |-> bonds[b].amount - amount, posted |-> TRUE,
                           slashed |-> (bonds[b].amount - amount = 0) ]]
          /\ \/ blacklisted' = blacklisted \cup {b}
             \/ amount = 1
             \/ amount <= Share(bonds[b].amount, config.capBps[class])
      BY ExecuteSlashEffect
    <3>1. b = a
      BY <2>0
    <3>2. Loss(a) = amount
      BY <2>0, <3>1
    <3> QED BY <3>1, <3>2
  <2>4. CASE UNCHANGED <<bonds, balance, breachEpochs, blacklisted>>
    BY <2>0, <2>4
  <2>5. CASE UNCHANGED vars
    BY <2>0, <2>5 DEF vars
  <2> QED BY <2>1, <2>2, <2>3, <2>4, <2>5, CollateralSteps
<1>2. Inv /\ [Next]_vars =>
        [ \A a \in Agents :
            (bonds'[a].posted /\ Loss(a) > 0 /\ a \notin blacklisted')
              => \/ Loss(a) = 1
                 \/ \E class \in BreachClass :
                       Loss(a) <= Share(bonds[a].amount, config.capBps[class]) ]_vars
  BY <1>1
<1> QED BY <1>2, InvHolds, PTL DEF Spec, LossIsCapped

\* The breach window only restarts once elapsed, and never forgets inside.
THEOREM WindowsAreAnchored == Spec => WindowIsAnchored
<1>1. ASSUME Inv, [Next]_vars, NEW a \in Agents
      PROVE  \/ breachEpochs'[a].epochStart # breachEpochs[a].epochStart /\ EpochExpired(a)
             \/ /\ breachEpochs'[a].epochStart = breachEpochs[a].epochStart
                /\ \A class \in BreachClass :
                      breachEpochs'[a].count[class] >= breachEpochs[a].count[class]
  <2> USE <1>1 DEF Inv
  <2>0. /\ breachEpochs \in [Agents -> Epochs]
        /\ \A class \in BreachClass : breachEpochs[a].count[class] \in Nat
    BY DEF TypeOK, Epochs
  <2>1. CASE UNCHANGED breachEpochs
    BY <2>0, <2>1
  <2>2. CASE \E b \in Agents, c \in Consumers, class \in BreachClass, h \in Hashes :
               ExecuteSlash(b, c, class, h)
    <3> PICK b \in Agents, c \in Consumers, class \in BreachClass, h \in Hashes :
               ExecuteSlash(b, c, class, h)
      BY <2>2
    <3>1. CASE a = b
      BY <3>1, ExecuteSlashEpoch
    <3>2. CASE a # b
      <4>1. breachEpochs'[a] = breachEpochs[a]
        BY <3>2, ExecuteSlashEpoch
      <4> QED BY <2>0, <4>1
    <3> QED BY <3>1, <3>2
  <2> QED BY <2>1, <2>2, CollateralSteps DEF PostBond, WithdrawBond, vars
<1>2. Inv /\ [Next]_vars =>
        [ \A a \in Agents :
            \/ breachEpochs'[a].epochStart # breachEpochs[a].epochStart /\ EpochExpired(a)
            \/ /\ breachEpochs'[a].epochStart = breachEpochs[a].epochStart
               /\ \A class \in BreachClass :
                     breachEpochs'[a].count[class] >= breachEpochs[a].count[class] ]_vars
  BY <1>1
<1> QED BY <1>2, InvHolds, PTL DEF Spec, WindowIsAnchored

\* One slash() moves what _previewSlash computes in the same state, although
\* the two walk the epoch logic separately.
LEMMA PreviewStep ==
    ASSUME Inv, NEW a \in Agents, NEW class \in BreachClass,
           NEW s \in Slashers, NEW c \in Consumers, NEW h \in Hashes,
           Slash(s, a, c, class, h)
    PROVE  /\ Loss(a) = PreviewSlash(a, class)
           /\ a \in blacklisted' <=> WouldEscalate(a, class)
<1> USE DEF Inv
<1> DEFINE taken == IF EpochCount(a, class) + 1 >= config.threshold[class]
                    THEN bonds[a].amount
                    ELSE ComputeSlashAmount(bonds[a].amount, class)
<1>0. /\ bonds \in [Agents -> [amount: Nat, posted: BOOLEAN, slashed: BOOLEAN]]
      /\ bonds[a].amount \in Nat
      /\ config \in Configs
  BY DEF TypeOK
<1>1. IsActiveBondedAgent(a) /\ ExecuteSlash(a, c, class, h)
  BY DEF Slash, ExecuteSlash
<1>2. a \notin blacklisted
  BY <1>1 DEF IsActiveBondedAgent, BlacklistIsFinal
<1>3. PreviewSlash(a, class) = taken
  BY <1>1 DEF PreviewSlash, WouldEscalate
<1>4. taken \in Nat
  <2>1. ComputeSlashAmount(bonds[a].amount, class) \in Nat
    BY <1>0, SlashAmountBounds
  <2> QED BY <1>0, <2>1
<1>5. bonds'[a].amount = bonds[a].amount - taken
  BY <1>0, <1>1 DEF ExecuteSlash, Escalates, SlashedAmount
<1>6. Loss(a) = taken
  <2> HIDE DEF taken
  <2> QED BY <1>0, <1>4, <1>5 DEF Loss
<1>7. a \in blacklisted' <=> WouldEscalate(a, class)
  BY <1>1, <1>2 DEF ExecuteSlash, Escalates, WouldEscalate
<1> QED BY <1>3, <1>6, <1>7

\* slash executes what previewSlash announced, for every class and schedule.
THEOREM PreviewsAreExact == Spec => PreviewIsExact
<1>1. Inv /\ [Next]_vars =>
        [ \A a \in Agents, class \in BreachClass :
            (\E s \in Slashers, c \in Consumers, h \in Hashes : Slash(s, a, c, class, h))
              => /\ Loss(a) = PreviewSlash(a, class)
                 /\ a \in blacklisted' <=> WouldEscalate(a, class) ]_vars
  BY PreviewStep
<1> QED BY <1>1, InvHolds, PTL DEF Spec, PreviewIsExact

\* A semantic verdict alone never moves more than the challenge threshold,
\* whatever the owner tunes the schedule to.
THEOREM LargeSlashesAreDisputable == Spec => LargeSemanticIsDisputable
<1>1. ASSUME Inv, NEW a \in Agents,
             NEW s \in Slashers, NEW c \in Consumers, NEW h \in Hashes,
             Slash(s, a, c, "Semantic", h)
      PROVE  Loss(a) <= config.challengeThreshold \/ a \in blacklisted'
  <2>1. /\ Loss(a) = PreviewSlash(a, "Semantic")
        /\ a \in blacklisted' <=> WouldEscalate(a, "Semantic")
    BY <1>1, PreviewStep DEF BreachClass
  <2>2. config.challengeThreshold \in Nat /\ PreviewSlash(a, "Semantic") \in Nat
    <3>1. config \in Configs /\ bonds[a].amount \in Nat
      BY <1>1 DEF Inv, TypeOK
    <3>2. ComputeSlashAmount(bonds[a].amount, "Semantic") \in Nat
      BY <3>1, SlashAmountBounds DEF BreachClass
    <3> QED BY <3>1, <3>2 DEF Configs, PreviewSlash
  <2> QED BY <1>1, <2>1, <2>2 DEF Slash, SlashAdmits
<1>2. Inv /\ [Next]_vars =>
        [ \A a \in Agents :
            (\E s \in Slashers, c \in Consumers, h \in Hashes : Slash(s, a, c, "Semantic", h))
              => Loss(a) <= config.challengeThreshold \/ a \in blacklisted' ]_vars
  BY <1>1
<1> QED BY <1>2, InvHolds, PTL DEF Spec, LargeSemanticIsDisputable

\* A filed dispute keeps its terms and is closed once, by whoever closes it.
THEOREM DisputeTermsHold == Spec => DisputeTermsAreFixed
<1>1. ASSUME Inv, [Next]_vars, NEW d \in 1..MaxDisputes
      PROVE  \/ disputes'[d] = disputes[d]
             \/ disputes[d].state = "None" /\ disputes'[d].state = "Indicted"
             \/ /\ disputes[d].state = "Indicted"
                /\ disputes'[d] = [disputes[d] EXCEPT !.state = "Resolved"]
  <2> USE <1>1
  <2>0. /\ disputes \in [1..MaxDisputes -> FiledDisputes \cup {NoDispute}]
        /\ nextDisputeId \in Nat
    BY BondAssumption DEF Inv, TypeOK
  <2>1. CASE UNCHANGED disputes
    BY <2>1
  <2>2. ASSUME NEW e \in 1..MaxDisputes, CloseDispute(e)
        PROVE  \/ disputes'[d] = disputes[d]
               \/ /\ disputes[d].state = "Indicted"
                  /\ disputes'[d] = [disputes[d] EXCEPT !.state = "Resolved"]
    BY <2>0, <2>2 DEF CloseDispute
  <2>3. ASSUME NEW s \in Slashers, NEW a \in Agents, NEW c \in Consumers, NEW h \in Hashes,
               FileIndictment(s, a, c, h)
        PROVE  \/ disputes'[d] = disputes[d]
               \/ disputes[d].state = "None" /\ disputes'[d].state = "Indicted"
    <3>1. CASE d # nextDisputeId + 1
      BY <2>0, <2>3, <3>1 DEF FileIndictment
    <3>2. CASE d = nextDisputeId + 1
      <4>1. disputes'[d].state = "Indicted"
        BY <2>0, <2>3, <3>2 DEF FileIndictment
      <4>2. disputes[d] = NoDispute
        <5>1. \A e \in 1..MaxDisputes : e > nextDisputeId => disputes[e] = NoDispute
          BY <1>1 DEF Inv, IdsAreFresh
        <5>2. d > nextDisputeId
          BY <2>0, <3>2
        <5> QED BY <5>1, <5>2
      <4> QED BY <4>1, <4>2 DEF NoDispute
    <3> QED BY <3>1, <3>2
  <2>4. CASE AgentStep
    BY <2>1, <2>4 DEF AgentStep, PostBond, WithdrawBond
  <2>5. CASE SlasherStep
    BY <2>1, <2>3, <2>5 DEF SlasherStep, Slash, RecordSettlement
  <2>6. CASE OwnerStep
    BY <2>1, <2>2, <2>6 DEF OwnerStep, ResolveDispute, ApproveDispute, RejectDispute,
       SetSlashParameters, SetServiceFee, SetEscalationThresholds, SetChallengeParameters,
       Retune, SetAuthorizedSlasher, SetReputationAdapter, unchangedByOwner
  <2>7. CASE PublicStep
    BY <2>2, <2>7 DEF PublicStep, FinalizeExpiredDispute
  <2> QED BY <2>1, <2>4, <2>5, <2>6, <2>7 DEF Next, RegisterAgent, Tick, vars
<1>2. Inv /\ [Next]_vars =>
        [ \A d \in 1..MaxDisputes :
            \/ disputes'[d] = disputes[d]
            \/ disputes[d].state = "None" /\ disputes'[d].state = "Indicted"
            \/ /\ disputes[d].state = "Indicted"
               /\ disputes'[d] = [disputes[d] EXCEPT !.state = "Resolved"] ]_vars
  BY <1>1
<1> QED BY <1>2, InvHolds, PTL DEF Spec, DisputeTermsAreFixed

-----------------------------------------------------------------------------
\* The contract implements the abstract escrow.

\* Every transaction is a step of BondEscrow on the collateral, the wallets
\* and the blacklist, or leaves them unchanged.
THEOREM BondImplementsEscrow == Spec => ImplementsEscrow
<1>1. Init => Escrow!Init
  BY BondAssumption DEF Init, Escrow!Init, NoBond, Accounts
<1>2. Inv /\ [Next]_vars => [Escrow!Next]_(Escrow!vars)
  <2> SUFFICES ASSUME Inv, [Next]_vars
               PROVE  Escrow!Next \/ UNCHANGED Escrow!vars
    OBVIOUS
  <2> USE DEF Inv
  <2> DEFINE wallet == [x \in Agents \cup Consumers |-> balance[x]]
             held   == [a \in Agents |-> bonds[a].amount]
             pot    == balance[BondContract]
  <2>0. /\ bonds \in [Agents -> [amount: Nat, posted: BOOLEAN, slashed: BOOLEAN]]
        /\ balance \in [Accounts -> Int]
        /\ Accounts = Agents \cup Consumers \cup {BondContract}
        /\ BondContract \notin Agents \cup Consumers
        /\ Agents \cap Consumers = {}
    BY BondAssumption DEF TypeOK, Accounts
  <2>1. CASE \E a \in Agents, n \in PostAmounts : PostBond(a, n)
    <3> PICK a \in Agents, n \in PostAmounts : PostBond(a, n)
      BY <2>1
    <3>1. held[a] = 0
      BY <2>0 DEF PostBond, IsActiveBondedAgent, ClosedIffEmpty, NoBond
    <3>2. held' = [held EXCEPT ![a] = n]
      BY <2>0 DEF PostBond
    <3>3. wallet' = [wallet EXCEPT ![a] = @ - n]
      BY <2>0 DEF PostBond, Transfer
    <3>4. pot' = pot + n
      BY <2>0 DEF PostBond, Transfer
    <3>5. Escrow!Deposit(a, n)
      BY <3>1, <3>2, <3>3, <3>4 DEF PostBond, Escrow!Deposit
    <3> QED BY <3>5 DEF Escrow!Next
  <2>2. CASE \E a \in Agents : WithdrawBond(a)
    <3> PICK a \in Agents : WithdrawBond(a)
      BY <2>2
    <3>1. held[a] > 0
      BY <2>0 DEF WithdrawBond, IsActiveBondedAgent, ClosedIffEmpty
    <3>2. held' = [held EXCEPT ![a] = 0]
      BY <2>0 DEF WithdrawBond, NoBond
    <3>3. wallet' = [wallet EXCEPT ![a] = @ + held[a]]
      BY <2>0 DEF WithdrawBond, Transfer
    <3>4. pot' = pot - held[a]
      BY <2>0 DEF WithdrawBond, Transfer
    <3>5. Escrow!Refund(a)
      BY <3>1, <3>2, <3>3, <3>4 DEF WithdrawBond, Escrow!Refund
    <3> QED BY <3>5 DEF Escrow!Next
  <2>3. CASE \E a \in Agents, c \in Consumers, class \in BreachClass, h \in Hashes :
               ExecuteSlash(a, c, class, h)
    <3> PICK a \in Agents, c \in Consumers, class \in BreachClass, h \in Hashes :
               ExecuteSlash(a, c, class, h)
      BY <2>3
    <3> PICK amount \in 1..bonds[a].amount :
          /\ bonds' = [bonds EXCEPT ![a] =
                         [ amount |-> bonds[a].amount - amount, posted |-> TRUE,
                           slashed |-> (bonds[a].amount - amount = 0) ]]
          /\ Transfer(BondContract, c, amount)
          /\ \/ blacklisted' = blacklisted
             \/ blacklisted' = blacklisted \cup {a} /\ amount = bonds[a].amount
      BY ExecuteSlashEffect
    <3>1. held[a] \in Nat /\ amount \in Nat /\ 0 < amount /\ amount <= held[a]
      BY <2>0
    <3>2. held' = [held EXCEPT ![a] = @ - amount]
      BY <2>0
    <3>3. wallet' = [wallet EXCEPT ![c] = @ + amount]
      BY <2>0 DEF Transfer
    <3>4. pot' = pot - amount
      BY <2>0 DEF Transfer
    <3>5. CASE blacklisted' = blacklisted
      <4>1. Escrow!Award(a, c, amount)
        BY <3>1, <3>2, <3>3, <3>4, <3>5 DEF Escrow!Award
      <4> QED BY <3>1, <4>1 DEF Escrow!Next
    <3>6. CASE blacklisted' = blacklisted \cup {a} /\ amount = bonds[a].amount
      <4>1. held[a] = amount
        BY <3>6
      <4>2. wallet' = [wallet EXCEPT ![c] = @ + held[a]]
        BY <3>3, <4>1
      <4>3. held' = [held EXCEPT ![a] = 0]
        <5>1. held[a] - amount = 0
          BY <3>1, <4>1
        <5> HIDE DEF held
        <5> QED BY <3>2, <5>1
      <4>4. pot' = pot - held[a]
        BY <3>4, <4>1
      <4>5. Escrow!Bar(a, c)
        BY <3>1, <3>6, <4>2, <4>3, <4>4 DEF Escrow!Bar
      <4> QED BY <4>5 DEF Escrow!Next
    <3> QED BY <3>5, <3>6
  <2>4. CASE UNCHANGED <<bonds, balance, breachEpochs, blacklisted>>
    BY <2>4 DEF Escrow!vars
  <2>5. CASE UNCHANGED vars
    BY <2>5 DEF vars, Escrow!vars
  <2> QED BY <2>1, <2>2, <2>3, <2>4, <2>5, CollateralSteps
<1> QED BY <1>1, <1>2, InvHolds, PTL DEF Spec, ImplementsEscrow, Escrow!Spec


-----------------------------------------------------------------------------
\* The breach log.  Over an agent's lifetime the log has at least what a
\* stored counter says, and since the window's start at most that.

Entry == [class: BreachClass, time: Nat, hash: Hashes]

\* Breaches of a class in one agent's log.
Counted(log, class, from) ==
    Cardinality({i \in DOMAIN log : log[i].class = class /\ log[i].time >= from})

\* An agent with breaches has a window, and no breach lies past its end.
LogTyped ==
    /\ breachLog \in [Agents -> Seq(Entry)]
    /\ \A a \in Agents : \A i \in DOMAIN breachLog[a] :
          /\ breachEpochs[a].epochStart # 0
          /\ breachLog[a][i].time <= now
          /\ breachLog[a][i].time < breachEpochs[a].epochStart + EpochDuration

\* A count is a count of logged breaches.
CountsAreLogged ==
    \A a \in Agents, class \in BreachClass :
        breachEpochs[a].count[class] <= Counted(breachLog[a], class, 0)

\* No breach since the window's start is missing from the count.
WindowIsCounted ==
    \A a \in Agents, class \in BreachClass :
        Counted(breachLog[a], class, breachEpochs[a].epochStart) <= breachEpochs[a].count[class]

\* A count at the threshold has escalated.
CountsEscalate ==
    \A a \in Agents, class \in BreachClass :
        breachEpochs[a].count[class] >= config.threshold[class] => a \in blacklisted

\* EscalationHasBreaches, in terms of Counted.
BarsAreLogged ==
    \A a \in blacklisted : \E class \in BreachClass :
        Counted(breachLog[a], class, 0) >= config.threshold[class]

LogInv == LogTyped /\ CountsAreLogged /\ WindowIsCounted /\ CountsEscalate /\ BarsAreLogged

\* A log has a number of breaches of every class.
LEMMA CountedIsNat ==
    ASSUME NEW log \in Seq(Entry), NEW class, NEW from
    PROVE  Counted(log, class, from) \in Nat
<1> DEFINE Hits == {i \in DOMAIN log : log[i].class = class /\ log[i].time >= from}
<1>1. DOMAIN log = 1..Len(log) /\ Len(log) \in Nat OBVIOUS
<1>2. IsFiniteSet(DOMAIN log) BY <1>1, FS_Interval
<1>3. Cardinality(Hits) \in Nat BY <1>2, FS_Subset, FS_CardinalityType
<1> QED BY <1>3 DEF Counted

\* One more entry counts once if it is of the class and late enough.
LEMMA CountedAppend ==
    ASSUME NEW log \in Seq(Entry), NEW e \in Entry, NEW class, NEW from \in Nat
    PROVE  Counted(Append(log, e), class, from)
             = Counted(log, class, from) + (IF e.class = class /\ e.time >= from THEN 1 ELSE 0)
<1> DEFINE n      == Len(log) + 1
           longer == Append(log, e)
           Hits   == {i \in DOMAIN log : log[i].class = class /\ log[i].time >= from}
           Now    == {i \in DOMAIN longer : longer[i].class = class /\ longer[i].time >= from}
<1>1. DOMAIN log = 1..Len(log) /\ DOMAIN longer = 1..n /\ n \notin Hits /\ Len(log) \in Nat
  OBVIOUS
<1>2. longer[n] = e /\ \A i \in 1..Len(log) : longer[i] = log[i] OBVIOUS
<1>3. IsFiniteSet(Hits) /\ Cardinality(Hits) \in Nat
  <2> DEFINE m == Len(log)
  <2>1. m \in Nat /\ Hits \in SUBSET (1..m) BY <1>1
  <2> HIDE DEF m, Hits, Now, n, longer
  <2>2. IsFiniteSet(1..m) BY <2>1, FS_Interval
  <2> QED BY <2>1, <2>2, FS_Subset, FS_CardinalityType
<1>6. Counted(longer, class, from) = Cardinality(Now) BY DEF Counted
<1>7. Counted(log, class, from) = Cardinality(Hits) BY DEF Counted
<1>4. CASE e.class = class /\ e.time >= from
  <2>1. Now = Hits \cup {n} BY <1>1, <1>2, <1>4
  <2> HIDE DEF Hits, Now, n
  <2>2. Cardinality(Hits \cup {n}) = Cardinality(Hits) + 1 BY <1>1, <1>3, FS_AddElement
  <2> QED BY <1>4, <1>6, <1>7, <2>1, <2>2
<1>5. CASE ~ (e.class = class /\ e.time >= from)
  <2>1. Now = Hits BY <1>1, <1>2, <1>5
  <2> HIDE DEF Hits, Now, n
  <2> QED BY <1>3, <1>5, <1>6, <1>7, <2>1
<1> QED BY <1>4, <1>5

\* No entry of a log that ends before a moment is counted from that moment.
LEMMA CountedNone ==
    ASSUME NEW log \in Seq(Entry), NEW class, NEW from \in Nat,
           \A i \in DOMAIN log : log[i].time < from
    PROVE  Counted(log, class, from) = 0
<1>0. \A i \in DOMAIN log : log[i] \in Entry OBVIOUS
<1>1. \A i \in DOMAIN log : log[i].time \in Nat BY <1>0 DEF Entry
<1>2. {i \in DOMAIN log : log[i].class = class /\ log[i].time >= from} = {} BY <1>1
<1> QED BY <1>2, FS_EmptySet DEF Counted

\* The counters an executed slash leaves: the breached class counts one more
\* in its window, or starts one; nothing else of the epochs moves.
LEMMA ExecuteSlashCounts ==
    ASSUME TypeOK,
           NEW a \in Agents, NEW c, NEW class \in BreachClass, NEW h,
           ExecuteSlash(a, c, class, h)
    PROVE  /\ \A b \in Agents \ {a} : breachEpochs'[b] = breachEpochs[b]
           /\ \A k \in BreachClass \ {class} :
                 breachEpochs'[a].count[k] = breachEpochs[a].count[k]
           /\ \/ /\ EpochExpired(a)
                 /\ breachEpochs'[a].epochStart = now
                 /\ breachEpochs'[a].count[class] = 1
              \/ /\ ~EpochExpired(a)
                 /\ breachEpochs'[a].epochStart = breachEpochs[a].epochStart
                 /\ breachEpochs'[a].count[class] = breachEpochs[a].count[class] + 1
           /\ IF breachEpochs'[a].count[class] >= config.threshold[class]
              THEN blacklisted' = blacklisted \cup {a} ELSE blacklisted' = blacklisted
<1> DEFINE old      == breachEpochs[a]
           newCount == EpochCount(a, class) + 1
           start    == IF EpochExpired(a) THEN now ELSE old.epochStart
<1>1. old.count \in [BreachClass -> Nat] BY DEF TypeOK, Epochs
<1>2. breachEpochs' = [breachEpochs EXCEPT ![a] =
        [epochStart |-> start, count |-> [old.count EXCEPT ![class] = newCount]]]
  BY DEF ExecuteSlash
<1>3. /\ breachEpochs'[a].epochStart = start
      /\ breachEpochs'[a].count = [old.count EXCEPT ![class] = newCount]
      /\ \A b \in Agents \ {a} : breachEpochs'[b] = breachEpochs[b]
  BY <1>2 DEF TypeOK
<1>4. breachEpochs'[a].count[class] = newCount BY <1>1, <1>3
<1>5. blacklisted' = IF newCount >= config.threshold[class]
                     THEN blacklisted \cup {a} ELSE blacklisted
  BY DEF ExecuteSlash, Escalates
<1>6. \A k \in BreachClass \ {class} : breachEpochs'[a].count[k] = old.count[k] BY <1>1, <1>3
<1>7. newCount = IF EpochExpired(a) THEN 1 ELSE old.count[class] + 1 BY DEF EpochCount
<1> QED BY <1>3, <1>4, <1>5, <1>6, <1>7

(* The log of breaches starts empty. *)
LEMMA LogInvInit == HInit => LogInv
<1> SUFFICES ASSUME HInit PROVE LogInv OBVIOUS
<1>1. /\ breachLog = [a \in Agents |-> <<>>] /\ blacklisted = {}
      /\ \A a \in Agents : breachEpochs[a] = NoEpoch
  BY DEF HInit, Init
<1>2. LogTyped BY <1>1 DEF LogTyped
<1>3. <<>> \in Seq(Entry) /\ \A i \in DOMAIN <<>> : FALSE OBVIOUS
<1>4. \A class \in BreachClass : Counted(<<>>, class, 0) = 0
  <2> SUFFICES ASSUME NEW class \in BreachClass PROVE Counted(<<>>, class, 0) = 0 OBVIOUS
  <2>1. {i \in DOMAIN <<>> : <<>>[i].class = class /\ <<>>[i].time >= 0} = {} BY <1>3
  <2> QED BY <2>1, FS_EmptySet DEF Counted
<1>5. \A a \in Agents, class \in BreachClass :
         /\ breachEpochs[a].epochStart = 0 /\ breachEpochs[a].count[class] = 0
         /\ breachLog[a] = <<>>
  BY <1>1 DEF NoEpoch
<1>6. CountsAreLogged /\ WindowIsCounted BY <1>4, <1>5 DEF CountsAreLogged, WindowIsCounted
<1>7. \A class \in BreachClass : config.threshold[class] \in Nat \ {0}
  BY BondAssumption DEF HInit, Init, Configs
<1>8. CountsEscalate BY <1>5, <1>7 DEF CountsEscalate
<1> QED BY <1>1, <1>2, <1>6, <1>8 DEF LogInv, BarsAreLogged

\* A logged breach.
LEMMA LoggedBreachStep ==
    ASSUME TypeOK, TypeOK', LogInv,
           NEW a \in Agents, NEW c, NEW class \in BreachClass, NEW h \in Hashes,
           ExecuteSlash(a, c, class, h), breachLog' = Logged(a, class, h),
           UNCHANGED <<now, config>>
    PROVE  LogInv'
<1> DEFINE e     == [class |-> class, time |-> now, hash |-> h]
           log   == breachLog[a]
           old   == breachEpochs[a]
           new   == breachEpochs'[a]
<1>1. /\ breachLog \in [Agents -> Seq(Entry)] /\ log \in Seq(Entry) /\ e \in Entry
      /\ now \in Nat \ {0} /\ EpochDuration \in Nat \ {0}
  <2>1. now \in Nat \ {0} /\ EpochDuration \in Nat \ {0} BY BondAssumption DEF TypeOK
  <2>2. breachLog \in [Agents -> Seq(Entry)] BY DEF LogInv, LogTyped
  <2>3. e \in Entry BY <2>1 DEF Entry
  <2> QED BY <2>1, <2>2, <2>3
<1>2. /\ breachLog' = [breachLog EXCEPT ![a] = Append(log, e)]
      /\ breachLog'[a] = Append(log, e)
      /\ \A b \in Agents \ {a} : breachLog'[b] = breachLog[b]
  BY <1>1 DEF Logged
<1>3. /\ \A b \in Agents \ {a} : breachEpochs'[b] = breachEpochs[b]
      /\ \A k \in BreachClass \ {class} : new.count[k] = old.count[k]
      /\ \/ EpochExpired(a) /\ new.epochStart = now /\ new.count[class] = 1
         \/ /\ ~EpochExpired(a) /\ new.epochStart = old.epochStart
            /\ new.count[class] = old.count[class] + 1
      /\ IF new.count[class] >= config.threshold[class]
         THEN blacklisted' = blacklisted \cup {a} ELSE blacklisted' = blacklisted
  BY ExecuteSlashCounts
<1>4. /\ old.epochStart \in Nat /\ new.epochStart \in Nat
      /\ \A k \in BreachClass : old.count[k] \in Nat /\ new.count[k] \in Nat
      /\ \A k \in BreachClass : config.threshold[k] \in Nat
  <2>1. old \in Epochs /\ new \in Epochs BY DEF TypeOK
  <2>2. config.threshold \in [BreachClass -> Nat \ {0}] BY DEF TypeOK, Configs
  <2>3. old.count \in [BreachClass -> Nat] /\ new.count \in [BreachClass -> Nat]
        /\ old.epochStart \in Nat /\ new.epochStart \in Nat
    BY <2>1 DEF Epochs
  <2> HIDE DEF old, new
  <2> QED BY <2>2, <2>3
<1>5. \A i \in DOMAIN log : /\ old.epochStart # 0 /\ log[i].time \in Nat /\ log[i].time <= now
                            /\ log[i].time < old.epochStart + EpochDuration
  <2>1. \A i \in DOMAIN log : log[i] \in Entry BY <1>1
  <2> QED BY <2>1 DEF LogInv, LogTyped, Entry
<1>6. new.epochStart # 0 /\ now < new.epochStart + EpochDuration /\ old.epochStart <= new.epochStart
  BY <1>1, <1>3, <1>4 DEF EpochExpired
<1>7. \A k \in BreachClass, from \in Nat :
         /\ Counted(log, k, from) \in Nat
         /\ Counted(breachLog'[a], k, from)
              = Counted(log, k, from) + (IF k = class /\ now >= from THEN 1 ELSE 0)
  <2> SUFFICES ASSUME NEW k \in BreachClass, NEW from \in Nat
               PROVE  /\ Counted(log, k, from) \in Nat
                      /\ Counted(breachLog'[a], k, from)
                           = Counted(log, k, from) + (IF k = class /\ now >= from THEN 1 ELSE 0)
    OBVIOUS
  <2>1. Counted(log, k, from) \in Nat BY <1>1, CountedIsNat
  <2>2. Counted(Append(log, e), k, from)
          = Counted(log, k, from) + (IF e.class = k /\ e.time >= from THEN 1 ELSE 0)
    <3> HIDE DEF e, log
    <3> QED BY <1>1, CountedAppend
  <2>3. e.class = class /\ e.time = now OBVIOUS
  <2> HIDE DEF e, log
  <2> QED BY <1>2, <2>1, <2>2, <2>3
<1> HIDE DEF e, log, old, new
<1>8. LogTyped'
  <2>1. breachLog' \in [Agents -> Seq(Entry)] BY <1>1, <1>2
  <2>2. ASSUME NEW b \in Agents, NEW i \in DOMAIN breachLog'[b]
        PROVE  /\ breachEpochs'[b].epochStart # 0
               /\ breachLog'[b][i].time <= now
               /\ breachLog'[b][i].time < breachEpochs'[b].epochStart + EpochDuration
    <3>1. CASE b # a BY <1>2, <1>3, <2>2, <3>1 DEF LogInv, LogTyped
    <3>2. CASE b = a
      <4>1. i \in DOMAIN log \/ i = Len(log) + 1 BY <1>1, <1>2, <2>2, <3>2
      <4>2. CASE i \in DOMAIN log
        <5>1. breachLog'[a][i] = log[i] BY <1>1, <1>2, <4>2
        <5> QED BY <1>1, <1>4, <1>5, <1>6, <3>2, <4>2, <5>1 DEF new
      <4>3. CASE i = Len(log) + 1
        <5>1. breachLog'[a][i] = e BY <1>1, <1>2, <4>3
        <5> QED BY <1>1, <1>6, <3>2, <5>1 DEF new, e
      <4> QED BY <4>1, <4>2, <4>3
    <3> QED BY <3>1, <3>2
  <2> QED BY <2>1, <2>2 DEF LogTyped
<1>9. CountsAreLogged'
  <2> SUFFICES ASSUME NEW b \in Agents, NEW k \in BreachClass
               PROVE  breachEpochs'[b].count[k] <= Counted(breachLog'[b], k, 0)
    BY DEF CountsAreLogged
  <2>1. CASE b # a BY <1>2, <1>3, <2>1 DEF LogInv, CountsAreLogged
  <2>2. CASE b = a
    <3>1. old.count[k] <= Counted(log, k, 0) BY DEF LogInv, CountsAreLogged, old, log
    <3>2. new.count[k] <= old.count[k] + (IF k = class THEN 1 ELSE 0)
      BY <1>3, <1>4
    <3>3. Counted(breachLog'[a], k, 0) = Counted(log, k, 0) + (IF k = class THEN 1 ELSE 0)
      <4>1. 0 \in Nat /\ now >= 0 BY <1>1
      <4> QED BY <1>7, <4>1
    <3>4. Counted(log, k, 0) \in Nat BY <1>7
    <3> QED BY <1>4, <2>2, <3>1, <3>2, <3>3, <3>4 DEF new
  <2> QED BY <2>1, <2>2
<1>10. WindowIsCounted'
  <2> SUFFICES ASSUME NEW b \in Agents, NEW k \in BreachClass
               PROVE  Counted(breachLog'[b], k, breachEpochs'[b].epochStart)
                         <= breachEpochs'[b].count[k]
    BY DEF WindowIsCounted
  <2>1. CASE b # a BY <1>2, <1>3, <2>1 DEF LogInv, WindowIsCounted
  <2>2. CASE b = a
    <3>1. CASE EpochExpired(a)
      <4>1. \A i \in DOMAIN log : log[i].time < now
        BY <1>1, <1>4, <1>5, <3>1 DEF EpochExpired, old
      <4>2. Counted(log, k, now) = 0 BY <1>1, <4>1, CountedNone
      <4>3. Counted(breachLog'[a], k, now) = IF k = class THEN 1 ELSE 0
        <5>1. now \in Nat /\ now >= now BY <1>1
        <5>2. Counted(breachLog'[a], k, now)
                = Counted(log, k, now) + (IF k = class /\ now >= now THEN 1 ELSE 0)
          BY <1>7, <5>1
        <5> QED BY <4>2, <5>1, <5>2
      <4>4. new.epochStart = now /\ (k = class => new.count[k] = 1) BY <1>3, <3>1
      <4> QED BY <1>4, <2>2, <4>3, <4>4 DEF new
    <3>2. CASE ~EpochExpired(a)
      <4>1. Counted(log, k, old.epochStart) <= old.count[k]
        BY DEF LogInv, WindowIsCounted, old, log
      <4>2. Counted(breachLog'[a], k, old.epochStart)
              <= Counted(log, k, old.epochStart) + (IF k = class THEN 1 ELSE 0)
        BY <1>4, <1>7
      <4>3. new.epochStart = old.epochStart
            /\ new.count[k] = old.count[k] + (IF k = class THEN 1 ELSE 0)
        BY <1>3, <1>4, <3>2
      <4>4. Counted(log, k, old.epochStart) \in Nat
            /\ Counted(breachLog'[a], k, old.epochStart) \in Nat
        BY <1>4, <1>7
      <4> QED BY <1>4, <2>2, <4>1, <4>2, <4>3, <4>4 DEF new
    <3> QED BY <3>1, <3>2
  <2> QED BY <2>1, <2>2
<1>11. CountsEscalate'
  <2> SUFFICES ASSUME NEW b \in Agents, NEW k \in BreachClass,
                      breachEpochs'[b].count[k] >= config.threshold[k]
               PROVE  b \in blacklisted'
    BY DEF CountsEscalate
  <2>1. CASE b = a /\ k = class BY <1>3, <2>1 DEF new
  <2>2. CASE b # a \/ k # class
    <3>1. breachEpochs'[b].count[k] = breachEpochs[b].count[k] BY <1>3, <2>2 DEF new, old
    <3> QED BY <1>3, <3>1 DEF LogInv, CountsEscalate
  <2> QED BY <2>1, <2>2
<1>12. BarsAreLogged'
  <2> SUFFICES ASSUME NEW b \in blacklisted'
               PROVE  \E k \in BreachClass : Counted(breachLog'[b], k, 0) >= config.threshold[k]
    BY DEF BarsAreLogged
  <2>1. CASE b \in blacklisted
    <3>1. PICK k \in BreachClass : Counted(breachLog[b], k, 0) >= config.threshold[k]
      BY <2>1 DEF LogInv, BarsAreLogged
    <3>2. Counted(breachLog'[b], k, 0) >= config.threshold[k]
      <4>1. CASE b # a BY <1>2, <2>1, <3>1, <4>1 DEF TypeOK
      <4>2. CASE b = a
        <5>1. Counted(breachLog'[a], k, 0) >= Counted(log, k, 0) /\ Counted(log, k, 0) \in Nat
              /\ Counted(breachLog'[a], k, 0) \in Nat
          BY <1>7
        <5> QED BY <1>4, <3>1, <4>2, <5>1 DEF log
      <4> QED BY <4>1, <4>2
    <3> QED BY <3>2
  <2>2. CASE b \notin blacklisted
    <3>1. b = a /\ new.count[class] >= config.threshold[class] BY <1>3, <2>2
    <3>2. new.count[class] <= Counted(breachLog'[a], class, 0)
      BY <1>9 DEF CountsAreLogged, new
    <3>3. Counted(breachLog'[a], class, 0) \in Nat BY <1>7
    <3> QED BY <1>4, <3>1, <3>2, <3>3
  <2> QED BY <2>1, <2>2
<1> QED BY <1>8, <1>9, <1>10, <1>11, <1>12 DEF LogInv

\* Steps that execute no breach.
LEMMA LogStands ==
    ASSUME TypeOK, TypeOK', LogInv,
           UNCHANGED <<breachLog, breachEpochs, blacklisted, config>>, now <= now'
    PROVE  LogInv'
<1>1. CountsAreLogged' /\ WindowIsCounted' /\ CountsEscalate' /\ BarsAreLogged'
  BY DEF LogInv, CountsAreLogged, WindowIsCounted, CountsEscalate, BarsAreLogged
<1>2. breachLog \in [Agents -> Seq(Entry)] BY DEF LogInv, LogTyped
<1>3. LogTyped'
  <2> SUFFICES ASSUME NEW a \in Agents, NEW i \in DOMAIN breachLog[a]
               PROVE  /\ breachEpochs[a].epochStart # 0
                      /\ breachLog[a][i].time <= now'
                      /\ breachLog[a][i].time < breachEpochs[a].epochStart + EpochDuration
    BY <1>2 DEF LogTyped
  <2>1. breachLog[a][i] \in Entry BY <1>2
  <2>2. breachLog[a][i].time \in Nat /\ now \in Nat /\ now' \in Nat
    BY <2>1 DEF Entry, TypeOK
  <2>3. /\ breachEpochs[a].epochStart # 0
        /\ breachLog[a][i].time <= now
        /\ breachLog[a][i].time < breachEpochs[a].epochStart + EpochDuration
    BY DEF LogInv, LogTyped
  <2> QED BY <2>2, <2>3
<1> QED BY <1>1, <1>3 DEF LogInv

\* The breach log only adds to the bond's steps.
LEMMA HistoryIsBond == HNext => Next
<1> SUFFICES ASSUME HNext PROVE Next OBVIOUS
<1>1. CASE LoggedSlash BY <1>1 DEF LoggedSlash, Next, SlasherStep
<1>2. ASSUME NEW d \in 1..MaxDisputes, LoggedDispute(d) PROVE Next
  BY <1>2 DEF LoggedDispute, Next, OwnerStep, PublicStep
<1>3. CASE OtherStep BY <1>3 DEF OtherStep, Next, SlasherStep, OwnerStep
<1> QED BY <1>1, <1>2, <1>3 DEF HNext

(* Every transaction keeps the log in step with the counters. *)
LEMMA LogInvStep == Inv /\ Inv' /\ LogInv /\ [HNext]_historyVars => LogInv'
<1> SUFFICES ASSUME Inv, Inv', LogInv, [HNext]_historyVars PROVE LogInv' OBVIOUS
<1>0. TypeOK /\ TypeOK' /\ now \in Nat
  <2>1. TypeOK /\ TypeOK' BY DEF Inv
  <2> QED BY <2>1 DEF TypeOK
<1>1. CASE LoggedSlash
  <2> PICK s \in Slashers, a \in Agents, c \in Consumers, class \in BreachClass, h \in Hashes :
             Slash(s, a, c, class, h) /\ breachLog' = Logged(a, class, h)
    BY <1>1 DEF LoggedSlash
  <2>1. ExecuteSlash(a, c, class, h) /\ UNCHANGED <<now, config>> BY DEF Slash, adminVars
  <2> QED BY <1>0, <2>1, LoggedBreachStep
<1>2. ASSUME NEW d \in 1..MaxDisputes, LoggedDispute(d) PROVE LogInv'
  <2> DEFINE a == disputes[d].provider
             h == disputes[d].rationaleHash
  <2>1. /\ CloseDispute(d)
        /\ ExecuteSlashOrVoid(a, disputes[d].consumer, h)
        /\ breachLog' = IF bonds[a].slashed THEN breachLog ELSE Logged(a, "Semantic", h)
    BY <1>2 DEF LoggedDispute, ResolveDispute, ApproveDispute, FinalizeExpiredDispute
  <2>2. a \in Agents /\ h \in Hashes
    <3>1. disputes[d] \in FiledDisputes BY <1>0, <2>1 DEF CloseDispute, TypeOK, NoDispute
    <3> QED BY <3>1 DEF FiledDisputes
  <2>3. UNCHANGED <<now, config>> BY <2>1 DEF CloseDispute, adminVars
  <2>4. CASE bonds[a].slashed
    BY <1>0, <2>1, <2>3, <2>4, LogStands DEF ExecuteSlashOrVoid
  <2>5. CASE ~bonds[a].slashed
    <3>1. ExecuteSlash(a, disputes[d].consumer, "Semantic", h)
      BY <2>1, <2>5 DEF ExecuteSlashOrVoid
    <3>2. "Semantic" \in BreachClass BY DEF BreachClass
    <3> HIDE DEF a, h
    <3> QED BY <1>0, <2>1, <2>2, <2>3, <2>5, <3>1, <3>2, LoggedBreachStep
  <2> QED BY <2>4, <2>5
<1>3. CASE OtherStep
  <2>1. UNCHANGED <<breachLog, breachEpochs, blacklisted, config>> /\ now <= now'
    <3>0. UNCHANGED breachLog BY <1>3 DEF OtherStep
    <3>1. CASE AgentStep
      BY <1>0, <3>0, <3>1 DEF AgentStep, PostBond, WithdrawBond, adminVars
    <3>2. CASE \E s \in Slashers, a \in Agents, c \in Consumers, h \in Hashes :
                 FileIndictment(s, a, c, h) \/ RecordSettlement(s, a, h)
      BY <1>0, <3>0, <3>2 DEF FileIndictment, RecordSettlement, adminVars
    <3>3. CASE \E d \in 1..MaxDisputes : ResolveDispute(d, FALSE)
      <4> PICK d \in 1..MaxDisputes : RejectDispute(d) BY <3>3 DEF ResolveDispute
      <4> QED BY <1>0, <3>0 DEF RejectDispute, CloseDispute, adminVars
    <3>4. CASE \E a \in Agents : RegisterAgent(a)
      BY <1>0, <3>0, <3>4 DEF RegisterAgent, adminVars
    <3>5. CASE Tick BY <1>0, <3>0, <3>5 DEF Tick, adminVars
    <3>6. CASE \/ \E s \in Slashers : SetAuthorizedSlasher(s)
               \/ \E r \in Adapters \cup {NoAdapter} : SetReputationAdapter(r)
      BY <1>0, <3>0, <3>6 DEF SetAuthorizedSlasher, SetReputationAdapter, unchangedByOwner
    <3> QED BY <1>3, <3>1, <3>2, <3>3, <3>4, <3>5, <3>6 DEF OtherStep
  <2> QED BY <1>0, <2>1, LogStands
<1>4. CASE UNCHANGED historyVars
  BY <1>0, <1>4, LogStands DEF historyVars, vars
<1> QED BY <1>1, <1>2, <1>3, <1>4 DEF HNext

(* Both invariants hold in every reachable state of the bond with its log. *)
LEMMA LogInvHolds == HSpec => [](Inv /\ LogInv)
<1>1. HInit => Inv /\ LogInv BY InvInit, LogInvInit DEF HInit
<1>2. (Inv /\ LogInv) /\ [HNext]_historyVars => (Inv /\ LogInv)'
  <2> SUFFICES ASSUME Inv, LogInv, [HNext]_historyVars PROVE Inv' /\ LogInv' OBVIOUS
  <2>1. [Next]_vars BY HistoryIsBond DEF historyVars
  <2>2. Inv' BY <2>1, InvStep
  <2> QED BY <2>2, LogInvStep
<1> QED BY <1>1, <1>2, PTL DEF HSpec

\* Nobody is barred for ever without a threshold of executed breaches of one
\* class behind it, whatever the schedule and however bonds come and go.
THEOREM BarsHaveBreaches == HSpec => []EscalationHasBreaches
<1>1. LogInv => EscalationHasBreaches
  BY DEF LogInv, BarsAreLogged, EscalationHasBreaches, Counted, Breaches
<1> QED BY <1>1, LogInvHolds, PTL

\* An agent that reaches the threshold within a window is barred.
THEOREM BreachesBar == HSpec => []EnoughBreachesEscalate
<1>1. Inv /\ LogInv => EnoughBreachesEscalate
  <2> SUFFICES ASSUME Inv, LogInv, NEW a \in Agents, NEW class \in BreachClass,
                      Cardinality(Breaches(a, class, breachEpochs[a].epochStart))
                          >= config.threshold[class]
               PROVE  a \in blacklisted
    BY DEF EnoughBreachesEscalate
  <2> DEFINE since == Counted(breachLog[a], class, breachEpochs[a].epochStart)
             count == breachEpochs[a].count[class]
             limit == config.threshold[class]
  <2>1. since >= limit BY DEF Counted, Breaches
  <2>2. since <= count BY DEF LogInv, WindowIsCounted
  <2>3. count \in Nat /\ limit \in Nat /\ since \in Nat
    <3>1. breachEpochs[a] \in Epochs /\ config \in Configs BY DEF Inv, TypeOK
    <3>2. breachLog[a] \in Seq(Entry) BY DEF LogInv, LogTyped
    <3>3. since \in Nat BY <3>2, CountedIsNat
    <3> QED BY <3>1, <3>3 DEF Epochs, Configs
  <2>4. count >= limit
    <3> HIDE DEF since, count, limit
    <3> QED BY <2>1, <2>2, <2>3
  <2> QED BY <2>4 DEF LogInv, CountsEscalate
<1> QED BY <1>1, LogInvHolds, PTL

\* Feedback for breaches.  No operation takes an entry of the log back, and
\* only an executed slash, which is logged, reports one.

\* The log stands for a breach of this class and hash.
Stands(log, class, h) == \E i \in DOMAIN log : log[i].class = class /\ log[i].hash = h

\* A logged breach backs its own report and takes no other's backing.
LEMMA LoggedBreachIsBacked ==
    ASSUME TypeOK, TypeOK', LogInv, FeedbackIsBacked,
           NEW a \in Agents, NEW c \in Consumers, NEW class \in BreachClass, NEW h \in Hashes,
           ExecuteSlash(a, c, class, h), breachLog' = Logged(a, class, h)
    PROVE  FeedbackIsBacked'
<1> DEFINE e   == [class |-> class, time |-> now, hash |-> h]
           log == breachLog[a]
<1>1. /\ breachLog \in [Agents -> Seq(Entry)] /\ log \in Seq(Entry)
      /\ feedback \subseteq (BreachClass \cup {"Settled"}) \X Agents \X Hashes
  BY DEF LogInv, LogTyped, TypeOK
<1>2. e \in Entry /\ e.class = class /\ e.hash = h
  <2>1. now \in Nat BY BondAssumption DEF TypeOK
  <2> QED BY <2>1 DEF Entry
<1>3. /\ breachLog'[a] = Append(log, e)
      /\ \A b \in Agents \ {a} : breachLog'[b] = breachLog[b]
  BY <1>1 DEF Logged
<1> HIDE DEF e, log
<1>4. Stands(breachLog'[a], class, h)
  <2>1. Len(log) + 1 \in DOMAIN Append(log, e) /\ Append(log, e)[Len(log) + 1] = e
    BY <1>1, <1>2
  <2> QED BY <1>2, <1>3, <2>1 DEF Stands
<1>5. ASSUME NEW k, NEW g, Stands(log, k, g) PROVE Stands(breachLog'[a], k, g)
  <2>1. PICK i \in DOMAIN log : log[i].class = k /\ log[i].hash = g BY <1>5 DEF Stands
  <2>2. i \in DOMAIN Append(log, e) /\ Append(log, e)[i] = log[i] BY <1>1, <1>2
  <2> QED BY <1>3, <2>1, <2>2 DEF Stands
<1>6. feedback' \subseteq feedback \cup {<<class, a, h>>}
  BY DEF ExecuteSlash, ReportFeedback
<1>7. ASSUME NEW f \in feedback', f[1] # "Settled" PROVE Stands(breachLog'[f[2]], f[1], f[3])
  <2>1. CASE f \in feedback
    <3>1. Stands(breachLog[f[2]], f[1], f[3]) /\ f[2] \in Agents
      BY <1>1, <1>7, <2>1 DEF FeedbackIsBacked, Stands
    <3> QED BY <1>3, <1>5, <3>1 DEF log
  <2>2. CASE f = <<class, a, h>> BY <1>4, <2>2
  <2> QED BY <1>6, <1>7, <2>1, <2>2
<1> QED BY <1>7 DEF FeedbackIsBacked, Stands

(* Every transaction keeps the feedback backed. *)
LEMMA FeedbackStep ==
    Inv /\ Inv' /\ LogInv /\ FeedbackIsBacked /\ [HNext]_historyVars => FeedbackIsBacked'
<1> SUFFICES ASSUME Inv, Inv', LogInv, FeedbackIsBacked, [HNext]_historyVars
             PROVE  FeedbackIsBacked'
  OBVIOUS
<1>0. TypeOK /\ TypeOK' BY DEF Inv
<1>1. CASE LoggedSlash
  <2> PICK s \in Slashers, a \in Agents, c \in Consumers, class \in BreachClass, h \in Hashes :
             Slash(s, a, c, class, h) /\ breachLog' = Logged(a, class, h)
    BY <1>1 DEF LoggedSlash
  <2>1. ExecuteSlash(a, c, class, h) BY DEF Slash
  <2> QED BY <1>0, <2>1, LoggedBreachIsBacked
<1>2. ASSUME UNCHANGED <<feedback, breachLog>> PROVE FeedbackIsBacked'
  BY <1>2 DEF FeedbackIsBacked
<1>3. ASSUME NEW d \in 1..MaxDisputes, LoggedDispute(d) PROVE FeedbackIsBacked'
  <2> DEFINE a == disputes[d].provider
             c == disputes[d].consumer
             h == disputes[d].rationaleHash
  <2>1. /\ CloseDispute(d)
        /\ ExecuteSlashOrVoid(a, c, h)
        /\ breachLog' = IF bonds[a].slashed THEN breachLog ELSE Logged(a, "Semantic", h)
    BY <1>3 DEF LoggedDispute, ResolveDispute, ApproveDispute, FinalizeExpiredDispute
  <2>2. a \in Agents /\ c \in Consumers /\ h \in Hashes
    <3>1. disputes[d] \in FiledDisputes BY <1>0, <2>1 DEF CloseDispute, TypeOK, NoDispute
    <3> QED BY <3>1 DEF FiledDisputes
  <2>3. CASE bonds[a].slashed BY <1>2, <2>1, <2>3 DEF ExecuteSlashOrVoid
  <2>4. CASE ~bonds[a].slashed
    <3>1. ExecuteSlash(a, c, "Semantic", h) BY <2>1, <2>4 DEF ExecuteSlashOrVoid
    <3>2. "Semantic" \in BreachClass BY DEF BreachClass
    <3> HIDE DEF a, c, h
    <3> QED BY <1>0, <2>1, <2>2, <2>4, <3>1, <3>2, LoggedBreachIsBacked
  <2> QED BY <2>3, <2>4
<1>4. CASE OtherStep
  <2>1. CASE \E s \in Slashers, a \in Agents, h \in Hashes : RecordSettlement(s, a, h)
    <3>1. PICK a \in Agents, h \in Hashes : feedback' \subseteq feedback \cup {<<"Settled", a, h>>}
      BY <2>1 DEF RecordSettlement, ReportFeedback
    <3>2. UNCHANGED breachLog BY <1>4 DEF OtherStep
    <3> QED BY <3>1, <3>2 DEF FeedbackIsBacked
  <2>2. CASE ~ \E s \in Slashers, a \in Agents, h \in Hashes : RecordSettlement(s, a, h)
    <3>1. UNCHANGED <<feedback, breachLog>>
      BY <1>4, <2>2 DEF OtherStep, AgentStep, PostBond, WithdrawBond, FileIndictment,
         ResolveDispute, RejectDispute, RegisterAgent, Tick, SetAuthorizedSlasher,
         SetReputationAdapter, unchangedByOwner
    <3> QED BY <1>2, <3>1
  <2> QED BY <2>1, <2>2
<1>5. CASE UNCHANGED historyVars
  BY <1>2, <1>5 DEF historyVars, vars
<1> QED BY <1>1, <1>3, <1>4, <1>5 DEF HNext

\* The reputation registry holds no breach entry but for a breach of that
\* class executed against that agent for that hash: voided and rejected
\* disputes leave none, whatever was slashed before them and whenever the
\* owner changes slasher or adapter (_executeSlashOrVoid, reportSlash).
THEOREM FeedbackHasACause == HSpec => []FeedbackIsBacked
<1>1. HInit => FeedbackIsBacked BY DEF HInit, Init, FeedbackIsBacked
<1>2. (Inv /\ LogInv) /\ (Inv /\ LogInv)' /\ FeedbackIsBacked /\ [HNext]_historyVars
        => FeedbackIsBacked'
  BY FeedbackStep
<1> QED BY <1>1, <1>2, LogInvHolds, PTL DEF HSpec

-----------------------------------------------------------------------------
\* The inductive invariant.  It says who a dispute or a session may pay; the
\* shapes of the records are what its preservation needs beside that.

\* The consumers that may be paid.
Payees == granted \cup {ConsumerWallet}

\* The accounts that collateral may move between.
Movers == Agents \cup {BondContract} \cup Payees

\* A filed dispute names one of the payees.
DisputesPayPayees ==
    /\ disputes = [d \in 1..MaxDisputes |-> disputes[d]]
    /\ \A d \in 1..MaxDisputes :
          \/ disputes[d] = NoDispute
          \/ \E c \in Payees : \E provider, hash, amount, deadline, state :
                disputes[d] = [ consumer |-> c, provider |-> provider, rationaleHash |-> hash,
                                claimAmount |-> amount, challengeDeadline |-> deadline,
                                state |-> state ]

\* A live session pays an address that was granted.
SessionPaysGranted ==
    /\ session = [ key |-> session.key, payout |-> session.payout,
                   cap |-> session.cap, expiry |-> session.expiry ]
    /\ session.key # Zero => session.payout \in granted

RoutingInv ==
    /\ balance = [x \in Accounts |-> balance[x]]
    /\ DisputesPayPayees
    /\ SessionPaysGranted
    /\ ProceedsReachGrantedPayouts

\* What a step may do to the money: nothing, or a transfer between movers.
MovesSafely ==
    \/ UNCHANGED balance
    \/ \E x, y \in Movers : \E amount : Transfer(x, y, amount)

-----------------------------------------------------------------------------
\* Effects of the bond's functions on what the invariant speaks of.

\* A slash pays its consumer out of the escrow account; only the holder of
\* the slasher role gets it through.
LEMMA SlashEffect ==
    ASSUME NEW s, NEW a, NEW c, NEW class, NEW h, Slash(s, a, c, class, h)
    PROVE  /\ s = authorizedSlasher
           /\ \E amount : Transfer(BondContract, c, amount)
           /\ UNCHANGED disputes
BY DEF Slash, ExecuteSlash

\* A dispute that is closed was filed, changes, and keeps its consumer.
LEMMA CloseEffect ==
    ASSUME DisputesPayPayees, NEW d \in 1..MaxDisputes, CloseDispute(d), Payees \subseteq Payees'
    PROVE  /\ disputes' # disputes
           /\ disputes[d].consumer \in Payees
           /\ DisputesPayPayees'
<1>0. PICK c \in Payees : \E provider, hash, amount, deadline, state :
          disputes[d] = [ consumer |-> c, provider |-> provider, rationaleHash |-> hash,
                          claimAmount |-> amount, challengeDeadline |-> deadline,
                          state |-> state ]
  BY DEF DisputesPayPayees, CloseDispute, NoDispute
<1>1. PICK provider, hash, amount, deadline, state :
          disputes[d] = [ consumer |-> c, provider |-> provider, rationaleHash |-> hash,
                          claimAmount |-> amount, challengeDeadline |-> deadline,
                          state |-> state ]
  BY <1>0
<1>2. disputes' = [disputes EXCEPT ![d].state = "Resolved"]
  BY DEF CloseDispute
<1>3. disputes'[d] = [ consumer |-> c, provider |-> provider, rationaleHash |-> hash,
                       claimAmount |-> amount, challengeDeadline |-> deadline,
                       state |-> "Resolved" ]
  BY <1>1, <1>2 DEF DisputesPayPayees
<1>4. disputes[d].state = "Indicted" /\ disputes'[d].state = "Resolved"
  BY <1>3 DEF CloseDispute
<1>5. \A e \in 1..MaxDisputes : e # d => disputes'[e] = disputes[e]
  BY <1>2 DEF DisputesPayPayees
<1>6. disputes' = [e \in 1..MaxDisputes |-> disputes'[e]]
  BY <1>2 DEF DisputesPayPayees
<1>7. DisputesPayPayees'
  BY <1>3, <1>5, <1>6 DEF DisputesPayPayees, NoDispute
<1> QED BY <1>1, <1>4, <1>7

\* Executing a dispute, or finding it moot, pays at most its consumer.
LEMMA DisputeMoves ==
    ASSUME NEW a, NEW c \in Payees, NEW h, ExecuteSlashOrVoid(a, c, h)
    PROVE  MovesSafely
BY DEF ExecuteSlashOrVoid, ExecuteSlash, MovesSafely, Movers

-----------------------------------------------------------------------------
\* One lemma per group of callers.

\* Agents, owner, the public finalizer and the clock: money moves between
\* movers, and breach counts change only together with a dispute.
LEMMA BondCallers ==
    ASSUME RoutingInv, BondStep
    PROVE  /\ MovesSafely
           /\ DisputesPayPayees'
           /\ breachEpochs' # breachEpochs => disputes' # disputes
<1>0. UNCHANGED <<session, granted>> /\ Payees' = Payees
  BY DEF BondStep, guardVars, Payees
<1>1. ASSUME NEW d \in 1..MaxDisputes, CloseDispute(d),
             \/ ExecuteSlashOrVoid(disputes[d].provider, disputes[d].consumer,
                                   disputes[d].rationaleHash)
             \/ UNCHANGED balance
      PROVE  MovesSafely /\ DisputesPayPayees' /\ disputes' # disputes
  <2>1. disputes[d].consumer \in Payees /\ DisputesPayPayees' /\ disputes' # disputes
    BY <1>0, <1>1, CloseEffect DEF RoutingInv
  <2>2. MovesSafely
    BY <1>1, <2>1, DisputeMoves DEF MovesSafely
  <2> QED BY <2>1, <2>2
<1>2. CASE UNCHANGED <<balance, disputes, breachEpochs>>
  BY <1>0, <1>2 DEF RoutingInv, MovesSafely, DisputesPayPayees, Payees
<1>3. CASE AgentStep
  <2>1. PICK a \in Agents : (\E n \in PostAmounts : PostBond(a, n)) \/ WithdrawBond(a)
    BY <1>3 DEF AgentStep
  <2>2. UNCHANGED <<disputes, breachEpochs>>
    BY <2>1 DEF PostBond, WithdrawBond
  <2>3. MovesSafely
    BY <2>1 DEF PostBond, WithdrawBond, MovesSafely, Movers
  <2> QED BY <1>0, <2>2, <2>3 DEF RoutingInv, DisputesPayPayees, Payees
<1>4. CASE OwnerStep
  <2>1. CASE \E d \in 1..MaxDisputes, approved \in BOOLEAN : ResolveDispute(d, approved)
    BY <1>1, <2>1 DEF ResolveDispute, ApproveDispute, RejectDispute
  <2>2. CASE ~ \E d \in 1..MaxDisputes, approved \in BOOLEAN : ResolveDispute(d, approved)
    BY <1>2, <1>4, <2>2 DEF OwnerStep, SetSlashParameters, SetServiceFee,
       SetEscalationThresholds, SetChallengeParameters, Retune, SetAuthorizedSlasher,
       SetReputationAdapter, unchangedByOwner
  <2> QED BY <2>1, <2>2
<1>5. CASE PublicStep
  BY <1>1, <1>5 DEF PublicStep, FinalizeExpiredDispute
<1>6. CASE (\E a \in Agents : RegisterAgent(a)) \/ Tick
  BY <1>2, <1>6 DEF RegisterAgent, Tick
<1> QED BY <1>3, <1>4, <1>5, <1>6 DEF BondStep

\* A guarded slash pays the granted address, and needs a live session and
\* the slasher role in the guard's hands.
LEMMA GuardedSlashEffect ==
    ASSUME RoutingInv, NEW k, NEW a, NEW class, NEW h, GuardedSlash(k, a, class, h)
    PROVE  /\ MovesSafely
           /\ HasActiveSession
           /\ UNCHANGED <<disputes, session, granted>>
<1>1. session.key # Zero /\ HasActiveSession /\ Slash(Guard, a, session.payout, class, h)
  BY DEF GuardedSlash, Accepts, HasActiveSession
<1>2. session.payout \in Payees
  BY <1>1 DEF RoutingInv, SessionPaysGranted, Payees
<1>3. UNCHANGED disputes /\ \E amount : Transfer(BondContract, session.payout, amount)
  BY <1>1, SlashEffect
<1> QED BY <1>1, <1>2, <1>3 DEF MovesSafely, Movers, GuardedSlash, guardVars

\* A slash with the consumer's own key pays the consumer's wallet, and is
\* not possible while the guard holds the slasher role.
LEMMA OwnKeyEffect ==
    ASSUME NEW class, NEW h, Slash(Signer, Oracle, ConsumerWallet, class, h)
    PROVE  /\ MovesSafely
           /\ authorizedSlasher # Guard
           /\ UNCHANGED disputes
<1>1. /\ Signer = authorizedSlasher
      /\ \E amount : Transfer(BondContract, ConsumerWallet, amount)
      /\ UNCHANGED disputes
  BY SlashEffect
<1> QED BY <1>1, PipelineAssumption DEF MovesSafely, Movers, Payees

\* The guard's owner moves no money, and grants before anything is paid.
LEMMA GuardOwnerEffect ==
    ASSUME RoutingInv, GuardOwnerStep
    PROVE  /\ UNCHANGED <<balance, disputes, breachEpochs>>
           /\ granted \subseteq granted'
           /\ SessionPaysGranted'
<1>1. CASE RevokeSessionKey
  <2>1. session' = [ key |-> Zero, payout |-> session.payout,
                     cap |-> session.cap, expiry |-> 0 ]
    BY <1>1 DEF RevokeSessionKey, RoutingInv, SessionPaysGranted
  <2> QED BY <1>1, <2>1 DEF RevokeSessionKey, vars, SessionPaysGranted
<1>2. ASSUME NEW k \in Keys, NEW payout \in Payouts, NEW cap \in AmountCaps,
             NEW t \in Lifetimes, GrantSessionKey(k, payout, cap, t)
      PROVE  /\ UNCHANGED <<balance, disputes, breachEpochs>>
             /\ granted \subseteq granted'
             /\ SessionPaysGranted'
  BY <1>2 DEF GrantSessionKey, vars, SessionPaysGranted
<1> QED BY <1>1, <1>2 DEF GuardOwnerStep

-----------------------------------------------------------------------------
\* One lemma per process.

\* What every step guarantees: the right-hand sides the two theorems need.
StepIsSafe ==
    /\ MovesSafely
    /\ Payees \subseteq Payees'
    /\ DisputesPayPayees'
    /\ SessionPaysGranted'
    /\ (authorizedSlasher = Guard /\ ~HasActiveSession /\ breachEpochs' # breachEpochs)
          => disputes' # disputes

\* Reads, failures and restarts.
LEMMA NothingMoves ==
    ASSUME RoutingInv, UNCHANGED <<balance, disputes, breachEpochs, session, granted>>
    PROVE  StepIsSafe
BY DEF RoutingInv, StepIsSafe, MovesSafely, DisputesPayPayees, SessionPaysGranted, Payees

\* A slash, guarded or not.
LEMMA SlashIsSafe ==
    ASSUME RoutingInv, UNCHANGED <<disputes, session, granted>>, MovesSafely,
           authorizedSlasher # Guard \/ HasActiveSession
    PROVE  StepIsSafe
BY DEF RoutingInv, StepIsSafe, DisputesPayPayees, SessionPaysGranted, Payees

\* An indictment of a consumer loop names the consumer's wallet.
LEMMA FileIsSafe ==
    ASSUME RoutingInv, NEW l \in Loops, FileDispute(l)
    PROVE  StepIsSafe
<1>1. /\ FileIndictment(Signer, Oracle, ConsumerWallet, plan[l].hash)
      /\ UNCHANGED <<session, granted>>
  BY DEF FileDispute, guardVars
<1> DEFINE d == nextDisputeId + 1
           new == [ consumer |-> ConsumerWallet, provider |-> Oracle,
                    rationaleHash |-> plan[l].hash,
                    claimAmount |-> PreviewSlash(Oracle, "Semantic"),
                    challengeDeadline |-> now + config.disputeWindow,
                    state |-> "Indicted" ]
<1>2. disputes' = [disputes EXCEPT ![d] = new] /\ UNCHANGED <<balance, breachEpochs>>
  BY <1>1 DEF FileIndictment
<1>3. ConsumerWallet \in Payees /\ Payees' = Payees
  BY <1>1 DEF Payees
<1>4. /\ disputes' = [e \in 1..MaxDisputes |-> disputes'[e]]
      /\ \A e \in 1..MaxDisputes : disputes'[e] = disputes[e] \/ disputes'[e] = new
  <2> HIDE DEF d, new
  <2> QED BY <1>2 DEF RoutingInv, DisputesPayPayees
<1>5. DisputesPayPayees'
  BY <1>3, <1>4 DEF RoutingInv, DisputesPayPayees, NoDispute
<1> QED BY <1>1, <1>2, <1>3, <1>5 DEF StepIsSafe, MovesSafely, RoutingInv, SessionPaysGranted

\* The consumer loops.
LEMMA LoopIsSafe ==
    ASSUME RoutingInv, NEW l \in Loops, LoopStep(l)
    PROVE  StepIsSafe
<1>1. CASE SendSlash(l)
  <2>1. CASE plan[l].guarded
    <3>1. GuardedSlash(SessionKey, Oracle, plan[l].class, plan[l].hash)
      BY <1>1, <2>1 DEF SendSlash
    <3> QED BY <3>1, GuardedSlashEffect, SlashIsSafe
  <2>2. CASE ~plan[l].guarded
    <3>1. /\ Slash(Signer, Oracle, ConsumerWallet, plan[l].class, plan[l].hash)
          /\ UNCHANGED <<session, granted>>
      BY <1>1, <2>2 DEF SendSlash, guardVars
    <3> QED BY <3>1, OwnKeyEffect, SlashIsSafe
  <2> QED BY <2>1, <2>2
<1>2. CASE FileDispute(l)
  BY <1>2, FileIsSafe
<1>3. CASE ~SendSlash(l) /\ ~FileDispute(l)
  <2>1. UNCHANGED <<vars, guardVars>>
    BY <1>3 DEF LoopStep, Adjudicate, ReadThreshold, ReadPreview, CheckActive, ReadBond,
       CheckSession, Report, Fail, Read
  <2> QED BY <2>1, NothingMoves DEF vars, guardVars
<1> QED BY <1>1, <1>2, <1>3

\* The trigger cycle.
LEMMA TriggerIsSafe ==
    ASSUME RoutingInv, TriggerStep
    PROVE  StepIsSafe
<1>1. CASE TriggerPost
  <2>1. PostBond(Oracle, trigger.amount) /\ UNCHANGED <<session, granted>>
    BY <1>1 DEF TriggerPost, guardVars
  <2>2. MovesSafely /\ UNCHANGED <<disputes, breachEpochs>>
    BY <2>1, PipelineAssumption DEF PostBond, MovesSafely, Movers
  <2> QED BY <2>1, <2>2 DEF StepIsSafe, RoutingInv, DisputesPayPayees, SessionPaysGranted, Payees
<1>2. CASE TriggerSlash
  <2>1. PICK h \in Hashes : Slash(Signer, Oracle, ConsumerWallet, "Hard", h)
    BY <1>2 DEF TriggerSlash
  <2>2. UNCHANGED <<session, granted>>
    BY <1>2 DEF TriggerSlash, guardVars
  <2> QED BY <2>1, <2>2, OwnKeyEffect, SlashIsSafe
<1>3. CASE TriggerRecharge
  <2>1. MovesSafely /\ UNCHANGED <<disputes, breachEpochs, session, granted>>
    BY <1>3, PipelineAssumption DEF TriggerRecharge, MovesSafely, Movers, Payees, guardVars
  <2> QED BY <2>1 DEF StepIsSafe, RoutingInv, DisputesPayPayees, SessionPaysGranted, Payees
<1>4. CASE TriggerCheck \/ TriggerBalance \/ TriggerFail
  <2>1. UNCHANGED <<vars, guardVars>>
    BY <1>4 DEF TriggerCheck, TriggerBalance, TriggerFail
  <2> QED BY <2>1, NothingMoves DEF vars, guardVars
<1> QED BY <1>1, <1>2, <1>3, <1>4 DEF TriggerStep

\* Everybody else.
LEMMA OthersAreSafe ==
    ASSUME RoutingInv, BondStep \/ GuardOwnerStep \/ KeyHolderStep
    PROVE  StepIsSafe
<1>1. CASE BondStep
  <2>1. UNCHANGED <<session, granted>>
    BY <1>1 DEF BondStep, guardVars
  <2> QED BY <1>1, <2>1, BondCallers DEF StepIsSafe, RoutingInv, SessionPaysGranted, Payees
<1>2. CASE GuardOwnerStep
  <2>1. /\ UNCHANGED <<balance, disputes, breachEpochs>>
        /\ granted \subseteq granted'
        /\ SessionPaysGranted'
    BY <1>2, GuardOwnerEffect
  <2>2. Payees \subseteq Payees'
    BY <2>1 DEF Payees
  <2>3. DisputesPayPayees'
    BY <2>1, <2>2 DEF RoutingInv, DisputesPayPayees
  <2> QED BY <2>1, <2>2, <2>3 DEF StepIsSafe, MovesSafely
<1>3. CASE KeyHolderStep
  <2>1. PICK k \in Keys, a \in Agents, h \in Hashes :
          \/ \E class \in BreachClass : GuardedSlash(k, a, class, h)
          \/ \E amount \in AmountCaps : GuardedRecordSettlement(k, a, amount, h)
    BY <1>3 DEF KeyHolderStep
  <2>2. CASE \E class \in BreachClass : GuardedSlash(k, a, class, h)
    BY <2>2, GuardedSlashEffect, SlashIsSafe
  <2>3. CASE \E amount \in AmountCaps : GuardedRecordSettlement(k, a, amount, h)
    <3>1. UNCHANGED <<balance, disputes, breachEpochs, session, granted>>
      BY <2>3 DEF GuardedRecordSettlement, RecordSettlement, guardVars
    <3> QED BY <3>1, NothingMoves
  <2> QED BY <2>1, <2>2, <2>3
<1> QED BY <1>1, <1>2, <1>3

-----------------------------------------------------------------------------
\* Every step is safe, and a safe step preserves the invariant.
LEMMA EveryStepIsSafe ==
    ASSUME RoutingInv, [PipelineNext]_allVars
    PROVE  StepIsSafe
<1>1. CASE UNCHANGED allVars
  BY <1>1, NothingMoves DEF allVars, vars, guardVars
<1>2. CASE PipelineNext
  BY <1>2, LoopIsSafe, TriggerIsSafe, OthersAreSafe DEF PipelineNext
<1> QED BY <1>1, <1>2

(* The routing invariant holds in every reachable state of the pipeline. *)
LEMMA RoutingInvHolds == PipelineSpec => []RoutingInv
<1>1. PipelineInit => RoutingInv
  <2> SUFFICES ASSUME PipelineInit PROVE RoutingInv
    OBVIOUS
  <2>1. /\ balance = [x \in Accounts |-> balance[x]]
        /\ \A c \in Consumers : balance[c] = 0
    BY BondAssumption DEF PipelineInit, Init, Accounts
  <2>2. DisputesPayPayees
    BY DEF PipelineInit, Init, DisputesPayPayees
  <2>3. SessionPaysGranted
    BY DEF PipelineInit, GuardInit, SessionPaysGranted
  <2> QED BY <2>1, <2>2, <2>3 DEF RoutingInv, ProceedsReachGrantedPayouts
<1>2. RoutingInv /\ [PipelineNext]_allVars => RoutingInv'
  <2> SUFFICES ASSUME RoutingInv, [PipelineNext]_allVars PROVE RoutingInv'
    OBVIOUS
  <2>1. StepIsSafe
    BY EveryStepIsSafe
  <2>2. balance' = [x \in Accounts |-> balance'[x]]
    BY <2>1 DEF StepIsSafe, MovesSafely, Transfer, RoutingInv, Accounts
  <2>3. ASSUME NEW c \in Consumers, c \notin Payees'
        PROVE  balance'[c] = balance[c]
    <3>1. c \notin Movers /\ c \in Accounts
      BY <2>1, <2>3, BondAssumption DEF StepIsSafe, Movers, Accounts
    <3> QED BY <2>1, <3>1 DEF StepIsSafe, MovesSafely, Transfer, RoutingInv
  <2>4. ProceedsReachGrantedPayouts'
    BY <2>1, <2>3 DEF StepIsSafe, RoutingInv, ProceedsReachGrantedPayouts, Payees
  <2> QED BY <2>1, <2>2, <2>4 DEF StepIsSafe, RoutingInv
<1> QED BY <1>1, <1>2, PTL DEF PipelineSpec

\* Whoever holds a session key, slashed collateral reaches only the
\* consumer's wallet or a payout address that the guard's owner granted
\* (guardedSlash, executeSlash, triggerCycle and every dispute).
THEOREM ProceedsAreRouted == PipelineSpec => []ProceedsReachGrantedPayouts
<1>1. RoutingInv => ProceedsReachGrantedPayouts
  BY DEF RoutingInv
<1> QED BY <1>1, RoutingInvHolds, PTL

\* While the guard is the slasher and has no live session, no breach is
\* counted but by closing a dispute filed before (onlySessionKey, slash).
THEOREM SessionsBoundSlashes == PipelineSpec => NoSlashOutsideSession
<1>1. RoutingInv /\ [PipelineNext]_allVars =>
        [(authorizedSlasher = Guard /\ ~HasActiveSession /\ breachEpochs' # breachEpochs)
            => disputes' # disputes]_allVars
  BY EveryStepIsSafe DEF StepIsSafe
<1> QED BY <1>1, RoutingInvHolds, PTL DEF PipelineSpec, NoSlashOutsideSession

-----------------------------------------------------------------------------
\* The route of a verdict.

\* A plan has its five fields, and every loop has a plan.
Plan(p) ==
    \E class, guarded, hash, threshold, route :
        p = [ class |-> class, guarded |-> guarded, hash |-> hash,
              threshold |-> threshold, route |-> route ]

PlansAreKept ==
    /\ pc = [l \in Loops |-> pc[l]]
    /\ plan = [l \in Loops |-> plan[l]]
    /\ \A l \in Loops : Plan(plan[l])

\* The plan a verdict starts with.
LEMMA PlanOf ==
    ASSUME NEW class, NEW h, NEW guarded
    PROVE  Plan([NoPlan EXCEPT !.class = class, !.hash = h, !.guarded = guarded])
<1> DEFINE q == [NoPlan EXCEPT !.class = class]
           r == [q EXCEPT !.hash = h]
           p == [r EXCEPT !.guarded = guarded]
<1>1. Plan(NoPlan)
  BY DEF Plan, NoPlan
<1>2. PICK oldClass, oldGuarded, hash, threshold, route :
         NoPlan = [ class |-> oldClass, guarded |-> oldGuarded, hash |-> hash,
                    threshold |-> threshold, route |-> route ]
  BY <1>1 DEF Plan
<1>3. q = [ class |-> class, guarded |-> oldGuarded, hash |-> hash,
            threshold |-> threshold, route |-> route ]
  BY <1>2
<1> HIDE DEF q
<1>4. r = [ class |-> class, guarded |-> oldGuarded, hash |-> h,
            threshold |-> threshold, route |-> route ]
  BY <1>3
<1> HIDE DEF r
<1>5. p = [ class |-> class, guarded |-> guarded, hash |-> h,
            threshold |-> threshold, route |-> route ]
  BY <1>4
<1> HIDE DEF p
<1>6. Plan(p)
  BY <1>5 DEF Plan
<1> QED BY <1>6 DEF p, q, r

\* A step of one loop: either it picks the route, or it does not arrive at
\* the check from the preview.
LEMMA LoopAdvances ==
    ASSUME PlansAreKept, NEW l \in Loops, LoopStep(l)
    PROVE  \E from, to : \E p :
              /\ Advance(l, from, to, p) /\ Plan(p)
              /\ (from = "preview" /\ to = "check") => p.route = Route(plan[l].threshold)
<1>0. Plan(plan[l]) /\ Plan(NoPlan)
  BY DEF PlansAreKept, Plan, NoPlan
<1>1. CASE Adjudicate(l)
  <2>1. PICK class \in BreachClass, h \in Hashes, guarded \in BOOLEAN :
           Read(l, "idle", IF class = "Hard" THEN "check" ELSE "threshold",
                [NoPlan EXCEPT !.class = class, !.hash = h, !.guarded = guarded])
    BY <1>1 DEF Adjudicate
  <2> DEFINE to == IF class = "Hard" THEN "check" ELSE "threshold"
             p == [NoPlan EXCEPT !.class = class, !.hash = h, !.guarded = guarded]
  <2>2. Plan(p)
    BY PlanOf
  <2>3. Advance(l, "idle", to, p)
    BY <2>1 DEF Read
  <2> HIDE DEF to, p
  <2> QED BY <2>2, <2>3
<1>2. CASE ReadThreshold(l)
  <2> DEFINE p == [plan[l] EXCEPT !.threshold = config.challengeThreshold]
  <2>1. Advance(l, "threshold", "preview", p)
    BY <1>2 DEF ReadThreshold, Read
  <2>2. PICK class, guarded, hash, threshold, route :
           plan[l] = [ class |-> class, guarded |-> guarded, hash |-> hash,
                       threshold |-> threshold, route |-> route ]
    BY <1>0 DEF Plan
  <2>3. p = [ class |-> class, guarded |-> guarded, hash |-> hash,
              threshold |-> config.challengeThreshold, route |-> route ]
    BY <2>2
  <2> HIDE DEF p
  <2>4. Plan(p)
    BY <2>3 DEF Plan
  <2> QED BY <2>1, <2>4
<1>3. CASE ReadPreview(l)
  <2> DEFINE route == Route(plan[l].threshold)
             q == [plan[l] EXCEPT !.route = route]
             p == [q EXCEPT !.threshold = 0]
  <2>1. Advance(l, "preview", "check", p)
    BY <1>3 DEF ReadPreview, Read
  <2> HIDE DEF route
  <2>2. PICK class, guarded, hash, threshold, old :
           plan[l] = [ class |-> class, guarded |-> guarded, hash |-> hash,
                       threshold |-> threshold, route |-> old ]
    BY <1>0 DEF Plan
  <2>3. q = [ class |-> class, guarded |-> guarded, hash |-> hash,
              threshold |-> threshold, route |-> route ]
    BY <2>2
  <2> HIDE DEF q
  <2>4. p = [ class |-> class, guarded |-> guarded, hash |-> hash,
              threshold |-> 0, route |-> route ]
    BY <2>3
  <2> HIDE DEF p
  <2>5. Plan(p) /\ p.route = route
    BY <2>4 DEF Plan
  <2>6. p.route = Route(plan[l].threshold)
    BY <2>5 DEF route
  <2> QED BY <2>1, <2>5, <2>6
<1>4. CASE CheckActive(l)
  <2>1. \E to : Advance(l, "check", to, plan[l])
    BY <1>4 DEF CheckActive, Read
  <2> QED BY <1>0, <2>1
<1>5. CASE ReadBond(l)
  <2>1. \E to : Advance(l, "bond", to, plan[l])
    BY <1>5 DEF ReadBond, Read
  <2> QED BY <1>0, <2>1
<1>6. CASE CheckSession(l)
  <2>1. \E to : Advance(l, "session", to, plan[l])
    BY <1>6 DEF CheckSession, Read
  <2> QED BY <1>0, <2>1
<1>7. CASE SendSlash(l)
  <2>1. Advance(l, "send", "report", plan[l]) \/ Advance(l, "send", "idle", NoPlan)
    BY <1>7 DEF SendSlash
  <2> QED BY <1>0, <2>1
<1>8. CASE FileDispute(l) \/ Report(l) \/ Fail(l)
  <2>1. \E from : Advance(l, from, "idle", NoPlan)
    BY <1>8 DEF FileDispute, Report, Fail, Read
  <2> QED BY <1>0, <2>1
<1> QED BY <1>1, <1>2, <1>3, <1>4, <1>5, <1>6, <1>7, <1>8 DEF LoopStep

\* Every loop keeps a plan, and the route a loop has when it comes from the
\* preview is the one the figures of that state give.
LEMMA RoutesArePicked ==
    ASSUME PlansAreKept, [PipelineNext]_allVars
    PROVE  /\ PlansAreKept'
           /\ \A l \in Loops :
                 (pc[l] = "preview" /\ pc'[l] = "check")
                    => plan'[l].route = Route(plan[l].threshold)
<1>1. CASE UNCHANGED loopVars
  BY <1>1 DEF PlansAreKept, loopVars
<1>2. ASSUME NEW l \in Loops, LoopStep(l)
      PROVE  /\ PlansAreKept'
             /\ \A k \in Loops :
                   (pc[k] = "preview" /\ pc'[k] = "check")
                      => plan'[k].route = Route(plan[k].threshold)
  <2>1. PICK from, to, p :
           /\ Advance(l, from, to, p) /\ Plan(p)
           /\ (from = "preview" /\ to = "check") => p.route = Route(plan[l].threshold)
    BY <1>2, LoopAdvances
  <2>2. /\ pc[l] = from /\ pc' = [pc EXCEPT ![l] = to] /\ plan' = [plan EXCEPT ![l] = p]
    BY <2>1 DEF Advance
  <2>3. /\ pc' = [k \in Loops |-> pc'[k]] /\ plan' = [k \in Loops |-> plan'[k]]
        /\ pc'[l] = to /\ plan'[l] = p
        /\ \A k \in Loops : k # l => pc'[k] = pc[k] /\ plan'[k] = plan[k]
    BY <2>2 DEF PlansAreKept
  <2>4. PlansAreKept'
    BY <2>1, <2>3 DEF PlansAreKept
  <2>5. \A k \in Loops : (pc[k] = "preview" /\ pc'[k] = "check")
                            => plan'[k].route = Route(plan[k].threshold)
    BY <2>1, <2>2, <2>3
  <2> QED BY <2>4, <2>5
<1>3. CASE TriggerStep
  <2>1. UNCHANGED loopVars
    BY <1>3 DEF TriggerStep, TriggerCheck, TriggerBalance, TriggerPost, TriggerSlash,
       TriggerRecharge, TriggerFail, TriggerGoto
  <2> QED BY <1>1, <2>1
<1> QED BY <1>1, <1>2, <1>3 DEF PipelineNext, allVars

\* The route the gate picks is the one the contract admits in the state it
\* has read: determineRoute and the contract agree for every schedule,
\* epoch, count of breaches and size of bond (semanticGate, _previewSlash).
THEOREM RoutesAreAdmitted == PipelineSpec => RouteMirrorsContract
<1>1. PipelineInit => PlansAreKept
  <2>1. Plan(NoPlan)
    BY DEF Plan, NoPlan
  <2> QED BY <2>1 DEF PipelineInit, LoopsAtRest, PlansAreKept
<1>2. PlansAreKept /\ [PipelineNext]_allVars => PlansAreKept'
  BY RoutesArePicked
<1>3. PlansAreKept /\ [PipelineNext]_allVars =>
        [\A l \in Loops :
            (/\ pc[l] = "preview" /\ pc'[l] = "check"
             /\ plan[l].threshold = config.challengeThreshold
             /\ IsActiveBondedAgent(Oracle))
            => IF plan'[l].route = "instant" THEN SlashAdmits(Oracle, "Semantic")
                                             ELSE IndictmentAdmits(Oracle)]_allVars
  <2> SUFFICES ASSUME PlansAreKept, [PipelineNext]_allVars, NEW l \in Loops,
                      pc[l] = "preview", pc'[l] = "check",
                      plan[l].threshold = config.challengeThreshold,
                      IsActiveBondedAgent(Oracle)
               PROVE  IF plan'[l].route = "instant" THEN SlashAdmits(Oracle, "Semantic")
                                                    ELSE IndictmentAdmits(Oracle)
    OBVIOUS
  <2>1. plan'[l].route = Route(config.challengeThreshold)
    BY RoutesArePicked
  <2>2. CASE ~WouldEscalate(Oracle, "Semantic")
                /\ PreviewSlash(Oracle, "Semantic") > config.challengeThreshold
    BY <2>1, <2>2 DEF Route, IndictmentAdmits
  <2>3. CASE ~(~WouldEscalate(Oracle, "Semantic")
                 /\ PreviewSlash(Oracle, "Semantic") > config.challengeThreshold)
    BY <2>1, <2>3 DEF Route, SlashAdmits
  <2> QED BY <2>2, <2>3
<1> QED BY <1>1, <1>2, <1>3, PTL DEF PipelineSpec, RouteMirrorsContract
=============================================================================
