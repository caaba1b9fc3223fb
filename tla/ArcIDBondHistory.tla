-------------------------- MODULE ArcIDBondHistory --------------------------
(***************************************************************************)
(* ArcIDBond with a history variable: every executed breach, with its       *)
(* class, its time and the hash it was executed for.  The contract decides  *)
(* escalations from two stored counters; the log says which breaches really *)
(* happened, so claims about windows, thresholds and the feedback given for *)
(* breaches can be stated about the breaches and not about the counters.    *)
(* The owner's schedule is fixed here (the log is read against it); his     *)
(* choice of slasher and of reputation adapter is not.                      *)
(***************************************************************************)
EXTENDS ArcIDBond, Sequences

VARIABLE breachLog      \* per agent, the executed breaches, oldest first

historyVars == <<vars, breachLog>>

Breaches(a, class, from) ==
    {i \in DOMAIN breachLog[a] : breachLog[a][i].class = class /\ breachLog[a][i].time >= from}

Logged(a, class, h) ==
    [breachLog EXCEPT ![a] = Append(@, [class |-> class, time |-> now, hash |-> h])]

HInit == Init /\ breachLog = [a \in Agents |-> <<>>]

LoggedSlash ==
    \E s \in Slashers, a \in Agents, c \in Consumers, class \in BreachClass, h \in Hashes :
        /\ Slash(s, a, c, class, h)
        /\ breachLog' = Logged(a, class, h)

LoggedDispute(d) ==
    /\ ResolveDispute(d, TRUE) \/ FinalizeExpiredDispute(d)
    /\ breachLog' = IF bonds[disputes[d].provider].slashed
                    THEN breachLog
                    ELSE Logged(disputes[d].provider, "Semantic", disputes[d].rationaleHash)

OtherStep ==
    /\ \/ AgentStep
       \/ \E s \in Slashers, a \in Agents, c \in Consumers, h \in Hashes :
             FileIndictment(s, a, c, h) \/ RecordSettlement(s, a, h)
       \/ \E d \in 1..MaxDisputes : ResolveDispute(d, FALSE)
       \/ \E s \in Slashers : SetAuthorizedSlasher(s)
       \/ \E r \in Adapters \cup {NoAdapter} : SetReputationAdapter(r)
       \/ \E a \in Agents : RegisterAgent(a)
       \/ Tick
    /\ UNCHANGED breachLog

HNext ==
    \/ LoggedSlash
    \/ \E d \in 1..MaxDisputes : LoggedDispute(d)
    \/ OtherStep

HSpec == HInit /\ [][HNext]_historyVars

-----------------------------------------------------------------------------
\* Nobody is blacklisted on invented evidence: some class has at least its
\* threshold of executed breaches over the agent's lifetime, across bonds
\* and epochs, voided and rejected disputes not counted.
EscalationHasBreaches ==
    \A a \in blacklisted : \E class \in BreachClass :
        Cardinality(Breaches(a, class, 0)) >= config.threshold[class]

\* The converse within one epoch: once a class has its threshold of breaches
\* since the epoch's start, the agent is blacklisted.  Which breach bars is
\* what _executeSlash decides (newCount >= threshold) and what the contract's
\* test pins ("exactly at the threshold-crossing incident (3rd hard breach)",
\* ArcIDBondSlashClasses.test.js:181); the contract's own comment says the
\* next one, which BarsArePastThreshold states.
EnoughBreachesEscalate ==
    \A a \in Agents, class \in BreachClass :
        (/\ breachEpochs[a].epochStart # 0
         /\ Cardinality(Breaches(a, class, breachEpochs[a].epochStart)) >= config.threshold[class])
          => a \in blacklisted

\* What the contract's comment says of the cliff (ArcIDBond.sol:42-52): the
\* threshold itself is still survived ("past a configurable per-class
\* threshold, the *next* slash"), so a barred agent has executed more
\* breaches of some class than its threshold.
BarsArePastThreshold ==
    \A a \in blacklisted : \E class \in BreachClass :
        Cardinality(Breaches(a, class, 0)) > config.threshold[class]

\* A breach entry in the ERC-8004 registry stands for a breach of that class
\* that was executed against that agent for that very hash: a dispute voided
\* because the bond was drained meanwhile, or one the owner rejected, leaves
\* none, also when other slashes of the agent were executed before.
FeedbackIsBacked ==
    \A f \in feedback :
        f[1] # "Settled" =>
            \E i \in DOMAIN breachLog[f[2]] :
                breachLog[f[2]][i].class = f[1] /\ breachLog[f[2]][i].hash = f[3]

\* What the struct's comment says of BreachEpoch: counts are breaches within
\* one 24h window, so an escalation needs a threshold of breaches of its
\* class in the window it happens in.
EscalationIsEarnedInWindow ==
    \A a \in blacklisted : \E class \in BreachClass :
        Cardinality(Breaches(a, class, breachEpochs[a].epochStart)) >= config.threshold[class]

=============================================================================
