---------------------------- MODULE ConsumerCycle ----------------------------
(***************************************************************************)
(* The consumer's act-on-verdict half of a cycle: settle a clean verdict    *)
(* (dedupe, circuit breaker, Gateway payment, on-chain record, ledger save) *)
(* or slash a breach, then write ERC-8004 feedback through a second ledger. *)
(* Both ledgers are files that a process loads, keeps over its awaits and   *)
(* writes back whole; it may die at any await or in the middle of a write,  *)
(* which leaves a file that loads as empty.                                 *)
(*                                                                         *)
(* An operator that no other definition uses is a mutant of the definition  *)
(* right after it.                                                          *)
(***************************************************************************)
EXTENDS Integers, FiniteSets, FiniteSetsExt

CONSTANTS
    Consumers,          \* processes of the consumer that share LOG_DIR
    Services,           \* service ids: the oracle's signatures
    OkHashes,           \* verdictHash of a clean verdict: its outcome only
    Reasons,            \* keccak256(reason) of a breach
    Reporting,          \* whether ORACLE_AGENT_ID_8004 is set
    Price,              \* PRICE_ATOMIC
    Minute, Hour,       \* the two rolling windows, in ticks
    CapPerMinute, CapPerHour,
    MaxTime,            \* bound: last value of the clock
    MaxPayments,        \* bound: payments that move funds
    MaxFeedback         \* bound: feedback transactions per hash

Keys   == Services \X OkHashes
Hashes == OkHashes \cup Reasons
Times  == 0..MaxTime
Nothing == [settled |-> FALSE]

ASSUME ConsumerAssumption ==
    /\ OkHashes \cap Reasons = {}
    /\ IsFiniteSet(Services) /\ IsFiniteSet(OkHashes)
    /\ Reporting \in BOOLEAN
    /\ Price \in Nat \ {0}
    /\ Minute \in Nat /\ Hour \in Nat
    /\ CapPerMinute \in Nat /\ CapPerHour \in Nat
    /\ MaxTime \in Nat /\ MaxPayments \in Nat /\ MaxFeedback \in Nat

VARIABLES
    now,
    ledger,             \* settlement_ledger.json: entries per dedupe key
    breaker,            \* its _circuitBreaker entry: tripped or not
    erc8004,            \* erc8004_ledger.json: status per evidence hash
    bondActive,         \* the oracle's bond is active
    settledVerdicts,    \* ArcIDBond.settledVerdicts
    feedback,           \* entries in the reputation registry, per hash
    stage,              \* per process: where it is
    task,               \* per process: what it works on, its copies of the files
    devMode,            \* per process: DEV_MODE of its environment
    paid,               \* history: payments that moved funds, per key and time
    lost,               \* history: those of them no ledger entry will record
    unknown             \* history: feedback that landed and is not confirmed

ledgers == <<ledger, breaker, erc8004>>
chain == <<bondActive, settledVerdicts, feedback>>
local == <<stage, task, devMode>>
history == <<paid, lost, unknown>>
cycleVars == <<now, ledgers, chain, local, history>>

-----------------------------------------------------------------------------
\* Helpers.

Total(counts, cells) == SumFunctionOnSet(counts, cells)
Cells(k)             == {k} \X Times
Recent(window)       == {cell \in Keys \X Times : cell[2] <= now /\ now - cell[2] <= window}

Within(entry, window) == entry.settled /\ now - entry.at <= window
RollingSpend(entries, window) ==
    Total([k \in Keys |-> IF Within(entries[k], window) THEN entries[k].amount ELSE 0], Keys)

ExceedsWithoutIncoming(entries) ==
    \/ RollingSpend(entries, Minute) > CapPerMinute
    \/ RollingSpend(entries, Hour) > CapPerHour
Exceeds(entries) ==
    \/ RollingSpend(entries, Minute) + Price > CapPerMinute
    \/ RollingSpend(entries, Hour) + Price > CapPerHour

Key(c)           == task[c].key
MoveTo(c, label)   == stage' = [stage EXCEPT ![c] = label]
Work(c, changed) == task' = [task EXCEPT ![c] = changed]
Count(counter, index) == [counter EXCEPT ![index] = @ + 1]

NoTask ==
    [key |-> <<>>, hash |-> <<>>, amount |-> 0, at |-> 0, onChain |-> "none",
     ledger |-> <<>>, breaker |-> FALSE, erc8004 |-> <<>>]

Finish(c) == MoveTo(c, "idle") /\ Work(c, NoTask)

-----------------------------------------------------------------------------
\* executeSettlement.

\* Up to its first await: load the ledger, look for the dedupe key, ask the
\* breaker.  "trip" and "simulate" are about to save the ledger.
BeginWhenTripped(c, k) ==
    /\ Work(c, [NoTask EXCEPT !.key = k, !.hash = k[2], !.ledger = ledger, !.breaker = breaker])
    /\ MoveTo(c, IF Exceeds(ledger) THEN "trip" ELSE IF devMode[c] THEN "simulate" ELSE "pay")
    /\ UNCHANGED <<now, ledgers, chain, history, devMode>>
BeginSettlement(c, k) ==
    /\ ~breaker
    /\ Work(c, [NoTask EXCEPT !.key = k, !.hash = k[2], !.ledger = ledger])
    /\ MoveTo(c, IF Exceeds(ledger) THEN "trip" ELSE IF devMode[c] THEN "simulate" ELSE "pay")
    /\ UNCHANGED <<now, ledgers, chain, history, devMode>>

\* A tripped breaker refuses at once, whatever has become of the windows.
Refuse(c) == breaker /\ UNCHANGED cycleVars

\* The result of a deduped call spreads the prior entry over settled: FALSE.
SettleAgain(c, k) ==
    /\ IF ledger[k].simulated THEN Finish(c)
       ELSE Work(c, [NoTask EXCEPT !.hash = k[2]]) /\ MoveTo(c, "report")
    /\ UNCHANGED <<now, ledgers, chain, history, devMode>>

SettleWithoutDedupe(c, k) == stage[c] = "idle" /\ (BeginSettlement(c, k) \/ Refuse(c))
Settle(c, k) ==
    /\ stage[c] = "idle"
    /\ IF ledger[k].settled THEN SettleAgain(c, k)
       ELSE BeginSettlement(c, k) \/ Refuse(c)

\* Writes the loaded copy back, with the breaker's entry tripped.
SaveTrip(c) ==
    /\ stage[c] = "trip"
    /\ ledger' = task[c].ledger
    /\ breaker' = TRUE
    /\ Finish(c)
    /\ UNCHANGED <<now, erc8004, chain, history, devMode>>

\* Writes the loaded copy back with the entry of this settlement.
Save(c, simulated, amount) ==
    /\ ledger' = [task[c].ledger EXCEPT ![Key(c)] =
                    [settled |-> TRUE, at |-> now, amount |-> amount,
                     simulated |-> simulated, onChain |-> task[c].onChain]]
    /\ breaker' = task[c].breaker

SaveSimulated(c) ==
    /\ stage[c] = "simulate"
    /\ Save(c, TRUE, Price)
    /\ Finish(c)
    /\ UNCHANGED <<now, erc8004, chain, history, devMode>>

\* client.pay: it pays the agreed price, finds the resource free (amount
\* null), is aborted by the gate or fails, or moves funds and then fails.
Pay(c) ==
    /\ stage[c] = "pay"
    /\ Total(paid, Keys \X Times) < MaxPayments
    /\ \/ /\ paid' = Count(paid, <<Key(c), now>>)
          /\ Work(c, [task[c] EXCEPT !.amount = Price, !.at = now])
          /\ MoveTo(c, "onchain")
          /\ UNCHANGED lost
       \/ MoveTo(c, "onchain") /\ UNCHANGED <<task, paid, lost>>
       \/ Finish(c) /\ UNCHANGED <<paid, lost>>
       \/ /\ paid' = Count(paid, <<Key(c), now>>)
          /\ lost' = Count(lost, <<Key(c), now>>)
          /\ Finish(c)
    /\ UNCHANGED <<now, ledgers, chain, unknown, devMode>>

\* gateOnChainRecord, then recordSettlement: it may revert, fail before it
\* is mined, or be mined without the process learning of it.
RecordOnChain(c) ==
    LET Result(result) == Work(c, [task[c] EXCEPT !.onChain = result]) IN
    /\ stage[c] = "onchain"
    /\ MoveTo(c, "record")
    /\ \/ /\ task[c].amount # Price
          /\ Result("gated")
          /\ UNCHANGED settledVerdicts
       \/ /\ task[c].amount = Price /\ bondActive /\ task[c].hash \notin settledVerdicts
          /\ settledVerdicts' = settledVerdicts \cup {task[c].hash}
          /\ Result("recorded") \/ Result("failed")
       \/ /\ task[c].amount = Price /\ bondActive /\ task[c].hash \in settledVerdicts
          /\ Result("AlreadySettled")
          /\ UNCHANGED settledVerdicts
       \/ /\ task[c].amount = Price
          /\ Result("failed")
          /\ UNCHANGED settledVerdicts
    /\ UNCHANGED <<now, ledgers, bondActive, feedback, history, devMode>>

\* The job goes on with its evidence hash and whether an event is on chain.
Report(c) ==
    /\ MoveTo(c, "report")
    /\ Work(c, [NoTask EXCEPT !.hash = task[c].hash, !.onChain = task[c].onChain])

SaveWithoutAmount(c) ==
    /\ stage[c] = "record"
    /\ Save(c, FALSE, 0)
    /\ Report(c)
    /\ UNCHANGED <<now, erc8004, chain, history, devMode>>
SaveSettlement(c) ==
    /\ stage[c] = "record"
    /\ Save(c, FALSE, task[c].amount)
    /\ Report(c)
    /\ UNCHANGED <<now, erc8004, chain, history, devMode>>

-----------------------------------------------------------------------------
\* A breach: an instant slash that landed is reported, nothing else is.

Slash(c, h) ==
    /\ stage[c] = "idle"
    /\ ~devMode[c]
    /\ bondActive
    /\ \E drained \in BOOLEAN : bondActive' = ~drained
    /\ Work(c, [NoTask EXCEPT !.hash = h, !.onChain = "recorded"])
    /\ MoveTo(c, "report")
    /\ UNCHANGED <<now, ledgers, settledVerdicts, feedback, history, devMode>>

-----------------------------------------------------------------------------
\* reportToERC8004 and checkForOrphanedWrites.

BeginReportAlways(c) ==
    /\ stage[c] = "report"
    /\ Work(c, [task[c] EXCEPT !.erc8004 = erc8004])
    /\ MoveTo(c, "pending")
    /\ UNCHANGED <<now, ledgers, chain, history, devMode>>
BeginReport(c) ==
    /\ stage[c] = "report"
    /\ IF ~Reporting \/ erc8004[task[c].hash] = "confirmed" THEN Finish(c)
       ELSE Work(c, [task[c] EXCEPT !.erc8004 = erc8004]) /\ MoveTo(c, "pending")
    /\ UNCHANGED <<now, ledgers, chain, history, devMode>>

\* The loaded copy gets the new status and is written over the file.
With(c, status) == [task[c].erc8004 EXCEPT ![task[c].hash] = status]

SavePending(c) ==
    /\ stage[c] = "pending"
    /\ erc8004' = With(c, "pending")
    /\ Work(c, [task[c] EXCEPT !.erc8004 = With(c, "pending")])
    /\ MoveTo(c, "send")
    /\ UNCHANGED <<now, ledger, breaker, chain, history, devMode>>

\* giveFeedback: confirmed, landed and yet reported as failed, or failed.
SendFeedback(c) ==
    /\ stage[c] = "send"
    /\ \/ /\ feedback[task[c].hash] < MaxFeedback
          /\ feedback' = Count(feedback, task[c].hash)
          /\ MoveTo(c, "confirmed")
          /\ UNCHANGED unknown
       \/ /\ feedback[task[c].hash] < MaxFeedback
          /\ feedback' = Count(feedback, task[c].hash)
          /\ unknown' = Count(unknown, task[c].hash)
          /\ MoveTo(c, "failed")
       \/ MoveTo(c, "failed") /\ UNCHANGED <<feedback, unknown>>
    /\ UNCHANGED <<now, ledgers, bondActive, settledVerdicts, task, devMode, paid, lost>>

SaveOutcome(c) ==
    /\ stage[c] \in {"confirmed", "failed"}
    /\ erc8004' = With(c, stage[c])
    /\ Finish(c)
    /\ UNCHANGED <<now, ledger, breaker, chain, history, devMode>>

Orphaned(statuses) ==
    [h \in Hashes |-> IF statuses[h] = "pending" THEN "orphaned" ELSE statuses[h]]

StartUnchecked(c) ==
    /\ stage[c] = "down"
    /\ \E dev \in BOOLEAN : devMode' = [devMode EXCEPT ![c] = dev]
    /\ MoveTo(c, "idle")
    /\ UNCHANGED <<now, ledgers, chain, history, task>>
\* A process starts, under either setting of DEV_MODE.
Start(c) ==
    /\ stage[c] = "down"
    /\ erc8004' = Orphaned(erc8004)
    /\ \E dev \in BOOLEAN : devMode' = [devMode EXCEPT ![c] = dev]
    /\ MoveTo(c, "idle")
    /\ UNCHANGED <<now, ledger, breaker, chain, history, task>>

-----------------------------------------------------------------------------
\* Crashes, the operator, the chain and time.

Forget(c) ==
    /\ MoveTo(c, "down")
    /\ Work(c, NoTask)
    /\ UNCHANGED devMode

\* A payment whose ledger entry is not yet saved is lost with the process,
\* and so is the knowledge that a feedback transaction landed.
CrashAtAwait(c) ==
    /\ stage[c] # "down"
    /\ Forget(c)
    /\ lost' = IF stage[c] \in {"onchain", "record"} /\ task[c].amount = Price
               THEN Count(lost, <<Key(c), task[c].at>>) ELSE lost
    /\ unknown' = IF stage[c] = "confirmed" THEN Count(unknown, task[c].hash) ELSE unknown
    /\ UNCHANGED <<now, ledgers, chain, paid>>

\* writeFileSync truncates the file first: a process that dies there leaves
\* one that loadLedger reads as {}, with the breaker's entry gone as well.
CrashInLedgerSave(c) ==
    /\ stage[c] \in {"trip", "simulate", "record"}
    /\ Forget(c)
    /\ ledger' = [k \in Keys |-> Nothing]
    /\ breaker' = FALSE
    /\ lost' = paid
    /\ UNCHANGED <<now, erc8004, chain, paid, unknown>>

CrashIn8004Save(c) ==
    /\ \/ stage[c] \in {"pending", "confirmed", "failed"}
       \/ stage[c] = "down" /\ \E h \in Hashes : erc8004[h] = "pending"
    /\ Forget(c)
    /\ erc8004' = [h \in Hashes |-> "none"]
    /\ unknown' = feedback
    /\ UNCHANGED <<now, ledger, breaker, chain, paid, lost>>

\* npm run breaker:resume, a process of its own.
Resume ==
    /\ breaker
    /\ breaker' = FALSE
    /\ UNCHANGED <<now, ledger, erc8004, chain, local, history>>

\* Others drain the bond, or the oracle posts it again.
BondChanges ==
    /\ bondActive' = ~bondActive
    /\ UNCHANGED <<now, ledgers, settledVerdicts, feedback, local, history>>

Tick ==
    /\ now < MaxTime
    /\ now' = now + 1
    /\ UNCHANGED <<ledgers, chain, local, history>>

-----------------------------------------------------------------------------
CycleInit ==
    /\ now = 0
    /\ ledger = [k \in Keys |-> Nothing]
    /\ breaker = FALSE
    /\ erc8004 = [h \in Hashes |-> "none"]
    /\ bondActive = TRUE
    /\ settledVerdicts = {}
    /\ feedback = [h \in Hashes |-> 0]
    /\ stage = [c \in Consumers |-> "down"]
    /\ task = [c \in Consumers |-> NoTask]
    /\ devMode = [c \in Consumers |-> FALSE]
    /\ paid = [cell \in Keys \X Times |-> 0]
    /\ lost = paid
    /\ unknown = feedback

Step(c) ==
    \/ \E k \in Keys : Settle(c, k)
    \/ SaveTrip(c)
    \/ SaveSimulated(c)
    \/ Pay(c)
    \/ RecordOnChain(c)
    \/ SaveSettlement(c)
    \/ \E h \in Reasons : Slash(c, h)
    \/ BeginReport(c)
    \/ SavePending(c)
    \/ SendFeedback(c)
    \/ SaveOutcome(c)
    \/ Start(c)
    \/ CrashAtAwait(c)
    \/ CrashInLedgerSave(c)
    \/ CrashIn8004Save(c)

CycleNext == (\E c \in Consumers : Step(c)) \/ Resume \/ BondChanges \/ Tick
CycleSpec == CycleInit /\ [][CycleNext]_cycleVars

\* The process runs on whenever its await returns, and is started again.
CycleFairness ==
    \A c \in Consumers :
        WF_cycleVars(SendFeedback(c)) /\ WF_cycleVars(SaveOutcome(c)) /\ WF_cycleVars(Start(c))
-----------------------------------------------------------------------------
\* Properties.

CycleTypeOK ==
    /\ now \in Times
    /\ \A k \in Keys : ledger[k].settled =>
           /\ ledger[k].at \in 0..now /\ ledger[k].amount \in {0, Price}
           /\ ledger[k].onChain \in {"none", "recorded", "failed", "gated", "AlreadySettled"}
    /\ breaker \in BOOLEAN /\ bondActive \in BOOLEAN
    /\ erc8004 \in [Hashes -> {"none", "pending", "orphaned", "failed", "confirmed"}]
    /\ settledVerdicts \subseteq OkHashes
    /\ feedback \in [Hashes -> 0..MaxFeedback]
    /\ stage \in [Consumers -> {"down", "idle", "trip", "simulate", "pay", "onchain", "record",
                             "report", "pending", "send", "confirmed", "failed"}]
    /\ devMode \in [Consumers -> BOOLEAN]
    /\ paid \in [Keys \X Times -> 0..MaxPayments]

\* The breaker bounds what really leaves the wallet, and not only what the
\* ledger shows: within each rolling window at most the cap is paid, on top
\* of the payments whose record a crash or a lost answer cost.  It holds
\* across restarts, resumes and slow payments (checkCircuitBreaker).
SpendIsCapped ==
    \A limit \in {<<Minute, CapPerMinute>>, <<Hour, CapPerHour>>} :
        Price * Total(paid, Recent(limit[1]))
            <= limit[2] + Price * Total(lost, Recent(limit[1]))

\* One interaction is paid for at most once, unless an earlier payment for it
\* was lost before it reached the ledger (the dedupe of executeSettlement).
PaidOncePerInteraction ==
    \A k \in Keys : Total(paid, Cells(k)) <= 1 + Total(lost, Cells(k))

\* With one process on LOG_DIR, only the operator clears a tripped breaker and
\* no payment is made while it is tripped: none is still under way when it
\* trips, and a death in the middle of a save empties the file only where the
\* flag was not set.  A second process on the same LOG_DIR is left out here, and
\* would break it by writing back a copy it loaded before the trip.
OnlyResumeClearsBreaker ==
    [][breaker => /\ paid' = paid
                  /\ breaker' \/ Resume]_cycleVars

\* A second feedback entry for one evidence hash appears only after an
\* earlier one landed without its confirmation being saved.
FeedbackRepeatsOnlyWhenUnknown ==
    \A h \in Hashes : feedback[h] <= 1 + unknown[h]

\* A pending entry does not stay pending: the process that wrote it records
\* the outcome, or the check at the next start marks it as orphaned.
PendingIsResolved ==
    \A h \in Hashes : erc8004[h] = "pending" ~> erc8004[h] # "pending"

\* settlement.js promises a clean settlement an on-chain record: as long as
\* the bond is active and the call does not fail, the contract takes it.
EachSettlementIsRecorded ==
    \A k \in Keys : ledger[k].settled => ledger[k].onChain # "AlreadySettled"
=============================================================================
