-------------------------- MODULE ConsumerCycleProofs --------------------------
(***************************************************************************)
(* Theorems of ConsumerCycle for a consumer that runs as one process at a   *)
(* time: any services, hashes, prices, caps, crashes and restarts.  With    *)
(* two processes on one LOG_DIR none of them holds: each writes its own     *)
(* copy of the files back.                                                 *)
(***************************************************************************)
EXTENDS ConsumerCycle, SumTheorems

OneProcess == \A c, d \in Consumers : c = d

\* Where a process holds a loaded settlement ledger, or a feedback ledger.
Settling  == {"trip", "simulate", "pay", "onchain", "record"}
Writing   == {"pending", "send", "confirmed", "failed"}
Labels    == Settling \cup Writing \cup {"down", "idle", "report"}
Statuses  == {"none", "pending", "orphaned", "failed", "confirmed"}

\* The shape of a job: the loaded ledger was not tripped.
JobsOver(S) ==
    [key: S, hash: S, amount: S, at: S, onChain: S, ledger: S, breaker: {FALSE}, erc8004: S]
IsJob(j) == \E S : j \in JobsOver(S)

\* The jobs that the steps make: a settlement begun, a report of hash h with
\* what is on chain, a copy of the feedback ledger loaded or changed.
Begun(k)       == [NoTask EXCEPT !.key = k, !.hash = k[2], !.ledger = ledger]
Again(h)       == [NoTask EXCEPT !.hash = h]
Reported(h, x) == [NoTask EXCEPT !.hash = h, !.onChain = x]
Charged(j)     == [j EXCEPT !.amount = Price, !.at = now]
Recorded(j, x) == [j EXCEPT !.onChain = x]
Loaded(j, x)   == [j EXCEPT !.erc8004 = x]

Typed ==
    /\ breaker \in BOOLEAN
    /\ erc8004 \in [Hashes -> Statuses]
    /\ feedback \in [Hashes -> Nat] /\ unknown \in [Hashes -> Nat]
    /\ stage \in [Consumers -> Labels]
    /\ task = [c \in Consumers |-> task[c]] /\ \A c \in Consumers : IsJob(task[c])

\* A tripped breaker finds nobody between loading the ledger and saving it.
BreakerStops == breaker => \A c \in Consumers : stage[c] \notin Settling

\* A process that reports works for a hash, its copy is the file, and what it
\* is about to write was not confirmed before.
CopyIsFile(c) ==
    /\ stage[c] \notin {"down", "idle"} => task[c].hash \in Hashes
    /\ stage[c] \in Writing => task[c].erc8004 = erc8004 /\ erc8004[task[c].hash] # "confirmed"

\* Feedback that is confirmed in the file, or about to be.
Confirmed(h) == erc8004[h] = "confirmed" \/ \E c \in Consumers : stage[c] = "confirmed" /\ task[c].hash = h
FeedbackIsAccounted ==
    \A h \in Hashes : feedback[h] <= unknown[h] + (IF Confirmed(h) THEN 1 ELSE 0)

\* The inductive invariant.
Inv == Typed /\ BreakerStops /\ (\A c \in Consumers : CopyIsFile(c)) /\ FeedbackIsAccounted

\* What the jobs say that change another one.
LEMMA JobFields ==
    ASSUME NEW j, IsJob(j), NEW x
    PROVE  /\ IsJob(Recorded(j, x)) /\ Recorded(j, x).hash = j.hash
           /\ IsJob(Loaded(j, x)) /\ Loaded(j, x).hash = j.hash /\ Loaded(j, x).erc8004 = x
           /\ IsJob(Charged(j)) /\ Charged(j).hash = j.hash
           /\ j.breaker = FALSE
<1>1. PICK S : j \in JobsOver(S) BY DEF IsJob
<1> DEFINE T == S \cup {x, Price, now}
<1>2. S \subseteq T /\ x \in T /\ Price \in T /\ now \in T OBVIOUS
<1> HIDE DEF T
<1>3. Recorded(j, x) \in JobsOver(T) /\ Recorded(j, x).hash = j.hash BY <1>1, <1>2 DEF JobsOver, Recorded
<1>4. /\ Loaded(j, x) \in JobsOver(T) /\ Loaded(j, x).hash = j.hash
      /\ Loaded(j, x).erc8004 = x
  BY <1>1, <1>2 DEF JobsOver, Loaded
<1>5. Charged(j) \in JobsOver(T) /\ Charged(j).hash = j.hash BY <1>1, <1>2 DEF JobsOver, Charged
<1>6. j.breaker = FALSE BY <1>1 DEF JobsOver
<1>7. \A i \in JobsOver(T) : IsJob(i) BY Zenon DEF IsJob
<1> QED BY <1>3, <1>4, <1>5, <1>6, <1>7, Zenon

\* What the jobs say that are made from nothing.
LEMMA FreshJobs ==
    /\ IsJob(NoTask)
    /\ \A h, x : IsJob(Reported(h, x)) /\ Reported(h, x).hash = h
    /\ \A h : IsJob(Again(h)) /\ Again(h).hash = h
    /\ \A k : IsJob(Begun(k)) /\ Begun(k).hash = k[2]
<1>1. ASSUME NEW k, NEW h, NEW x
      PROVE  /\ IsJob(NoTask)
             /\ IsJob(Reported(h, x)) /\ Reported(h, x).hash = h
             /\ IsJob(Again(h)) /\ Again(h).hash = h
             /\ IsJob(Begun(k)) /\ Begun(k).hash = k[2]
  <2> DEFINE T == {<<>>, 0, "none", k, k[2], h, x, ledger}
  <2>1. /\ <<>> \in T /\ 0 \in T /\ "none" \in T /\ k \in T /\ k[2] \in T /\ h \in T /\ x \in T
        /\ ledger \in T
    OBVIOUS
  <2> HIDE DEF T
  <2>2. NoTask \in JobsOver(T) BY <2>1 DEF NoTask, JobsOver
  <2>3. Reported(h, x) \in JobsOver(T) /\ Reported(h, x).hash = h BY <2>1, <2>2 DEF JobsOver, Reported
  <2>4. Again(h) \in JobsOver(T) /\ Again(h).hash = h BY <2>1, <2>2 DEF JobsOver, Again
  <2>5. Begun(k) \in JobsOver(T) /\ Begun(k).hash = k[2] BY <2>1, <2>2 DEF JobsOver, Begun
  <2>6. \A i \in JobsOver(T) : IsJob(i) BY Zenon DEF IsJob
  <2> QED BY <2>2, <2>3, <2>4, <2>5, <2>6, Zenon
<1> QED BY <1>1, Zenon

(* The invariant holds when nothing has run. *)
LEMMA InitStep == CycleInit => Inv
<1> SUFFICES ASSUME CycleInit PROVE Inv OBVIOUS
<1>1. Typed
  <2>1. IsJob(NoTask) BY FreshJobs
  <2>2. 0 \in Nat /\ "none" \in Statuses /\ "down" \in Labels BY DEF Statuses, Labels
  <2> QED BY <2>1, <2>2 DEF CycleInit, Typed
<1>2. BreakerStops /\ (\A c \in Consumers : CopyIsFile(c)) BY DEF CycleInit, BreakerStops, CopyIsFile, Writing
<1>3. FeedbackIsAccounted
  <2> SUFFICES ASSUME NEW h \in Hashes PROVE feedback[h] <= unknown[h] + (IF Confirmed(h) THEN 1 ELSE 0)
      BY DEF FeedbackIsAccounted
  <2>1. feedback[h] = 0 /\ unknown[h] = 0 BY DEF CycleInit
  <2> QED BY <2>1
<1> QED BY <1>1, <1>2, <1>3 DEF Inv

\* A process goes to another label with another job.
Moves(c, l, j) == stage' = [stage EXCEPT ![c] = l] /\ task' = [task EXCEPT ![c] = j]

(* What a move to another label with another job leaves the program counters and jobs as. *)
LEMMA Moved ==
    ASSUME Inv, NEW c \in Consumers, NEW l, NEW j, Moves(c, l, j)
    PROVE  /\ stage'[c] = l /\ task'[c] = j
           /\ l \in Labels /\ IsJob(j) =>
                 /\ stage' \in [Consumers -> Labels]
                 /\ task' = [d \in Consumers |-> task'[d]] /\ \A d \in Consumers : IsJob(task'[d])
BY DEF Moves, Inv, Typed

\* A step of the only process that leaves the feedback and its ledger alone,
\* and is not about to write one.
LEMMA QuietStep ==
    ASSUME OneProcess, Inv, NEW c \in Consumers, NEW l, NEW j, Moves(c, l, j),
           l \in Labels \ Writing, IsJob(j),
           stage[c] # "confirmed",
           l \notin {"down", "idle"} => j.hash \in Hashes,
           breaker' \in BOOLEAN, breaker' => l \notin Settling,
           UNCHANGED <<erc8004, feedback, unknown>>
    PROVE  Inv'
<1>2. stage'[c] = l /\ task'[c] = j /\ \A d \in Consumers : d = c BY Moved DEF OneProcess
<1>1. Typed' BY Moved DEF Inv, Typed
<1>3. BreakerStops' /\ (\A d \in Consumers : CopyIsFile(d))' BY <1>2 DEF BreakerStops, CopyIsFile
<1>4. \A h \in Hashes : Confirmed(h)' <=> Confirmed(h) BY <1>2 DEF Confirmed, Writing
<1>5. FeedbackIsAccounted' BY <1>4 DEF FeedbackIsAccounted, Inv
<1> QED BY <1>1, <1>3, <1>5 DEF Inv

\* A step that moves no process.
LEMMA OthersStep ==
    ASSUME Inv, breaker' \in BOOLEAN, breaker' => breaker, UNCHANGED <<stage, task, erc8004, feedback, unknown>>
    PROVE  Inv'
BY DEF Inv, Typed, BreakerStops, CopyIsFile, FeedbackIsAccounted, Confirmed

\* Labels of which nothing is about to be written to the feedback ledger.
LEMMA Quiet ==
    /\ {"idle", "onchain", "record", "report"} \subseteq Labels \ Writing
    /\ "idle" \notin Settling /\ "report" \notin Settling
BY DEF Labels, Settling, Writing

\* The steps of a process up to its report.
Settlement(c) ==
    \/ \E k \in Keys : Settle(c, k)
    \/ SaveTrip(c) \/ SaveSimulated(c) \/ Pay(c) \/ RecordOnChain(c) \/ SaveSettlement(c)
    \/ \E h \in Reasons : Slash(c, h)

(* Every step of the settlement half of a cycle keeps the invariant. *)
LEMMA SettlementStep == ASSUME OneProcess, Inv, NEW c \in Consumers, Settlement(c) PROVE Inv'
<1> USE DEF ledgers, chain, history
<1>0. IsJob(task[c]) /\ breaker \in BOOLEAN /\ stage[c] \in Labels BY DEF Inv, Typed
<1>1. ASSUME NEW k \in Keys, Settle(c, k) PROVE Inv'
  <2>1. k[2] \in Hashes
    <3>1. k \in Services \X OkHashes BY DEF Keys
    <3>2. k[2] \in OkHashes BY <3>1
    <3> QED BY <3>2, Zenon DEF Hashes
  <2>2. CASE BeginSettlement(c, k)
    <3> DEFINE l == IF Exceeds(ledger) THEN "trip" ELSE IF devMode[c] THEN "simulate" ELSE "pay"
    <3>1. Moves(c, l, Begun(k)) BY <2>2, Zenon DEF BeginSettlement, Work, MoveTo, Begun, Moves
    <3>2. stage[c] = "idle" /\ ~breaker /\ UNCHANGED <<breaker, erc8004, feedback, unknown>>
        BY <1>1, <2>2 DEF Settle, BeginSettlement
    <3>3. l \in Labels \ Writing BY DEF Labels, Settling, Writing
    <3> HIDE DEF l
    <3>4. IsJob(Begun(k)) /\ Begun(k).hash \in Hashes BY <2>1, FreshJobs
    <3> QED BY <1>0, <3>1, <3>2, <3>3, <3>4, QuietStep
  <2>3. CASE SettleAgain(c, k)
    <3>1. stage[c] = "idle" /\ UNCHANGED <<breaker, erc8004, feedback, unknown>> BY <1>1, <2>3 DEF Settle, SettleAgain
    <3>2. Moves(c, "idle", NoTask) \/ Moves(c, "report", Again(k[2]))
        BY <2>3 DEF SettleAgain, Finish, MoveTo, Work, Again, Moves
    <3>3. IsJob(NoTask) /\ IsJob(Again(k[2])) /\ Again(k[2]).hash \in Hashes BY <2>1, FreshJobs
    <3> QED BY <1>0, <3>1, <3>2, <3>3, Quiet, QuietStep
  <2>4. CASE Refuse(c) BY <1>0, <2>4, OthersStep DEF Refuse, cycleVars, local
  <2> QED BY <1>1, <2>2, <2>3, <2>4 DEF Settle
<1>2. CASE SaveTrip(c) \/ SaveSimulated(c)
  <2>1. stage[c] # "confirmed" /\ Moves(c, "idle", NoTask)
      BY <1>2 DEF SaveTrip, SaveSimulated, Finish, MoveTo, Work, Moves
  <2>2. breaker' \in BOOLEAN /\ UNCHANGED <<erc8004, feedback, unknown>>
      BY <1>0, <1>2, JobFields DEF SaveTrip, SaveSimulated, Save
  <2> QED BY <2>1, <2>2, FreshJobs, Quiet, QuietStep
<1>3. CASE Pay(c)
  <2>1. /\ stage[c] = "pay" /\ UNCHANGED <<breaker, erc8004, feedback, unknown>> BY <1>3 DEF Pay
  <2>2. ~breaker /\ task[c].hash \in Hashes BY <2>1 DEF Inv, BreakerStops, CopyIsFile, Settling
  <2>3. task = [task EXCEPT ![c] = task[c]] BY DEF Inv, Typed
  <2>4. \/ Moves(c, "onchain", Charged(task[c])) \/ Moves(c, "onchain", task[c])
        \/ Moves(c, "idle", NoTask)
      BY <1>3, <2>3 DEF Pay, Finish, MoveTo, Work, Charged, Moves
  <2>5. IsJob(NoTask) /\ IsJob(Charged(task[c])) /\ Charged(task[c]).hash = task[c].hash
      BY <1>0, FreshJobs, JobFields
  <2> QED BY <1>0, <2>1, <2>2, <2>4, <2>5, Quiet, QuietStep
<1>4. CASE RecordOnChain(c)
  <2>1. stage[c] = "onchain" /\ UNCHANGED <<breaker, erc8004, feedback, unknown>> BY <1>4 DEF RecordOnChain
  <2>2. ~breaker /\ task[c].hash \in Hashes BY <2>1 DEF Inv, BreakerStops, CopyIsFile, Settling
  <2>3. PICK result : Moves(c, "record", Recorded(task[c], result))
      BY <1>4 DEF RecordOnChain, MoveTo, Work, Recorded, Moves
  <2>4. IsJob(Recorded(task[c], result)) /\ Recorded(task[c], result).hash = task[c].hash BY <1>0, JobFields
  <2> QED BY <1>0, <2>1, <2>2, <2>3, <2>4, Quiet, QuietStep
<1>5. CASE SaveSettlement(c)
  <2>1. stage[c] = "record" /\ UNCHANGED <<erc8004, feedback, unknown>> BY <1>5 DEF SaveSettlement
  <2>2. Moves(c, "report", Reported(task[c].hash, task[c].onChain))
      BY <1>5 DEF SaveSettlement, Report, MoveTo, Work, Reported, Moves
  <2>3. breaker' = FALSE BY <1>0, <1>5, JobFields DEF SaveSettlement, Save
  <2>4. task[c].hash \in Hashes BY <2>1 DEF Inv, CopyIsFile
  <2>5. IsJob(Reported(task[c].hash, task[c].onChain))
        /\ Reported(task[c].hash, task[c].onChain).hash = task[c].hash
      BY FreshJobs
  <2> QED BY <2>1, <2>2, <2>3, <2>4, <2>5, Quiet, QuietStep
<1>6. ASSUME NEW h \in Reasons, Slash(c, h) PROVE Inv'
  <2>1. stage[c] = "idle" /\ UNCHANGED <<breaker, erc8004, feedback, unknown>> BY <1>6 DEF Slash
  <2>2. Moves(c, "report", Reported(h, "recorded")) BY <1>6 DEF Slash, MoveTo, Work, Reported, Moves
  <2>3. h \in Hashes BY Zenon DEF Hashes
  <2>4. IsJob(Reported(h, "recorded")) /\ Reported(h, "recorded").hash = h BY FreshJobs, Zenon
  <2> QED BY <1>0, <2>1, <2>2, <2>3, <2>4, Quiet, QuietStep
<1> QED BY <1>1, <1>2, <1>3, <1>4, <1>5, <1>6 DEF Settlement

\* Where a process writes the feedback ledger it settles nothing.
LEMMA WritingLabels ==
    /\ {"pending", "send", "confirmed", "failed"} \subseteq Labels \ Settling
    /\ \A l \in Writing : l \notin {"down", "idle"} /\ l \notin Settling
    /\ {"pending", "send", "confirmed", "failed"} \subseteq Writing
    /\ "down" \in Labels /\ {"down", "idle"} \cap (Settling \cup Writing) = {}
BY DEF Labels, Settling, Writing

(* Every step of the feedback half keeps the invariant. *)
LEMMA ReportStep ==
    ASSUME OneProcess, Inv, NEW c \in Consumers,
           BeginReport(c) \/ SavePending(c) \/ SendFeedback(c) \/ SaveOutcome(c)
    PROVE  Inv'
<1> DEFINE h == task[c].hash
<1>0. IsJob(task[c]) /\ breaker \in BOOLEAN /\ \A d \in Consumers : d = c BY DEF Inv, Typed, OneProcess
<1>1. CASE BeginReport(c)
  <2>1. stage[c] = "report" /\ UNCHANGED <<breaker, erc8004, feedback, unknown>>
      BY <1>1 DEF BeginReport, ledgers, chain, history
  <2>2. \/ Moves(c, "idle", NoTask)
        \/ erc8004[h] # "confirmed" /\ Moves(c, "pending", Loaded(task[c], erc8004))
      BY <1>1 DEF BeginReport, Finish, MoveTo, Work, Moves, Loaded
  <2>3. CASE Moves(c, "idle", NoTask) BY <1>0, <2>1, <2>3, FreshJobs, Quiet, QuietStep
  <2>4. CASE erc8004[h] # "confirmed" /\ Moves(c, "pending", Loaded(task[c], erc8004))
    <3>1. h \in Hashes BY <2>1 DEF Inv, CopyIsFile
    <3> DEFINE j == Loaded(task[c], erc8004)
    <3>2. IsJob(j) /\ j.hash = h /\ j.erc8004 = erc8004 BY <1>0, JobFields
    <3> HIDE DEF j
    <3>3. stage'[c] = "pending" /\ task'[c] = j BY <2>4, Moved DEF j
    <3>4. Typed' BY <1>0, <2>1, <2>4, <3>2, Moved, WritingLabels DEF Inv, Typed, j
    <3>5. BreakerStops' /\ (\A d \in Consumers : CopyIsFile(d))'
        BY <1>0, <2>1, <2>4, <3>1, <3>2, <3>3, WritingLabels DEF BreakerStops, CopyIsFile
    <3>6. \A g \in Hashes : Confirmed(g)' <=> Confirmed(g) BY <1>0, <2>1, <3>3 DEF Confirmed
    <3>7. FeedbackIsAccounted' BY <2>1, <3>6 DEF FeedbackIsAccounted, Inv
    <3> QED BY <3>4, <3>5, <3>7 DEF Inv
  <2> QED BY <2>2, <2>3, <2>4
<1>2. CASE SavePending(c)
  <2>1. stage[c] = "pending" /\ UNCHANGED <<breaker, feedback, unknown>> BY <1>2 DEF SavePending, chain, history
  <2>2. h \in Hashes /\ task[c].erc8004 = erc8004 /\ erc8004[h] # "confirmed"
      BY <2>1, WritingLabels DEF Inv, CopyIsFile
  <2>3. erc8004' = [erc8004 EXCEPT ![h] = "pending"] /\ Moves(c, "send", Loaded(task[c], erc8004'))
      BY <1>2, <2>2 DEF SavePending, With, MoveTo, Work, Moves, Loaded
  <2> DEFINE j == Loaded(task[c], erc8004')
  <2>4. IsJob(j) /\ j.hash = h /\ j.erc8004 = erc8004' BY <1>0, JobFields
  <2>5. stage'[c] = "send" /\ task'[c] = j BY <2>3, Moved
  <2>6. erc8004' \in [Hashes -> Statuses] BY <2>3 DEF Inv, Typed, Statuses
  <2>7. \A g \in Hashes : erc8004'[g] = "confirmed" <=> erc8004[g] = "confirmed"
      BY <2>2, <2>3 DEF Inv, Typed
  <2>8. Typed' BY <1>0, <2>1, <2>3, <2>4, <2>6, Moved, WritingLabels DEF Inv, Typed
  <2> HIDE DEF j
  <2>9. BreakerStops' /\ (\A d \in Consumers : CopyIsFile(d))'
      BY <1>0, <2>2, <2>4, <2>5, <2>7, WritingLabels DEF BreakerStops, CopyIsFile
  <2>10. \A g \in Hashes : Confirmed(g)' <=> Confirmed(g) BY <1>0, <2>1, <2>5, <2>7 DEF Confirmed
  <2>11. FeedbackIsAccounted' BY <2>1, <2>10 DEF FeedbackIsAccounted, Inv
  <2> QED BY <2>8, <2>9, <2>11 DEF Inv
<1>3. CASE SendFeedback(c)
  <2>1. stage[c] = "send" /\ UNCHANGED <<breaker, erc8004, task>> BY <1>3 DEF SendFeedback, ledgers
  <2>2. h \in Hashes /\ task[c].erc8004 = erc8004 /\ erc8004[h] # "confirmed"
      BY <2>1 DEF Inv, CopyIsFile, Writing
  <2>3. \/ /\ feedback' = [feedback EXCEPT ![h] = @ + 1] /\ stage' = [stage EXCEPT ![c] = "confirmed"]
           /\ unknown' = unknown
        \/ /\ feedback' = [feedback EXCEPT ![h] = @ + 1] /\ stage' = [stage EXCEPT ![c] = "failed"]
           /\ unknown' = [unknown EXCEPT ![h] = @ + 1]
        \/ /\ stage' = [stage EXCEPT ![c] = "failed"] /\ UNCHANGED <<feedback, unknown>>
      BY <1>3 DEF SendFeedback, MoveTo, Count
  <2> HIDE DEF h
  <2>4. Typed' BY <2>1, <2>2, <2>3 DEF Inv, Typed, Labels, Writing
  <2>5. stage'[c] \in {"confirmed", "failed"} BY <2>3 DEF Inv, Typed
  <2>6. BreakerStops' /\ (\A d \in Consumers : CopyIsFile(d))'
      BY <1>0, <2>1, <2>2, <2>5 DEF BreakerStops, CopyIsFile, Settling, Writing, h
  <2>7. FeedbackIsAccounted'
    <3> SUFFICES ASSUME NEW g \in Hashes
                 PROVE  feedback'[g] <= unknown'[g] + (IF Confirmed(g)' THEN 1 ELSE 0)
        BY DEF FeedbackIsAccounted
    <3>1. feedback[g] <= unknown[g] + (IF Confirmed(g) THEN 1 ELSE 0) /\ feedback[g] \in Nat /\ unknown[g] \in Nat
        BY DEF Inv, FeedbackIsAccounted, Typed
    <3>2. CASE g # h
      <4>1. feedback'[g] = feedback[g] /\ unknown'[g] = unknown[g] BY <2>3, <3>2 DEF Inv, Typed
      <4>2. Confirmed(g)' <=> Confirmed(g) BY <1>0, <2>1, <3>2 DEF Confirmed, h
      <4> QED BY <3>1, <4>1, <4>2
    <3>3. CASE g = h
      <4>1. ~Confirmed(g) BY <1>0, <2>1, <2>2, <3>3 DEF Confirmed
      <4>2. stage'[c] = "confirmed" => Confirmed(g)' BY <2>1, <3>3 DEF Confirmed, h
      <4>3. \/ feedback'[g] = feedback[g] + 1 /\ unknown'[g] = unknown[g] /\ stage'[c] = "confirmed"
            \/ feedback'[g] = feedback[g] + 1 /\ unknown'[g] = unknown[g] + 1
            \/ feedback'[g] = feedback[g] /\ unknown'[g] = unknown[g]
        BY <2>2, <2>3, <3>3 DEF Inv, Typed
      <4>4. feedback[g] <= unknown[g] BY <3>1, <4>1
      <4> QED BY <3>1, <4>2, <4>3, <4>4
    <3> QED BY <3>2, <3>3
  <2> QED BY <2>4, <2>6, <2>7 DEF Inv
<1>4. CASE SaveOutcome(c)
  <2>1. stage[c] \in {"confirmed", "failed"} /\ UNCHANGED <<breaker, feedback, unknown>>
      BY <1>4 DEF SaveOutcome, chain, history
  <2>2. h \in Hashes /\ task[c].erc8004 = erc8004 /\ erc8004[h] # "confirmed"
      BY <2>1 DEF Inv, CopyIsFile, Writing
  <2>3. /\ erc8004' = [erc8004 EXCEPT ![h] = stage[c]]
        /\ stage' = [stage EXCEPT ![c] = "idle"] /\ task' = [task EXCEPT ![c] = NoTask]
      BY <1>4, <2>2 DEF SaveOutcome, With, Finish, MoveTo, Work
  <2>4. Typed' BY <2>1, <2>3, FreshJobs DEF Inv, Typed, Labels, Statuses
  <2>5. stage'[c] = "idle" BY <2>3 DEF Inv, Typed
  <2>6. BreakerStops' /\ (\A d \in Consumers : CopyIsFile(d))'
      BY <1>0, <2>5 DEF BreakerStops, CopyIsFile, Settling, Writing
  <2>7. \A g \in Hashes : Confirmed(g) => Confirmed(g)' BY <1>0, <2>2, <2>3 DEF Confirmed, Inv, Typed
  <2>8. FeedbackIsAccounted'
    <3> SUFFICES ASSUME NEW g \in Hashes
                 PROVE  feedback'[g] <= unknown'[g] + (IF Confirmed(g)' THEN 1 ELSE 0)
        BY DEF FeedbackIsAccounted
    <3>1. feedback[g] <= unknown[g] + (IF Confirmed(g) THEN 1 ELSE 0) /\ feedback[g] \in Nat /\ unknown[g] \in Nat
        BY DEF Inv, FeedbackIsAccounted, Typed
    <3> QED BY <2>1, <2>7, <3>1
  <2> QED BY <2>4, <2>6, <2>8 DEF Inv
<1> QED BY <1>1, <1>2, <1>3, <1>4

(* A death at any step, and the restart after it, keep the invariant. *)
LEMMA DeathStep ==
    ASSUME OneProcess, Inv, NEW c \in Consumers,
           Start(c) \/ CrashAtAwait(c) \/ CrashInLedgerSave(c) \/ CrashIn8004Save(c)
    PROVE  Inv'
<1> DEFINE Lost(g) == stage[c] = "confirmed" /\ task[c].hash = g
<1>0. /\ IsJob(task[c]) /\ breaker \in BOOLEAN /\ \A d \in Consumers : d = c
      /\ \A g \in Hashes : feedback[g] \in Nat /\ unknown[g] \in Nat
      /\ \A g \in Hashes : feedback[g] <= unknown[g] + (IF Confirmed(g) THEN 1 ELSE 0)
  BY DEF Inv, Typed, OneProcess, FeedbackIsAccounted
<1>1. CASE Start(c)
  <2>1. stage[c] = "down" /\ stage' = [stage EXCEPT ![c] = "idle"] /\ UNCHANGED <<breaker, task, feedback, unknown>>
      BY <1>1 DEF Start, MoveTo, chain, history
  <2>2. erc8004' = Orphaned(erc8004) BY <1>1 DEF Start
  <2>3. erc8004' \in [Hashes -> Statuses] BY <2>2 DEF Orphaned, Inv, Typed, Statuses
  <2>4. Typed' BY <2>1, <2>3 DEF Inv, Typed, Labels
  <2>5. stage'[c] = "idle" BY <2>1 DEF Inv, Typed
  <2>6. BreakerStops' /\ (\A d \in Consumers : CopyIsFile(d))'
      BY <1>0, <2>5 DEF BreakerStops, CopyIsFile, Settling, Writing
  <2>7. \A g \in Hashes : Confirmed(g)' <=> Confirmed(g)
      BY <1>0, <2>1, <2>2, <2>5 DEF Confirmed, Orphaned
  <2>8. FeedbackIsAccounted' BY <2>1, <2>7 DEF FeedbackIsAccounted, Inv
  <2> QED BY <2>4, <2>6, <2>8 DEF Inv
<1>2. CASE CrashAtAwait(c) \/ CrashInLedgerSave(c) \/ CrashIn8004Save(c)
  <2>1. stage' = [stage EXCEPT ![c] = "down"] /\ task' = [task EXCEPT ![c] = NoTask] /\ feedback' = feedback
      BY <1>2 DEF CrashAtAwait, CrashInLedgerSave, CrashIn8004Save, Forget, MoveTo, Work, chain
  <2>2. stage'[c] = "down" BY <2>1 DEF Inv, Typed
  <2>3. BreakerStops' /\ (\A d \in Consumers : CopyIsFile(d))'
      BY <1>0, <2>2 DEF BreakerStops, CopyIsFile, Settling, Writing
  <2>4. breaker' \in BOOLEAN
      BY <1>0, <1>2 DEF CrashAtAwait, CrashInLedgerSave, CrashIn8004Save, ledgers
  <2>5. CASE CrashIn8004Save(c)
    <3>1. erc8004' = [g \in Hashes |-> "none"] /\ unknown' = feedback BY <2>5 DEF CrashIn8004Save
    <3>2. Typed' BY <2>1, <2>4, <3>1, FreshJobs DEF Inv, Typed, Labels, Statuses
    <3>3. FeedbackIsAccounted' BY <1>0, <2>1, <3>1 DEF FeedbackIsAccounted
    <3> QED BY <2>3, <3>2, <3>3 DEF Inv
  <2>6. CASE CrashInLedgerSave(c)
    <3>1. erc8004' = erc8004 /\ unknown' = unknown /\ stage[c] # "confirmed" BY <2>6 DEF CrashInLedgerSave
    <3>2. Typed' BY <2>1, <2>4, <3>1, FreshJobs DEF Inv, Typed, Labels
    <3>3. \A g \in Hashes : Confirmed(g) => Confirmed(g)' BY <1>0, <3>1 DEF Confirmed
    <3>4. FeedbackIsAccounted' BY <1>0, <2>1, <3>1, <3>3 DEF FeedbackIsAccounted
    <3> QED BY <2>3, <3>2, <3>4 DEF Inv
  <2>7. CASE CrashAtAwait(c)
    <3>1. erc8004' = erc8004 BY <2>7 DEF CrashAtAwait, ledgers
    <3>2. unknown' = IF stage[c] = "confirmed" THEN [unknown EXCEPT ![task[c].hash] = @ + 1] ELSE unknown
        BY <2>7 DEF CrashAtAwait, Count
    <3>3. stage[c] = "confirmed" => task[c].hash \in Hashes BY DEF Inv, CopyIsFile
    <3>4. unknown' \in [Hashes -> Nat] BY <3>2, <3>3 DEF Inv, Typed
    <3>5. Typed' BY <2>1, <2>4, <3>1, <3>4, FreshJobs DEF Inv, Typed, Labels
    <3>6. FeedbackIsAccounted'
      <4> SUFFICES ASSUME NEW g \in Hashes
                   PROVE  feedback'[g] <= unknown'[g] + (IF Confirmed(g)' THEN 1 ELSE 0)
          BY DEF FeedbackIsAccounted
      <4>1. unknown'[g] = IF Lost(g) THEN unknown[g] + 1 ELSE unknown[g] BY <3>2 DEF Inv, Typed
      <4>2. Confirmed(g) => Lost(g) \/ Confirmed(g)' BY <1>0, <3>1 DEF Confirmed
      <4> HIDE DEF Lost
      <4> QED BY <1>0, <2>1, <4>1, <4>2
    <3> QED BY <2>3, <3>5, <3>6 DEF Inv
  <2> QED BY <1>2, <2>5, <2>6, <2>7
<1> QED BY <1>1, <1>2

(* Every step of the consumer keeps the invariant. *)
LEMMA NextStep == ASSUME OneProcess, Inv, [CycleNext]_cycleVars PROVE Inv'
<1>0. breaker \in BOOLEAN BY DEF Inv, Typed
<1>1. ASSUME NEW c \in Consumers, Step(c) PROVE Inv'
    BY <1>1, SettlementStep, ReportStep, DeathStep DEF Step, Settlement
<1>2. CASE Resume BY <1>2, OthersStep DEF Resume, chain, local, history
<1>3. CASE BondChanges \/ Tick \/ UNCHANGED cycleVars
    BY <1>0, <1>3, OthersStep DEF BondChanges, Tick, cycleVars, ledgers, chain, local, history
<1> QED BY <1>1, <1>2, <1>3 DEF CycleNext

\* FeedbackRepeatsOnlyWhenUnknown for any hashes and any number of crashes:
\* the ledger of reportToERC8004 writes feedback for a hash twice only when it
\* cannot know that the first landed.
THEOREM FeedbackIsCounted == ASSUME OneProcess PROVE CycleSpec => []FeedbackRepeatsOnlyWhenUnknown
<1>1. CycleInit => Inv BY InitStep
<1>2. Inv /\ [CycleNext]_cycleVars => Inv' BY NextStep
<1>3. Inv => FeedbackRepeatsOnlyWhenUnknown
    BY DEF Inv, Typed, FeedbackIsAccounted, FeedbackRepeatsOnlyWhenUnknown
<1> QED BY <1>1, <1>2, <1>3, PTL DEF CycleSpec

\* OnlyResumeClearsBreaker for any windows, caps and prices: while the breaker
\* of settlement.js is tripped nothing is paid, and only the operator clears it.
THEOREM BreakerHolds == ASSUME OneProcess PROVE CycleSpec => OnlyResumeClearsBreaker
<1>1. CycleInit => Inv BY InitStep
<1>2. Inv /\ [CycleNext]_cycleVars => Inv' BY NextStep
<1>3. ASSUME Inv, [CycleNext]_cycleVars, breaker PROVE paid' = paid /\ (breaker' \/ Resume)
  <2>1. \A c \in Consumers : stage[c] \notin Settling BY <1>3 DEF Inv, BreakerStops
  <2>2. ASSUME NEW c \in Consumers, Step(c) PROVE paid' = paid /\ breaker' = breaker
    <3>1. stage[c] \notin {"trip", "simulate", "pay", "onchain", "record"} BY <2>1 DEF Settling
    <3>2. ASSUME NEW k \in Keys, Settle(c, k) PROVE paid' = paid /\ breaker' = breaker
        BY <1>3, <3>2 DEF Settle, BeginSettlement, SettleAgain, Refuse, cycleVars, ledgers, history
    <3>3. ASSUME NEW h \in Reasons, Slash(c, h) PROVE paid' = paid /\ breaker' = breaker
        BY <3>3 DEF Slash, ledgers, history
    <3>4. CASE BeginReport(c) \/ SavePending(c) \/ SendFeedback(c) \/ SaveOutcome(c)
        BY <3>4 DEF BeginReport, SavePending, SendFeedback, SaveOutcome, ledgers, history
    <3>5. CASE Start(c) \/ CrashAtAwait(c) \/ CrashIn8004Save(c)
        BY <3>5 DEF Start, CrashAtAwait, CrashIn8004Save, ledgers, history
    <3> QED BY <2>2, <3>1, <3>2, <3>3, <3>4, <3>5
             DEF Step, SaveTrip, SaveSimulated, Pay, RecordOnChain, SaveSettlement, CrashInLedgerSave
  <2>3. CASE BondChanges \/ Tick \/ UNCHANGED cycleVars
    <3> paid' = paid /\ breaker' = breaker BY <2>3 DEF BondChanges, Tick, cycleVars, ledgers, history
    <3> QED BY <1>3
  <2>4. CASE Resume
    <3> paid' = paid BY <2>4 DEF Resume, history
    <3> QED BY <2>4
  <2> QED BY <1>3, <2>2, <2>3, <2>4 DEF CycleNext
<1>4. Inv /\ [CycleNext]_cycleVars => [breaker => paid' = paid /\ (breaker' \/ Resume)]_cycleVars BY <1>3
<1> QED BY <1>1, <1>2, <1>4, PTL DEF CycleSpec, OnlyResumeClearsBreaker

-----------------------------------------------------------------------------
\* What is paid.  While a process settles, its copy is the file and the key it
\* works on is not in it; each payment that was not lost is held by the process
\* or stands in the ledger under its key, at its time or later; and the ledger
\* with what the process may still add stays within the caps.

\* A payment made, or about to be made or simulated.
Holding(c)  == stage[c] \in {"onchain", "record"} /\ task[c].amount = Price
Reserved(c) == stage[c] \in {"simulate", "pay"} \/ Holding(c)

IsEntry(e, t) ==
    /\ e.settled \in BOOLEAN
    /\ e.settled => e.at \in Nat /\ e.at <= t /\ e.amount \in {0, Price}
Entries(l, t) == l = [k \in Keys |-> l[k]] /\ \A k \in Keys : IsEntry(l[k], t)

SpendTyped ==
    /\ now \in Times
    /\ Entries(ledger, now)
    /\ paid \in [Keys \X Times -> Nat] /\ lost \in [Keys \X Times -> Nat]

HoldsCopy(c) ==
    stage[c] \in Settling =>
        /\ task[c].key \in Keys /\ task[c].ledger = ledger /\ ~ledger[task[c].key].settled
        /\ task[c].amount \in {0, Price}
        /\ stage[c] = "pay" => task[c].amount = 0
        /\ Holding(c) => task[c].at \in Times /\ task[c].at <= now

Stands(k, t) == paid[<<k, t>>] > lost[<<k, t>>]
Backed(k, t) ==
    \/ ledger[k].settled /\ ledger[k].amount = Price /\ t <= ledger[k].at
    \/ \E c \in Consumers : Holding(c) /\ task[c].key = k /\ task[c].at = t
PaymentsStand ==
    \A k \in Keys, t \in Times : Stands(k, t) =>
        /\ paid[<<k, t>>] = lost[<<k, t>>] + 1
        /\ Backed(k, t)
        /\ \A u \in Times : Stands(k, u) => u = t

Fits(window, cap) ==
    /\ RollingSpend(ledger, window) <= cap
    /\ \A c \in Consumers : Reserved(c) => RollingSpend(ledger, window) + Price <= cap

\* The inductive invariant of what is paid.
SpendInv ==
    /\ SpendTyped /\ (\A c \in Consumers : HoldsCopy(c)) /\ PaymentsStand
    /\ Fits(Minute, CapPerMinute) /\ Fits(Hour, CapPerHour)

\* What entry e adds to the spend of a window at time t.
Counted(e, window, t)   == IF e.settled /\ t - e.at <= window THEN e.amount ELSE 0
Counts(l, window, t)    == [k \in Keys |-> Counted(l[k], window, t)]
SpendAt(l, window, t)   == SumFunctionOnSet(Counts(l, window, t), Keys)

\* RollingSpend is the spend at the present time.
LEMMA SpendNow == \A l, window : RollingSpend(l, window) = SpendAt(l, window, now)
BY Zenon DEF RollingSpend, SpendAt, Counts, Counted, Within, Total

\* Keys are finitely many, and the numbers of the model are numbers.
LEMMA Bounds ==
    /\ IsFiniteSet(Keys) /\ Price \in Nat /\ Price > 0
    /\ Minute \in Nat /\ Hour \in Nat /\ CapPerMinute \in Nat /\ CapPerHour \in Nat
    /\ MaxTime \in Nat /\ IsFiniteSet(Times) /\ Times \subseteq Nat
<1>1. IsFiniteSet(Services \X OkHashes) BY ConsumerAssumption, FS_Product DEF ConsumerAssumption
<1>2. MaxTime \in Nat BY ConsumerAssumption DEF ConsumerAssumption
<1>3. IsFiniteSet(0..MaxTime) BY <1>2, FS_Interval
<1> QED BY <1>1, <1>2, <1>3, ConsumerAssumption DEF ConsumerAssumption, Keys, Times

\* An entry counts with nothing or its amount.
LEMMA CountedType ==
    ASSUME NEW e, NEW t \in Nat, IsEntry(e, t), NEW window, NEW u
    PROVE  Counted(e, window, u) \in {0, Price}
BY DEF IsEntry, Counted

\* The spend is a number.
LEMMA SpendIsInt ==
    ASSUME NEW l, NEW t \in Nat, Entries(l, t), NEW window, NEW u
    PROVE  SpendAt(l, window, u) \in Int
<1>1. \A k \in Keys : Counts(l, window, u)[k] \in Int BY CountedType, Bounds DEF Entries, Counts
<1> QED BY <1>1, Bounds, SumIsInt DEF SpendAt

\* Entries drop out of a window, and never come back.
LEMMA SpendAges ==
    ASSUME NEW l, NEW t \in Nat, Entries(l, t), NEW window \in Nat, NEW u \in Nat, t <= u
    PROVE  SpendAt(l, window, u) <= SpendAt(l, window, t)
<1> DEFINE F == Counts(l, window, u)
           G == Counts(l, window, t)
<1>1. ASSUME NEW k \in Keys PROVE F[k] \in Int /\ G[k] \in Int /\ F[k] <= G[k]
  <2>1. IsEntry(l[k], t) BY DEF Entries
  <2>2. F[k] \in {0, Price} /\ G[k] \in {0, Price} BY <2>1, CountedType DEF Counts
  <2>3. CASE F[k] = 0 BY <2>2, <2>3, Bounds
  <2>4. CASE F[k] # 0
    <3>1. F[k] = Counted(l[k], window, u) /\ G[k] = Counted(l[k], window, t) BY DEF Counts
    <3>2. l[k].settled /\ u - l[k].at <= window BY <2>4, <3>1 DEF Counted
    <3>3. t - l[k].at <= window BY <2>1, <3>2 DEF IsEntry
    <3>4. F[k] = G[k] BY <3>1, <3>2, <3>3 DEF Counted
    <3> QED BY <2>2, <3>4, Bounds
  <2> QED BY <2>3, <2>4
<1> HIDE DEF F, G
<1>2. SumFunctionOnSet(F, Keys) <= SumFunctionOnSet(G, Keys) BY <1>1, Bounds, SumMonotone
<1> QED BY <1>2 DEF SpendAt, F, G

\* A new entry for a key that had none adds its amount.
Adds(l, m, t, k) ==
    ~l[k].settled /\ m[k].settled /\ m[k].at = t /\ \A i \in Keys \ {k} : m[i] = l[i]

(* Settling one more entry adds its amount to the rolling spend and nothing else. *)
LEMMA SpendAdds ==
    ASSUME NEW l, NEW m, NEW t \in Nat, Entries(l, t), Entries(m, t), NEW window \in Nat, NEW k \in Keys,
           Adds(l, m, t, k)
    PROVE  SpendAt(m, window, t) = SpendAt(l, window, t) + m[k].amount
<1> DEFINE F == Counts(l, window, t)
           G == Counts(m, window, t)
<1>1. ASSUME NEW i \in Keys PROVE F[i] \in Int /\ G[i] \in Int BY CountedType, Bounds DEF Entries, Counts
<1>2. ASSUME NEW i \in Keys \ {k} PROVE G[i] = F[i] BY DEF Counts, Adds
<1>3. F[k] = 0 /\ G[k] = m[k].amount BY DEF Counts, Counted, Adds
<1>4. G[k] \in Int BY <1>1
<1>5. SumFunctionOnSet(F, Keys) \in Int BY SpendIsInt DEF SpendAt
<1> HIDE DEF F, G
<1>6. SumFunctionOnSet(G, Keys) = SumFunctionOnSet(F, Keys) - F[k] + G[k] BY <1>1, <1>2, Bounds, SumChange
<1>7. SumFunctionOnSet(G, Keys) = SumFunctionOnSet(F, Keys) + m[k].amount BY <1>3, <1>4, <1>5, <1>6
<1> QED BY <1>7 DEF SpendAt, F, G

\* An empty ledger has no spend.
LEMMA SpendOfNothing ==
    ASSUME NEW l, \A k \in Keys : ~l[k].settled, NEW window, NEW t
    PROVE  SpendAt(l, window, t) = 0
<1>1. \A k \in Keys : Counts(l, window, t)[k] = 0 BY DEF Counts, Counted
<1> QED BY <1>1, Bounds, SumZero DEF SpendAt

\* What the steps of a settlement change of a job, and what they leave alone.
LEMMA SpendFields ==
    ASSUME NEW j, IsJob(j), NEW x, NEW k
    PROVE  /\ Recorded(j, x).key = j.key /\ Recorded(j, x).amount = j.amount
           /\ Recorded(j, x).at = j.at /\ Recorded(j, x).ledger = j.ledger
           /\ Charged(j).key = j.key /\ Charged(j).amount = Price
           /\ Charged(j).at = now /\ Charged(j).ledger = j.ledger
           /\ Begun(k).key = k /\ Begun(k).amount = 0 /\ Begun(k).ledger = ledger
<1>1. PICK S : j \in JobsOver(S) BY DEF IsJob
<1>2. /\ Recorded(j, x).key = j.key /\ Recorded(j, x).amount = j.amount
      /\ Recorded(j, x).at = j.at /\ Recorded(j, x).ledger = j.ledger
  BY <1>1 DEF JobsOver, Recorded
<1>3. /\ Charged(j).key = j.key /\ Charged(j).amount = Price
      /\ Charged(j).at = now /\ Charged(j).ledger = j.ledger
  BY <1>1 DEF JobsOver, Charged
<1>4. Begun(k).key = k /\ Begun(k).amount = 0 /\ Begun(k).ledger = ledger BY DEF Begun, NoTask
<1> QED BY <1>2, <1>3, <1>4

\* With one process, a step that takes it out of its settlement, or leaves it
\* outside, and changes neither payments nor ledger.
LEMMA SpendQuiet ==
    ASSUME OneProcess, Inv, SpendInv, NEW c \in Consumers, ~Holding(c), stage'[c] \notin Settling,
           UNCHANGED <<now, ledger, paid, lost>>
    PROVE  SpendInv'
<1>1. \A d \in Consumers : d = c BY DEF OneProcess
<1>2. \A d \in Consumers : ~Holding(d) /\ ~Holding(d)' /\ ~Reserved(d)' /\ HoldsCopy(d)'
  BY <1>1 DEF Holding, Reserved, HoldsCopy, Settling
<1>3. SpendTyped' BY DEF SpendInv, SpendTyped, Entries
<1>4. \A k, t : (Stands(k, t)' <=> Stands(k, t)) /\ (Backed(k, t) => Backed(k, t)') BY <1>2 DEF Stands, Backed
<1>5. PaymentsStand' BY <1>4 DEF SpendInv, PaymentsStand
<1>6. ASSUME NEW w, NEW cap, Fits(w, cap) PROVE Fits(w, cap)'
  <2>1. RollingSpend(ledger, w)' = RollingSpend(ledger, w) BY SpendNow DEF RollingSpend, Within, Total
  <2> QED BY <1>2, <1>6, <2>1 DEF Fits
<1>7. Fits(Minute, CapPerMinute)' /\ Fits(Hour, CapPerHour)' BY <1>6 DEF SpendInv
<1> QED BY <1>2, <1>3, <1>5, <1>7 DEF SpendInv

\* A step that has nothing to do with payments.
LEMMA SpendStays ==
    ASSUME SpendInv, UNCHANGED <<now, ledger, stage, task, paid, lost>>
    PROVE  SpendInv'
<1>1. \A d : (Holding(d)' <=> Holding(d)) /\ (Reserved(d)' <=> Reserved(d)) BY DEF Holding, Reserved
<1>2. \A d \in Consumers : HoldsCopy(d)' BY <1>1 DEF SpendInv, HoldsCopy
<1>3. SpendTyped' BY DEF SpendInv, SpendTyped, Entries
<1>4. \A k, t : (Stands(k, t)' <=> Stands(k, t)) /\ (Backed(k, t) => Backed(k, t)') BY <1>1 DEF Stands, Backed
<1>5. PaymentsStand' BY <1>4 DEF SpendInv, PaymentsStand
<1>6. ASSUME NEW w, NEW cap, Fits(w, cap) PROVE Fits(w, cap)'
  <2>1. RollingSpend(ledger, w)' = RollingSpend(ledger, w) BY DEF RollingSpend, Within, Total
  <2> QED BY <1>1, <1>6, <2>1 DEF Fits
<1>7. Fits(Minute, CapPerMinute)' /\ Fits(Hour, CapPerHour)' BY <1>6 DEF SpendInv
<1> QED BY <1>2, <1>3, <1>5, <1>7 DEF SpendInv

\* The numbers and sets of a state.
LEMMA SpendFacts ==
    ASSUME SpendInv
    PROVE  /\ now \in Nat /\ now \in Times /\ Entries(ledger, now)
           /\ paid \in [Keys \X Times -> Nat] /\ lost \in [Keys \X Times -> Nat]
           /\ \A w : RollingSpend(ledger, w) \in Int
<1>1. now \in Nat /\ now \in Times /\ Entries(ledger, now)
      /\ paid \in [Keys \X Times -> Nat] /\ lost \in [Keys \X Times -> Nat]
  BY Bounds DEF SpendInv, SpendTyped
<1>2. \A w : RollingSpend(ledger, w) \in Int BY <1>1, SpendNow, SpendIsInt
<1> QED BY <1>1, <1>2

\* A settlement begins: what the breaker let through still fits.
LEMMA SpendBegins ==
    ASSUME OneProcess, Inv, SpendInv, NEW c \in Consumers, NEW k \in Keys, NEW l,
           ~Holding(c), ~ledger[k].settled, Moves(c, l, Begun(k)), l \in {"trip", "simulate", "pay"},
           l # "trip" => ~Exceeds(ledger),
           UNCHANGED <<now, ledger, paid, lost>>
    PROVE  SpendInv'
<1>0. \A d \in Consumers : d = c BY DEF OneProcess
<1>1. stage'[c] = l /\ task'[c] = Begun(k) BY Moved
<1>2. IsJob(NoTask) BY FreshJobs
<1>3. task'[c].key = k /\ task'[c].amount = 0 /\ task'[c].ledger = ledger BY <1>1, <1>2, SpendFields
<1>4. ~Holding(c)'
  <2>1. stage'[c] \notin {"onchain", "record"} BY <1>1
  <2> QED BY <2>1 DEF Holding
<1>5. HoldsCopy(c)' BY <1>1, <1>3, <1>4 DEF HoldsCopy
<1>6. SpendTyped' BY DEF SpendInv, SpendTyped, Entries
<1>7. \A i, t : (Stands(i, t)' <=> Stands(i, t)) /\ (Backed(i, t) => Backed(i, t)') BY <1>0 DEF Stands, Backed
<1>8. PaymentsStand' BY <1>7 DEF SpendInv, PaymentsStand
<1>9. Reserved(c)' => ~Exceeds(ledger) BY <1>1, <1>4 DEF Reserved
<1>10. ASSUME NEW w, NEW cap \in Nat, Fits(w, cap), Reserved(c)' => RollingSpend(ledger, w) + Price <= cap
       PROVE  Fits(w, cap)'
  <2>1. RollingSpend(ledger, w)' = RollingSpend(ledger, w) BY DEF RollingSpend, Within, Total
  <2> QED BY <1>0, <1>10, <2>1 DEF Fits
<1>11. Fits(Minute, CapPerMinute)' /\ Fits(Hour, CapPerHour)'
  <2>1. ~Exceeds(ledger) => /\ RollingSpend(ledger, Minute) + Price <= CapPerMinute
                            /\ RollingSpend(ledger, Hour) + Price <= CapPerHour
    BY SpendFacts, Bounds DEF Exceeds
  <2> QED BY <1>9, <1>10, <2>1, Bounds DEF SpendInv
<1> QED BY <1>0, <1>5, <1>6, <1>8, <1>11 DEF SpendInv

\* The process goes on with what it holds: its copy, its key and its amount.
Carries(c, j) ==
    /\ task[c].key = j.key /\ task[c].ledger = j.ledger /\ task[c].amount = j.amount /\ task[c].at = j.at

\* The record on chain, or a resource found free, changes nothing of that.
LEMMA SpendGoesOn ==
    ASSUME OneProcess, Inv, SpendInv, NEW c \in Consumers, NEW l, NEW j, Moves(c, l, j), Carries(c, j),
           \/ stage[c] = "pay" /\ l = "onchain"
           \/ stage[c] = "onchain" /\ l = "record",
           UNCHANGED <<now, ledger, paid, lost>>
    PROVE  SpendInv'
<1>0. \A d \in Consumers : d = c BY DEF OneProcess
<1>1. stage'[c] = l /\ task'[c] = j BY Moved
<1>2. HoldsCopy(c) /\ stage[c] \in Settling BY DEF SpendInv, Settling
<1>3. Holding(c)' <=> Holding(c)
  <2>1. CASE stage[c] = "pay"
    <3>1. task[c].amount = 0 BY <1>2, <2>1 DEF HoldsCopy
    <3> QED BY <1>1, <2>1, <3>1, Bounds DEF Holding, Carries
  <2>2. CASE stage[c] = "onchain" BY <1>1, <2>2 DEF Holding, Carries
  <2> QED BY <2>1, <2>2
<1>4. HoldsCopy(c)' BY <1>1, <1>2, <1>3 DEF HoldsCopy, Carries
<1>5. Reserved(c)' => Reserved(c)
  <2>1. stage'[c] \notin {"simulate", "pay"} BY <1>1
  <2> QED BY <1>3, <2>1 DEF Reserved
<1>6. SpendTyped' BY DEF SpendInv, SpendTyped, Entries
<1>7. \A i, t : Stands(i, t)' <=> Stands(i, t) BY DEF Stands
<1>8. \A i, t : Backed(i, t) => Backed(i, t)' BY <1>0, <1>1, <1>3 DEF Backed, Carries
<1>9. PaymentsStand' BY <1>7, <1>8 DEF SpendInv, PaymentsStand
<1>10. ASSUME NEW w, NEW cap, Fits(w, cap) PROVE Fits(w, cap)'
  <2>1. RollingSpend(ledger, w)' = RollingSpend(ledger, w) BY DEF RollingSpend, Within, Total
  <2> QED BY <1>0, <1>5, <1>10, <2>1 DEF Fits
<1>11. Fits(Minute, CapPerMinute)' /\ Fits(Hour, CapPerHour)' BY <1>10 DEF SpendInv
<1> QED BY <1>0, <1>4, <1>6, <1>9, <1>11 DEF SpendInv

\* One more payment in a cell.
OneMore(f, g, k, t) ==
    /\ g \in [Keys \X Times -> Nat]
    /\ g[<<k, t>>] = f[<<k, t>>] + 1
    /\ \A i \in Keys, u \in Times : i # k \/ u # t => g[<<i, u>>] = f[<<i, u>>]

(* One more payment raises the count of its cell by one and no other count. *)
LEMMA CountOne ==
    ASSUME NEW f \in [Keys \X Times -> Nat], NEW k \in Keys, NEW t \in Times
    PROVE  OneMore(f, Count(f, <<k, t>>), k, t)
<1>1. <<k, t>> \in Keys \X Times OBVIOUS
<1>2. f[<<k, t>>] + 1 \in Nat BY <1>1
<1>3. Count(f, <<k, t>>) = [f EXCEPT ![<<k, t>>] = f[<<k, t>>] + 1] BY DEF Count
<1>4. \A i \in Keys, u \in Times : (i # k \/ u # t) => <<i, u>> # <<k, t>> OBVIOUS
<1>5. \A i \in Keys, u \in Times : <<i, u>> \in Keys \X Times OBVIOUS
<1> QED BY <1>1, <1>2, <1>3, <1>4, <1>5 DEF OneMore

\* Before the process pays, no payment for its key stands.
LEMMA NonePaid ==
    ASSUME OneProcess, SpendInv, NEW c \in Consumers, stage[c] \in Settling, ~Holding(c), NEW t \in Times
    PROVE  task[c].key \in Keys /\ ~Stands(task[c].key, t)
<1>1. \A d \in Consumers : d = c BY DEF OneProcess
<1>2. task[c].key \in Keys /\ ~ledger[task[c].key].settled BY DEF SpendInv, HoldsCopy
<1>3. ~Backed(task[c].key, t) BY <1>1, <1>2 DEF Backed
<1> QED BY <1>2, <1>3 DEF SpendInv, PaymentsStand

\* A payment that moves funds.
LEMMA SpendPays ==
    ASSUME OneProcess, Inv, SpendInv, NEW c \in Consumers, stage[c] = "pay",
           Moves(c, "onchain", Charged(task[c])), paid' = Count(paid, <<task[c].key, now>>),
           UNCHANGED <<now, ledger, lost>>
    PROVE  SpendInv'
<1> DEFINE key == task[c].key
<1>0. \A d \in Consumers : d = c BY DEF OneProcess
<1>1. IsJob(task[c]) BY DEF Inv, Typed
<1>2. stage'[c] = "onchain" /\ task'[c] = Charged(task[c]) BY Moved
<1>3. /\ task'[c].key = key /\ task'[c].amount = Price /\ task'[c].at = now
      /\ task'[c].ledger = task[c].ledger
  BY <1>1, <1>2, SpendFields
<1>4. HoldsCopy(c) /\ stage[c] \in Settling /\ ~Holding(c) BY DEF SpendInv, Settling, Holding
<1>5. key \in Keys /\ \A t \in Times : ~Stands(key, t)
  <2>1. key \in Keys BY <1>4 DEF HoldsCopy
  <2>2. \A t \in Times : ~Stands(key, t) BY <1>4, NonePaid
  <2> QED BY <2>1, <2>2
<1>6. Holding(c)' BY <1>2, <1>3 DEF Holding
<1>7. HoldsCopy(c)' BY <1>2, <1>3, <1>4, SpendFacts DEF HoldsCopy, Settling
<1>8. /\ now \in Times /\ paid \in [Keys \X Times -> Nat] /\ lost \in [Keys \X Times -> Nat]
  BY SpendFacts
<1> HIDE DEF key
<1>9. OneMore(paid, paid', key, now)
  <2>1. paid' = Count(paid, <<key, now>>) BY DEF key
  <2> QED BY <1>5, <1>8, <2>1, CountOne
<1>10. SpendTyped' BY <1>9 DEF SpendInv, SpendTyped, Entries, OneMore
<1>11. PaymentsStand'
  <2> SUFFICES ASSUME NEW k \in Keys, NEW t \in Times, Stands(k, t)'
               PROVE  /\ paid'[<<k, t>>] = lost'[<<k, t>>] + 1
                      /\ Backed(k, t)'
                      /\ \A u \in Times : Stands(k, u)' => u = t
    BY DEF PaymentsStand
  <2>1. CASE k = key
    <3>1. \A u \in Times : u # now => ~Stands(k, u)' BY <1>5, <1>9, <2>1 DEF Stands, OneMore
    <3>2. t = now BY <3>1
    <3>3. Backed(k, t)' BY <1>3, <1>6, <2>1, <3>2 DEF Backed
    <3>4. paid[<<k, t>>] \in Nat /\ lost[<<k, t>>] \in Nat /\ ~(paid[<<k, t>>] > lost[<<k, t>>])
      BY <1>5, <1>8, <2>1 DEF Stands
    <3>5. paid'[<<k, t>>] = paid[<<k, t>>] + 1 /\ paid'[<<k, t>>] > lost'[<<k, t>>]
      BY <1>9, <2>1, <3>2 DEF Stands, OneMore
    <3>6. paid'[<<k, t>>] = lost'[<<k, t>>] + 1 BY <3>4, <3>5
    <3> QED BY <3>1, <3>2, <3>3, <3>6
  <2>2. CASE k # key
    <3>1. \A u \in Times : paid'[<<k, u>>] = paid[<<k, u>>] BY <1>9, <2>2 DEF OneMore
    <3>2. \A u \in Times : Stands(k, u)' <=> Stands(k, u) BY <3>1 DEF Stands
    <3>3. Stands(k, t) BY <3>2
    <3>4. /\ paid[<<k, t>>] = lost[<<k, t>>] + 1 /\ Backed(k, t)
          /\ \A u \in Times : Stands(k, u) => u = t
      BY <3>3 DEF SpendInv, PaymentsStand
    <3>5. Backed(k, t)' BY <1>0, <1>4, <3>4 DEF Backed
    <3> QED BY <3>1, <3>2, <3>4, <3>5
  <2> QED BY <2>1, <2>2
<1>12. ASSUME NEW w, NEW cap, Fits(w, cap) PROVE Fits(w, cap)'
  <2>1. RollingSpend(ledger, w)' = RollingSpend(ledger, w) BY DEF RollingSpend, Within, Total
  <2>2. Reserved(c) BY DEF Reserved
  <2> QED BY <1>0, <1>12, <2>1, <2>2 DEF Fits
<1>13. Fits(Minute, CapPerMinute)' /\ Fits(Hour, CapPerHour)' BY <1>12 DEF SpendInv
<1> QED BY <1>0, <1>7, <1>10, <1>11, <1>13 DEF SpendInv

\* The entry of the settlement is saved, of amount a, and the process goes on.
LEMMA SpendSaves ==
    ASSUME OneProcess, Inv, SpendInv, NEW c \in Consumers, stage'[c] \notin Settling,
           stage[c] \in {"simulate", "record"}, NEW a, a = IF stage[c] = "simulate" THEN Price ELSE task[c].amount,
           NEW e, e.settled = TRUE, e.at = now, e.amount = a,
           ledger' = [task[c].ledger EXCEPT ![task[c].key] = e],
           UNCHANGED <<now, paid, lost>>
    PROVE  SpendInv'
<1> DEFINE key == task[c].key
<1>0. \A d \in Consumers : d = c BY DEF OneProcess
<1>1. HoldsCopy(c) /\ stage[c] \in Settling BY DEF SpendInv, Settling
<1>2. key \in Keys /\ task[c].ledger = ledger /\ ~ledger[key].settled BY <1>1 DEF HoldsCopy
<1>3. a \in {0, Price} /\ (a = Price => Reserved(c)) /\ (Holding(c) => a = Price)
  BY <1>1, Bounds DEF HoldsCopy, Reserved, Holding
<1>4. now \in Nat /\ now \in Times /\ Entries(ledger, now) BY SpendFacts
<1> HIDE DEF key
<1>5. ledger' = [ledger EXCEPT ![key] = e] BY <1>2 DEF key
<1>6. ledger'[key] = e /\ \A k \in Keys \ {key} : ledger'[k] = ledger[k] BY <1>2, <1>4, <1>5 DEF Entries
<1>7. Entries(ledger', now)
  <2>1. ledger' = [k \in Keys |-> ledger'[k]] BY <1>2, <1>4, <1>5 DEF Entries
  <2>2. IsEntry(e, now)
    <3>1. e.settled \in BOOLEAN OBVIOUS
    <3>2. e.at \in Nat /\ e.at <= now BY <1>4
    <3>3. e.amount \in {0, Price} BY <1>3
    <3> QED BY <3>1, <3>2, <3>3 DEF IsEntry
  <2>3. \A k \in Keys : IsEntry(ledger'[k], now) BY <1>4, <1>6, <2>2 DEF Entries
  <2> QED BY <2>1, <2>3 DEF Entries
<1>8. SpendTyped'
  <2>1. Entries(ledger', now') BY <1>7
  <2>2. Entries(ledger, now)' BY <2>1 DEF Entries
  <2> QED BY <2>2 DEF SpendInv, SpendTyped
<1>9. ~Holding(c)' /\ ~Reserved(c)' /\ HoldsCopy(c)' BY DEF Holding, Reserved, HoldsCopy, Settling
<1>10. ASSUME NEW k \in Keys, NEW t \in Times, Backed(k, t) PROVE Backed(k, t)'
  <2>1. CASE ledger[k].settled /\ ledger[k].amount = Price /\ t <= ledger[k].at
    BY <1>2, <1>6, <2>1 DEF Backed
  <2>2. CASE \E d \in Consumers : Holding(d) /\ task[d].key = k /\ task[d].at = t
    <3>1. Holding(c) /\ k = key /\ task[c].at = t BY <1>0, <2>2 DEF key
    <3>2. t <= now /\ a = Price BY <1>1, <1>3, <3>1 DEF HoldsCopy
    <3> QED BY <1>6, <3>1, <3>2 DEF Backed
  <2> QED BY <1>10, <2>1, <2>2 DEF Backed
<1>11. \A k, t : Stands(k, t)' <=> Stands(k, t) BY DEF Stands
<1>12. PaymentsStand' BY <1>10, <1>11 DEF SpendInv, PaymentsStand
<1>13. ASSUME NEW w \in Nat, NEW cap \in Nat, Fits(w, cap) PROVE Fits(w, cap)'
  <2>1. SpendAt(ledger', w, now) = SpendAt(ledger, w, now) + ledger'[key].amount
    <3>1. key \in Keys BY <1>2 DEF key
    <3>2. Adds(ledger, ledger', now, key) BY <1>2, <1>6 DEF Adds, key
    <3>3. ASSUME NEW l, NEW m, Entries(l, now), Entries(m, now), Adds(l, m, now, key)
          PROVE  SpendAt(m, w, now) = SpendAt(l, w, now) + m[key].amount
      <4>1. now \in Nat BY <1>4
      <4> QED BY <3>1, <3>3, <4>1, SpendAdds
    <3> QED BY <1>4, <1>7, <3>2, <3>3, Zenon
  <2>2. RollingSpend(ledger, w)' = SpendAt(ledger', w, now)
    <3>1. RollingSpend(ledger, w)' = SpendAt(ledger', w, now')
      BY DEF RollingSpend, SpendAt, Counts, Counted, Within, Total
    <3> QED BY <3>1
  <2>3. RollingSpend(ledger, w)' = RollingSpend(ledger, w) + a BY <1>6, <2>1, <2>2, SpendNow
  <2>4. RollingSpend(ledger, w) \in Int BY SpendFacts
  <2>5. RollingSpend(ledger, w)' <= cap BY <1>3, <1>13, <2>3, <2>4 DEF Fits
  <2> QED BY <1>0, <1>9, <2>5 DEF Fits
<1>14. Fits(Minute, CapPerMinute)' /\ Fits(Hour, CapPerHour)' BY <1>13, Bounds DEF SpendInv
<1> QED BY <1>0, <1>8, <1>9, <1>12, <1>14 DEF SpendInv

\* A crash between payment and ledger loses the payment that was held.
LEMMA SpendDies ==
    ASSUME OneProcess, Inv, SpendInv, NEW c \in Consumers, Holding(c), stage'[c] \notin Settling,
           lost' = Count(lost, <<task[c].key, task[c].at>>), UNCHANGED <<now, ledger, paid>>
    PROVE  SpendInv'
<1>0. \A d \in Consumers : d = c BY DEF OneProcess
<1>1. HoldsCopy(c) /\ stage[c] \in Settling BY DEF SpendInv, Settling, Holding
<1> PICK key, at : key = task[c].key /\ at = task[c].at OBVIOUS
<1>2. key \in Keys /\ at \in Times /\ ~ledger[key].settled BY <1>1 DEF HoldsCopy
<1>3. ~Holding(c)' /\ ~Reserved(c)' /\ HoldsCopy(c)' BY DEF Holding, Reserved, HoldsCopy, Settling
<1>4. paid \in [Keys \X Times -> Nat] /\ lost \in [Keys \X Times -> Nat] BY SpendFacts
<1>5. \A i \in Keys, t \in Times : Backed(i, t) =>
        \/ i = key /\ t = at
        \/ i # key /\ Backed(i, t)'
  BY <1>0, <1>2 DEF Backed
<1>6. OneMore(lost, lost', key, at)
  <2>1. lost' = Count(lost, <<key, at>>) OBVIOUS
  <2> QED BY <1>2, <1>4, <2>1, CountOne
<1>7. SpendTyped' BY <1>6 DEF SpendInv, SpendTyped, Entries, OneMore
<1>8. ~Stands(key, at)'
  <2>1. paid[<<key, at>>] \in Nat /\ lost[<<key, at>>] \in Nat BY <1>2, <1>4
  <2>2. Stands(key, at) => paid[<<key, at>>] = lost[<<key, at>>] + 1 BY <1>2 DEF SpendInv, PaymentsStand
  <2>3. paid'[<<key, at>>] = paid[<<key, at>>] /\ lost'[<<key, at>>] = lost[<<key, at>>] + 1 BY <1>6 DEF OneMore
  <2>4. paid[<<key, at>>] <= lost[<<key, at>>] + 1 BY <2>1, <2>2 DEF Stands
  <2> QED BY <2>1, <2>3, <2>4 DEF Stands
<1>9. \A i \in Keys, u \in Times : i # key \/ u # at => (Stands(i, u)' <=> Stands(i, u)) BY <1>6 DEF Stands, OneMore
<1>10. PaymentsStand'
  <2> SUFFICES ASSUME NEW k \in Keys, NEW t \in Times, Stands(k, t)'
               PROVE  /\ paid'[<<k, t>>] = lost'[<<k, t>>] + 1
                      /\ Backed(k, t)'
                      /\ \A u \in Times : Stands(k, u)' => u = t
    BY DEF PaymentsStand
  <2>1. k # key \/ t # at BY <1>8
  <2>2. Stands(k, t) BY <1>9, <2>1
  <2>3. /\ paid[<<k, t>>] = lost[<<k, t>>] + 1 /\ Backed(k, t)
        /\ \A u \in Times : Stands(k, u) => u = t
    BY <2>2 DEF SpendInv, PaymentsStand
  <2>4. k # key /\ Backed(k, t)' BY <1>5, <2>1, <2>3
  <2>5. lost'[<<k, t>>] = lost[<<k, t>>] BY <1>6, <2>4 DEF OneMore
  <2> QED BY <1>9, <2>3, <2>4, <2>5
<1>11. ASSUME NEW w, NEW cap, Fits(w, cap) PROVE Fits(w, cap)'
  <2>1. RollingSpend(ledger, w)' = RollingSpend(ledger, w) BY DEF RollingSpend, Within, Total
  <2> QED BY <1>0, <1>3, <1>11, <2>1 DEF Fits
<1>12. Fits(Minute, CapPerMinute)' /\ Fits(Hour, CapPerHour)' BY <1>11 DEF SpendInv
<1> QED BY <1>0, <1>3, <1>7, <1>10, <1>12 DEF SpendInv

\* A payment that moves funds and yet fails is lost as it is made.
LEMMA SpendFails ==
    ASSUME OneProcess, Inv, SpendInv, NEW c \in Consumers, stage[c] = "pay", stage'[c] \notin Settling,
           paid' = Count(paid, <<task[c].key, now>>), lost' = Count(lost, <<task[c].key, now>>),
           UNCHANGED <<now, ledger>>
    PROVE  SpendInv'
<1>0. \A d \in Consumers : d = c BY DEF OneProcess
<1>1. HoldsCopy(c) /\ stage[c] \in Settling /\ ~Holding(c) BY DEF SpendInv, Settling, Holding
<1> PICK key, t0 : key = task[c].key /\ t0 = now OBVIOUS
<1>2. key \in Keys BY <1>1 DEF HoldsCopy
<1>3. ~Holding(c)' /\ ~Reserved(c)' /\ HoldsCopy(c)' BY DEF Holding, Reserved, HoldsCopy, Settling
<1>4. t0 \in Times /\ paid \in [Keys \X Times -> Nat] /\ lost \in [Keys \X Times -> Nat] BY SpendFacts
<1>5. OneMore(paid, paid', key, t0)
  <2>1. paid' = Count(paid, <<key, t0>>) OBVIOUS
  <2> QED BY <1>2, <1>4, <2>1, CountOne
<1>6. OneMore(lost, lost', key, t0)
  <2>1. lost' = Count(lost, <<key, t0>>) OBVIOUS
  <2> QED BY <1>2, <1>4, <2>1, CountOne
<1>7. SpendTyped' BY <1>5, <1>6 DEF SpendInv, SpendTyped, Entries, OneMore
<1>8. ASSUME NEW i \in Keys, NEW t \in Times
      PROVE  /\ Stands(i, t)' <=> Stands(i, t)
             /\ Backed(i, t) => Backed(i, t)'
             /\ paid[<<i, t>>] = lost[<<i, t>>] + 1 => paid'[<<i, t>>] = lost'[<<i, t>>] + 1
  <2>1. paid[<<i, t>>] \in Nat /\ lost[<<i, t>>] \in Nat BY <1>4
  <2>2. \/ paid'[<<i, t>>] = paid[<<i, t>>] + 1 /\ lost'[<<i, t>>] = lost[<<i, t>>] + 1
        \/ paid'[<<i, t>>] = paid[<<i, t>>] /\ lost'[<<i, t>>] = lost[<<i, t>>]
    BY <1>5, <1>6 DEF OneMore
  <2>3. Backed(i, t) => Backed(i, t)' BY <1>0, <1>1 DEF Backed
  <2> QED BY <2>1, <2>2, <2>3 DEF Stands
<1>9. PaymentsStand' BY <1>8 DEF SpendInv, PaymentsStand
<1>10. ASSUME NEW w, NEW cap, Fits(w, cap) PROVE Fits(w, cap)'
  <2>1. RollingSpend(ledger, w)' = RollingSpend(ledger, w) BY DEF RollingSpend, Within, Total
  <2> QED BY <1>0, <1>3, <1>10, <2>1 DEF Fits
<1>11. Fits(Minute, CapPerMinute)' /\ Fits(Hour, CapPerHour)' BY <1>10 DEF SpendInv
<1> QED BY <1>0, <1>3, <1>7, <1>9, <1>11 DEF SpendInv

\* A write of the ledger that is cut short loses every payment there was.
LEMMA SpendForgets ==
    ASSUME OneProcess, Inv, SpendInv, NEW c \in Consumers, stage'[c] \notin Settling,
           ledger' = [k \in Keys |-> Nothing], lost' = paid, UNCHANGED <<now, paid>>
    PROVE  SpendInv'
<1>0. \A d \in Consumers : d = c BY DEF OneProcess
<1>1. ~Holding(c)' /\ ~Reserved(c)' /\ HoldsCopy(c)' BY DEF Holding, Reserved, HoldsCopy, Settling
<1>2. \A k \in Keys : ledger'[k].settled = FALSE BY DEF Nothing
<1>3. Entries(ledger, now)' BY <1>2 DEF Entries, IsEntry
<1>4. SpendTyped' BY <1>3 DEF SpendInv, SpendTyped
<1>5. \A k \in Keys, t \in Times : ~Stands(k, t)'
  <2> SUFFICES ASSUME NEW k \in Keys, NEW t \in Times PROVE ~Stands(k, t)' OBVIOUS
  <2>1. paid[<<k, t>>] \in Nat BY SpendFacts
  <2>2. paid'[<<k, t>>] = paid[<<k, t>>] /\ lost'[<<k, t>>] = paid[<<k, t>>] OBVIOUS
  <2> QED BY <2>1, <2>2 DEF Stands
<1>6. PaymentsStand' BY <1>5 DEF PaymentsStand
<1>7. ASSUME NEW w, NEW cap \in Nat PROVE Fits(w, cap)'
  <2>1. SpendAt(ledger', w, now') = 0 BY <1>2, SpendOfNothing
  <2>2. RollingSpend(ledger, w)' = SpendAt(ledger', w, now')
    BY DEF RollingSpend, SpendAt, Counts, Counted, Within, Total
  <2> QED BY <1>0, <1>1, <2>1, <2>2 DEF Fits
<1> QED BY <1>0, <1>1, <1>4, <1>6, <1>7, Bounds DEF SpendInv

\* Time passes: entries leave the windows.
LEMMA SpendTicks == ASSUME SpendInv, Tick PROVE SpendInv'
<1>1. now \in Times /\ now \in Nat /\ Entries(ledger, now) BY SpendFacts
<1>2. now' = now + 1 /\ UNCHANGED <<ledger, stage, task, paid, lost>> BY DEF Tick, ledgers, local, history
<1>3. now' \in Times BY <1>1, <1>2, Bounds DEF Tick, Times
<1>4. Entries(ledger, now)'
  <2>1. \A k \in Keys : IsEntry(ledger[k], now + 1) BY <1>1 DEF Entries, IsEntry
  <2> QED BY <1>1, <1>2, <2>1 DEF Entries
<1>5. SpendTyped' BY <1>2, <1>3, <1>4 DEF SpendInv, SpendTyped
<1>6. \A d : (Holding(d)' <=> Holding(d)) /\ (Reserved(d)' <=> Reserved(d)) BY <1>2 DEF Holding, Reserved
<1>7. ASSUME NEW d \in Consumers PROVE HoldsCopy(d)'
  <2>1. \A t \in Times : t <= now => t <= now + 1 BY <1>1, Bounds
  <2> QED BY <1>2, <1>6, <2>1 DEF SpendInv, HoldsCopy
<1>8. \A k, t : (Stands(k, t)' <=> Stands(k, t)) /\ (Backed(k, t) => Backed(k, t)')
  BY <1>2, <1>6 DEF Stands, Backed
<1>9. PaymentsStand' BY <1>2, <1>8 DEF SpendInv, PaymentsStand
<1>10. ASSUME NEW w \in Nat, NEW cap \in Nat, Fits(w, cap) PROVE Fits(w, cap)'
  <2>1. SpendAt(ledger, w, now + 1) <= SpendAt(ledger, w, now) BY <1>1, SpendAges
  <2>2. SpendAt(ledger, w, now + 1) \in Int /\ SpendAt(ledger, w, now) \in Int BY <1>1, SpendIsInt
  <2>3. RollingSpend(ledger, w)' = SpendAt(ledger, w, now + 1)
    BY <1>2 DEF RollingSpend, SpendAt, Counts, Counted, Within, Total
  <2>4. RollingSpend(ledger, w)' <= RollingSpend(ledger, w) BY <2>1, <2>3, SpendNow
  <2>5. RollingSpend(ledger, w)' \in Int /\ RollingSpend(ledger, w) \in Int BY <2>2, <2>3, SpendNow
  <2> HIDE DEF Fits
  <2> QED BY <1>6, <1>10, <2>4, <2>5, Bounds DEF Fits
<1>11. Fits(Minute, CapPerMinute)' /\ Fits(Hour, CapPerHour)' BY <1>10, Bounds DEF SpendInv
<1> QED BY <1>5, <1>7, <1>9, <1>11 DEF SpendInv

(* Before the first payment nothing is spent, held or counted. *)
LEMMA SpendInit == CycleInit => SpendInv
<1> SUFFICES ASSUME CycleInit PROVE SpendInv OBVIOUS
<1>1. /\ now = 0 /\ ledger = [k \in Keys |-> Nothing] /\ stage = [c \in Consumers |-> "down"]
      /\ paid = [cell \in Keys \X Times |-> 0] /\ lost = paid
  BY DEF CycleInit
<1>2. \A k \in Keys : ledger[k].settled = FALSE BY <1>1 DEF Nothing
<1>3. SpendTyped
  <2>1. 0 \in Times BY Bounds DEF Times
  <2>2. Entries(ledger, now) BY <1>1, <1>2 DEF Entries, IsEntry
  <2> QED BY <1>1, <2>1, <2>2 DEF SpendTyped
<1>4. \A c \in Consumers : ~Reserved(c) /\ HoldsCopy(c) BY <1>1 DEF Reserved, Holding, HoldsCopy, Settling
<1>5. PaymentsStand
  <2>1. \A k \in Keys, t \in Times : ~Stands(k, t) BY <1>1 DEF Stands
  <2> QED BY <2>1 DEF PaymentsStand
<1>6. ASSUME NEW w, NEW cap \in Nat PROVE Fits(w, cap)
  <2>1. RollingSpend(ledger, w) = 0 BY <1>2, SpendNow, SpendOfNothing
  <2> QED BY <1>4, <2>1 DEF Fits
<1> QED BY <1>3, <1>4, <1>5, <1>6, Bounds DEF SpendInv

\* The steps of a settlement.
LEMMA SpendSettlement ==
    ASSUME OneProcess, Inv, SpendInv, NEW c \in Consumers, Settlement(c)
    PROVE  SpendInv'
<1> USE DEF ledgers, chain, history
<1>0. stage \in [Consumers -> Labels] /\ IsJob(task[c]) BY DEF Inv, Typed
<1>1. ASSUME NEW k \in Keys, Settle(c, k) PROVE SpendInv'
  <2>1. stage[c] = "idle" /\ ~Holding(c) BY <1>1 DEF Settle, Holding
  <2>2. CASE ~ledger[k].settled /\ BeginSettlement(c, k)
    <3> DEFINE l == IF Exceeds(ledger) THEN "trip" ELSE IF devMode[c] THEN "simulate" ELSE "pay"
    <3>1. Moves(c, l, Begun(k)) BY <2>2, Zenon DEF BeginSettlement, Work, MoveTo, Begun, Moves
    <3>2. UNCHANGED <<now, ledger, paid, lost>> BY <2>2 DEF BeginSettlement
    <3>3. l \in {"trip", "simulate", "pay"} /\ (l # "trip" => ~Exceeds(ledger)) OBVIOUS
    <3> HIDE DEF l
    <3> QED BY <2>1, <2>2, <3>1, <3>2, <3>3, SpendBegins
  <2>3. CASE SettleAgain(c, k)
    <3>1. UNCHANGED <<now, ledger, paid, lost>> BY <2>3 DEF SettleAgain
    <3>2. Moves(c, "idle", NoTask) \/ Moves(c, "report", Again(k[2]))
        BY <2>3 DEF SettleAgain, Finish, MoveTo, Work, Again, Moves
    <3>3. stage'[c] \notin Settling BY <3>2, Moved, Quiet
    <3> QED BY <2>1, <3>1, <3>3, SpendQuiet
  <2>4. CASE Refuse(c) BY <2>4, SpendStays DEF Refuse, cycleVars, local
  <2> QED BY <1>1, <2>2, <2>3, <2>4 DEF Settle
<1>2. CASE SaveTrip(c)
  <2>1. stage[c] = "trip" /\ ledger' = task[c].ledger /\ Moves(c, "idle", NoTask) /\ UNCHANGED <<now, paid, lost>>
      BY <1>2 DEF SaveTrip, Finish, MoveTo, Work, Moves
  <2>2. task[c].ledger = ledger /\ ~Holding(c) BY <2>1 DEF SpendInv, HoldsCopy, Settling, Holding
  <2>3. stage'[c] \notin Settling BY <2>1, Moved, Quiet
  <2> QED BY <2>1, <2>2, <2>3, SpendQuiet
<1>3. CASE SaveSimulated(c)
  <2>1. stage[c] = "simulate" /\ Moves(c, "idle", NoTask) /\ UNCHANGED <<now, paid, lost>>
      BY <1>3 DEF SaveSimulated, Finish, MoveTo, Work, Moves
  <2> DEFINE e == [settled |-> TRUE, at |-> now, amount |-> Price, simulated |-> TRUE, onChain |-> task[c].onChain]
  <2>2. ledger' = [task[c].ledger EXCEPT ![task[c].key] = e] BY <1>3 DEF SaveSimulated, Save, Key
  <2>3. e.settled = TRUE /\ e.at = now /\ e.amount = Price OBVIOUS
  <2>4. stage'[c] \notin Settling BY <2>1, Moved, Quiet
  <2> HIDE DEF e
  <2> QED BY <2>1, <2>2, <2>3, <2>4, SpendSaves
<1>4. CASE Pay(c)
  <2>1. stage[c] = "pay" /\ UNCHANGED <<now, ledger>> BY <1>4 DEF Pay
  <2>2. ~Holding(c) BY <2>1 DEF Holding
  <2>3. task = [task EXCEPT ![c] = task[c]] BY DEF Inv, Typed
  <2>4. \/ /\ Moves(c, "onchain", Charged(task[c])) /\ paid' = Count(paid, <<task[c].key, now>>)
           /\ lost' = lost
        \/ Moves(c, "onchain", task[c]) /\ UNCHANGED <<paid, lost>>
        \/ Moves(c, "idle", NoTask) /\ UNCHANGED <<paid, lost>>
        \/ /\ Moves(c, "idle", NoTask) /\ paid' = Count(paid, <<task[c].key, now>>)
           /\ lost' = Count(lost, <<task[c].key, now>>)
      BY <1>4, <2>3 DEF Pay, Finish, MoveTo, Work, Charged, Moves, Key
  <2>5. CASE Moves(c, "onchain", Charged(task[c])) /\ paid' = Count(paid, <<task[c].key, now>>) /\ lost' = lost
    BY <2>1, <2>5, SpendPays
  <2>6. CASE Moves(c, "onchain", task[c]) /\ UNCHANGED <<paid, lost>>
    <3>1. Carries(c, task[c]) BY DEF Carries
    <3> QED BY <2>1, <2>6, <3>1, SpendGoesOn
  <2>7. Moves(c, "idle", NoTask) => stage'[c] \notin Settling BY Moved, Quiet
  <2>8. CASE Moves(c, "idle", NoTask) /\ UNCHANGED <<paid, lost>> BY <2>1, <2>2, <2>7, <2>8, SpendQuiet
  <2>9. CASE /\ Moves(c, "idle", NoTask) /\ paid' = Count(paid, <<task[c].key, now>>)
             /\ lost' = Count(lost, <<task[c].key, now>>)
    BY <2>1, <2>7, <2>9, SpendFails
  <2> QED BY <2>4, <2>5, <2>6, <2>8, <2>9
<1>5. CASE RecordOnChain(c)
  <2>1. stage[c] = "onchain" /\ UNCHANGED <<now, ledger, paid, lost>> BY <1>5 DEF RecordOnChain
  <2>2. PICK result : Moves(c, "record", Recorded(task[c], result))
      BY <1>5 DEF RecordOnChain, MoveTo, Work, Recorded, Moves
  <2>3. Carries(c, Recorded(task[c], result)) BY <1>0, SpendFields DEF Carries
  <2> QED BY <2>1, <2>2, <2>3, SpendGoesOn
<1>6. CASE SaveSettlement(c)
  <2>1. stage[c] = "record" /\ UNCHANGED <<now, paid, lost>> BY <1>6 DEF SaveSettlement
  <2>2. Moves(c, "report", Reported(task[c].hash, task[c].onChain))
      BY <1>6 DEF SaveSettlement, Report, MoveTo, Work, Reported, Moves
  <2> DEFINE e == [settled |-> TRUE, at |-> now, amount |-> task[c].amount, simulated |-> FALSE, onChain |-> task[c].onChain]
  <2>3. ledger' = [task[c].ledger EXCEPT ![task[c].key] = e] BY <1>6 DEF SaveSettlement, Save, Key
  <2>4. e.settled = TRUE /\ e.at = now /\ e.amount = task[c].amount OBVIOUS
  <2>5. stage'[c] \notin Settling BY <2>2, Moved, Quiet
  <2> HIDE DEF e
  <2> QED BY <2>1, <2>3, <2>4, <2>5, SpendSaves
<1>7. ASSUME NEW h \in Reasons, Slash(c, h) PROVE SpendInv'
  <2>1. stage[c] = "idle" /\ UNCHANGED <<now, ledger, paid, lost>> BY <1>7 DEF Slash
  <2>2. Moves(c, "report", Reported(h, "recorded")) BY <1>7 DEF Slash, MoveTo, Work, Reported, Moves
  <2>3. stage'[c] \notin Settling /\ ~Holding(c) BY <2>1, <2>2, Moved, Quiet DEF Holding
  <2> QED BY <2>1, <2>3, SpendQuiet
<1> QED BY <1>1, <1>2, <1>3, <1>4, <1>5, <1>6, <1>7 DEF Settlement

\* The steps of a report, and those that end or start a process.
LEMMA SpendElsewhere ==
    ASSUME OneProcess, Inv, SpendInv, NEW c \in Consumers,
           \/ BeginReport(c) \/ SavePending(c) \/ SendFeedback(c) \/ SaveOutcome(c)
           \/ Start(c) \/ CrashAtAwait(c) \/ CrashInLedgerSave(c) \/ CrashIn8004Save(c)
    PROVE  SpendInv'
<1> USE DEF ledgers, chain, history
<1>0. stage \in [Consumers -> Labels] BY DEF Inv, Typed
<1>1. stage'[c] \notin Settling
  <2>1. \E l \in Writing \cup {"down", "idle"} : stage' = [stage EXCEPT ![c] = l]
    <3>1. {"idle", "pending", "send", "confirmed", "failed", "down"} \subseteq Writing \cup {"down", "idle"}
      BY DEF Writing
    <3> QED BY <3>1 DEF BeginReport, SavePending, SendFeedback, SaveOutcome, Start, CrashAtAwait, CrashInLedgerSave,
                        CrashIn8004Save, Finish, Forget, MoveTo
  <2> QED BY <1>0, <2>1 DEF Writing, Settling
<1>2. CASE \/ BeginReport(c) \/ SavePending(c) \/ SendFeedback(c) \/ SaveOutcome(c)
           \/ Start(c) \/ CrashIn8004Save(c)
  <2>1. UNCHANGED <<now, ledger, paid, lost>>
    BY <1>2 DEF BeginReport, SavePending, SendFeedback, SaveOutcome, Start, CrashIn8004Save
  <2>2. ~Holding(c)
    BY <1>2 DEF BeginReport, SavePending, SendFeedback, SaveOutcome, Start, CrashIn8004Save, Holding
  <2> QED BY <1>1, <2>1, <2>2, SpendQuiet
<1>3. CASE CrashAtAwait(c)
  <2>1. UNCHANGED <<now, ledger, paid>> BY <1>3 DEF CrashAtAwait
  <2>2. lost' = IF Holding(c) THEN Count(lost, <<task[c].key, task[c].at>>) ELSE lost
    BY <1>3 DEF CrashAtAwait, Holding, Key
  <2> QED BY <1>1, <2>1, <2>2, SpendQuiet, SpendDies
<1>4. CASE CrashInLedgerSave(c)
  <2>1. ledger' = [k \in Keys |-> Nothing] /\ lost' = paid /\ UNCHANGED <<now, paid>>
    BY <1>4 DEF CrashInLedgerSave
  <2> QED BY <1>1, <2>1, SpendForgets
<1> QED BY <1>2, <1>3, <1>4

(* Every step of the consumer keeps the spend accounted for. *)
LEMMA SpendNext == ASSUME OneProcess, Inv, SpendInv, [CycleNext]_cycleVars PROVE SpendInv'
<1>1. ASSUME NEW c \in Consumers, Step(c) PROVE SpendInv'
  BY <1>1, SpendSettlement, SpendElsewhere DEF Step, Settlement
<1>2. CASE Resume \/ BondChanges \/ UNCHANGED cycleVars
  BY <1>2, SpendStays DEF Resume, BondChanges, cycleVars, ledgers, chain, local, history
<1> QED BY <1>1, <1>2, SpendTicks DEF CycleNext

\* More of a thing costs more.
LEMMA TimesMonotone == ASSUME NEW n \in Nat, NEW a \in Nat, NEW b \in Nat, a <= b PROVE n * a <= n * b
<1>1. PICK d \in Nat : b = a + d
  <2>1. b - a \in Nat /\ b = a + (b - a) OBVIOUS
  <2> QED BY <2>1
<1>2. n * b = n * a + n * d BY <1>1
<1>3. n * d \in Nat /\ n * a \in Nat OBVIOUS
<1> QED BY <1>2, <1>3

\* What stands in a cell, at n each.
Standing(n) == [x \in Keys \X Times |-> IF paid[x] > lost[x] THEN n ELSE 0]

\* Payments are those that were lost and those that stand.
LEMMA PaidIsLostOrStands ==
    ASSUME SpendInv, NEW n \in Nat, NEW R \in SUBSET (Keys \X Times)
    PROVE  /\ IsFiniteSet(R)
           /\ n * Total(paid, R) <= n * Total(lost, R) + Total(Standing(n), R)
<1>1. IsFiniteSet(Keys \X Times) BY Bounds, FS_Product
<1>2. IsFiniteSet(R) BY <1>1, FS_Subset
<1>3. ASSUME NEW x \in R
      PROVE  /\ paid[x] \in Nat /\ lost[x] \in Nat /\ Standing(n)[x] \in Nat
             /\ n * paid[x] <= n * lost[x] + Standing(n)[x]
  <2>1. paid[x] \in Nat /\ lost[x] \in Nat BY SpendFacts
  <2>2. Standing(n)[x] = IF paid[x] > lost[x] THEN n ELSE 0 BY DEF Standing
  <2>3. CASE paid[x] > lost[x]
    <3>1. PICK k \in Keys, t \in Times : x = <<k, t>> OBVIOUS
    <3>2. Stands(k, t) BY <2>3, <3>1 DEF Stands
    <3>3. paid[x] = lost[x] + 1 BY <3>1, <3>2 DEF SpendInv, PaymentsStand
    <3>4. n * (lost[x] + 1) = n * lost[x] + n BY <2>1
    <3> QED BY <2>1, <2>2, <2>3, <3>3, <3>4
  <2>4. CASE ~(paid[x] > lost[x])
    <3>1. paid[x] <= lost[x] BY <2>1, <2>4
    <3>2. n * paid[x] <= n * lost[x] BY <2>1, <3>1, TimesMonotone
    <3>3. n * paid[x] \in Nat /\ n * lost[x] \in Nat BY <2>1
    <3> QED BY <2>1, <2>2, <2>4, <3>2, <3>3
  <2> QED BY <2>3, <2>4
<1>4. \A x \in R : paid[x] \in Int BY <1>3
<1>5. \A x \in R : lost[x] \in Int BY <1>3
<1>6. \A x \in R : Standing(n)[x] \in Int BY <1>3
<1>7. \A x \in R : n * paid[x] <= n * lost[x] + Standing(n)[x] BY <1>3
<1>8. n * SumFunctionOnSet(paid, R) <= n * SumFunctionOnSet(lost, R) + SumFunctionOnSet(Standing(n), R)
  BY <1>2, <1>4, <1>5, <1>6, <1>7, SumBalance
<1> QED BY <1>2, <1>8 DEF Total

\* Of one key at most one payment stands, and it is backed.
LEMMA OneStands ==
    ASSUME SpendInv, NEW n \in Nat, NEW k \in Keys, NEW R \in SUBSET ({k} \X Times)
    PROVE  \/ Total(Standing(n), R) = 0
           \/ \E t \in Times : <<k, t>> \in R /\ Backed(k, t) /\ Total(Standing(n), R) = n
<1>1. IsFiniteSet({k} \X Times) BY Bounds, FS_Singleton, FS_Product
<1>2. IsFiniteSet(R) BY <1>1, FS_Subset
<1>3. ASSUME NEW x \in R PROVE \E t \in Times : x = <<k, t>> /\ <<k, t>> \in Keys \X Times
  <2>1. x \in {k} \X Times OBVIOUS
  <2> QED BY <2>1
<1>4. ASSUME NEW t \in Times
      PROVE  Standing(n)[<<k, t>>] = IF Stands(k, t) THEN n ELSE 0
  BY DEF Standing, Stands
<1>5. \A x \in R : Standing(n)[x] \in Int BY <1>3, <1>4
<1>6. ASSUME NEW x \in R, NEW y \in R, Standing(n)[x] # 0, Standing(n)[y] # 0 PROVE x = y
  <2>1. PICK t \in Times : x = <<k, t>> BY <1>3
  <2>2. PICK u \in Times : y = <<k, u>> BY <1>3
  <2>3. Stands(k, t) /\ Stands(k, u) BY <1>4, <1>6, <2>1, <2>2
  <2>4. u = t BY <2>3 DEF SpendInv, PaymentsStand
  <2> QED BY <2>1, <2>2, <2>4
<1>7. \/ SumFunctionOnSet(Standing(n), R) = 0
      \/ \E x \in R : Standing(n)[x] # 0 /\ SumFunctionOnSet(Standing(n), R) = Standing(n)[x]
  BY <1>2, <1>5, <1>6, SumSingle
<1>8. ASSUME NEW x \in R, Standing(n)[x] # 0, SumFunctionOnSet(Standing(n), R) = Standing(n)[x]
      PROVE  \E t \in Times : <<k, t>> \in R /\ Backed(k, t) /\ SumFunctionOnSet(Standing(n), R) = n
  <2>1. PICK t \in Times : x = <<k, t>> BY <1>3
  <2>2. Stands(k, t) /\ Standing(n)[x] = n BY <1>4, <1>8, <2>1
  <2>3. Backed(k, t) BY <2>2 DEF SpendInv, PaymentsStand
  <2> QED BY <1>8, <2>1, <2>2, <2>3
<1> QED BY <1>7, <1>8 DEF Total

\* Each standing payment of a window has its entry in the ledger's window, or
\* is the one the process holds.
LEMMA StandingFits ==
    ASSUME OneProcess, SpendInv, NEW w \in Nat, NEW cap \in Nat, Fits(w, cap)
    PROVE  Total(Standing(Price), Recent(w)) \in Int /\ Total(Standing(Price), Recent(w)) <= cap
<1> DEFINE R == Recent(w)
           h == Standing(Price)
           Held(k) == \E c \in Consumers : Holding(c) /\ task[c].key = k
           owed == [k \in Keys |-> IF Held(k) THEN Price ELSE Counted(ledger[k], w, now)]
           part == [k \in Keys |-> {x \in R : x[1] = k}]
           F == Counts(ledger, w, now)
<1>0. now \in Nat /\ Entries(ledger, now) /\ IsFiniteSet(Keys) /\ Price \in Nat /\ Price > 0 /\ Times \subseteq Nat
  BY SpendFacts, Bounds
<1>1. R \in SUBSET (Keys \X Times) BY DEF Recent
<1>2. IsFiniteSet(R) BY <1>0, <1>1, PaidIsLostOrStands
<1>3. \A x \in R : h[x] \in Int BY <1>0, <1>1 DEF Standing
<1>4. Partition(part, Keys, R)
  <2>1. part \in [Keys -> SUBSET R] OBVIOUS
  <2>2. \A k, l \in Keys : k # l => part[k] \cap part[l] = {} OBVIOUS
  <2>3. ASSUME NEW x \in R PROVE \E k \in Keys : x \in part[k]
    <3>1. x \in Keys \X Times BY <1>1
    <3>2. x[1] \in Keys BY <3>1
    <3> QED BY <3>2
  <2>4. UNION {part[k] : k \in Keys} = R
    <3>1. \A x \in UNION {part[k] : k \in Keys} : x \in R OBVIOUS
    <3> HIDE DEF part, R
    <3> QED BY <2>3, <3>1
  <2> HIDE DEF part, R
  <2> QED BY <1>0, <1>2, <2>1, <2>2, <2>4 DEF Partition
<1>5. \A k \in Keys : F[k] \in {0, Price} /\ (~Held(k) => owed[k] = F[k]) /\ (Held(k) => owed[k] = Price)
  <2> SUFFICES ASSUME NEW k \in Keys
               PROVE  F[k] \in {0, Price} /\ (~Held(k) => owed[k] = F[k]) /\ (Held(k) => owed[k] = Price)
    OBVIOUS
  <2>1. F[k] = Counted(ledger[k], w, now) BY DEF Counts
  <2>2. IsEntry(ledger[k], now) BY <1>0 DEF Entries
  <2>3. F[k] \in {0, Price} BY <1>0, <2>1, <2>2, CountedType
  <2> HIDE DEF F, Held
  <2> QED BY <2>1, <2>3
<1>6. ASSUME NEW k \in Keys PROVE SumFunctionOnSet(h, part[k]) \in Int /\ SumFunctionOnSet(h, part[k]) <= owed[k]
  <2>1. part[k] \in SUBSET ({k} \X Times) BY <1>1
  <2>2. part[k] \subseteq Recent(w) OBVIOUS
  <2>3. owed[k] \in {0, Price}
    <3> HIDE DEF owed, Held, F
    <3> QED BY <1>5
  <2> HIDE DEF part, owed, F, Held
  <2>4. \/ Total(h, part[k]) = 0
        \/ \E t \in Times : <<k, t>> \in part[k] /\ Backed(k, t) /\ Total(h, part[k]) = Price
    BY <1>0, <2>1, OneStands
  <2>5. ASSUME NEW t \in Times, <<k, t>> \in part[k], Backed(k, t) PROVE owed[k] = Price
    <3>1. CASE Held(k) BY <1>5, <3>1
    <3>2. CASE ~Held(k)
      <4>1. ledger[k].settled /\ ledger[k].amount = Price /\ t <= ledger[k].at BY <2>5, <3>2 DEF Backed, Held
      <4>2. <<k, t>> \in Recent(w) BY <2>2, <2>5
      <4>3. now - t <= w BY <4>2 DEF Recent
      <4>4. IsEntry(ledger[k], now) /\ t \in Nat BY <1>0 DEF Entries
      <4>5. now - ledger[k].at <= w BY <1>0, <4>1, <4>3, <4>4 DEF IsEntry
      <4>6. F[k] = Price BY <4>1, <4>5 DEF F, Counts, Counted
      <4> QED BY <1>5, <3>2, <4>6
    <3> QED BY <3>1, <3>2
  <2>6. \/ SumFunctionOnSet(h, part[k]) = 0
        \/ owed[k] = Price /\ SumFunctionOnSet(h, part[k]) = Price
    BY <2>4, <2>5 DEF Total
  <2> HIDE DEF h
  <2> QED BY <1>0, <2>3, <2>6
<1>7. SumByParts(h, part, Keys) = SumFunctionOnSet(h, R)
  <2> HIDE DEF h, part, R
  <2> QED BY <1>3, <1>4, SumPartition
<1>8. SumByParts(h, part, Keys) <= SumFunctionOnSet(owed, Keys)
  <2> DEFINE g == [k \in Keys |-> SumFunctionOnSet(h, part[k])]
  <2>1. ASSUME NEW k \in Keys PROVE g[k] \in Int /\ owed[k] \in Int /\ g[k] <= owed[k]
    <3>1. owed[k] \in {0, Price}
      <4> HIDE DEF owed, Held, F
      <4> QED BY <1>5
    <3> HIDE DEF h, part, owed
    <3> QED BY <1>0, <1>6, <3>1
  <2>2. SumByParts(h, part, Keys) = SumFunctionOnSet(g, Keys) BY DEF SumByParts
  <2> HIDE DEF g, owed
  <2>3. SumFunctionOnSet(g, Keys) <= SumFunctionOnSet(owed, Keys) BY <1>0, <2>1, SumMonotone
  <2> QED BY <2>2, <2>3
<1>9. SumFunctionOnSet(owed, Keys) \in Int /\ SumFunctionOnSet(owed, Keys) <= cap
  <2>1. RollingSpend(ledger, w) = SumFunctionOnSet(F, Keys) BY SpendNow DEF SpendAt
  <2>2. RollingSpend(ledger, w) \in Int BY SpendFacts
  <2> HIDE DEF F, owed, Held
  <2>3. CASE \A k \in Keys : ~Held(k)
    <3>1. \A k \in Keys : owed[k] = F[k] BY <1>5, <2>3
    <3>2. SumFunctionOnSet(owed, Keys) = SumFunctionOnSet(F, Keys) BY <1>0, <3>1, SumSame
    <3> QED BY <2>1, <2>2, <3>2 DEF Fits
  <2>4. CASE \E k \in Keys : Held(k)
    <3>1. PICK z \in Keys : Held(z) BY <2>4
    <3>2. PICK c \in Consumers : Holding(c) /\ task[c].key = z BY <3>1 DEF Held
    <3>3. \A k \in Keys \ {z} : ~Held(k) BY <3>2 DEF Held, OneProcess
    <3>4. ~ledger[z].settled BY <3>2 DEF SpendInv, HoldsCopy, Holding, Settling
    <3>5. F[z] = 0 /\ owed[z] = Price BY <1>5, <3>1, <3>4 DEF F, Counts, Counted
    <3>6. \A k \in Keys \ {z} : owed[k] = F[k] BY <1>5, <3>3
    <3>7. \A k \in Keys : F[k] \in Int /\ owed[k] \in Int BY <1>0, <1>5, <3>5, <3>6
    <3>8. SumFunctionOnSet(owed, Keys) = SumFunctionOnSet(F, Keys) - F[z] + owed[z]
      BY <1>0, <3>6, <3>7, SumChange
    <3>9. RollingSpend(ledger, w) + Price <= cap BY <3>2 DEF Fits, Reserved
    <3> QED BY <1>0, <2>1, <2>2, <3>5, <3>8, <3>9
  <2> QED BY <2>3, <2>4
<1>10. SumFunctionOnSet(h, R) \in Int
  <2> HIDE DEF h, R
  <2> QED BY <1>2, <1>3, SumIsInt
<1> HIDE DEF h, R, owed, part
<1>11. SumFunctionOnSet(h, R) <= cap BY <1>7, <1>8, <1>9, <1>10
<1> QED BY <1>10, <1>11 DEF Total, h, R

\* The invariant holds of every behaviour of one process.
THEOREM SpendIsAccounted == ASSUME OneProcess PROVE CycleSpec => [](Inv /\ SpendInv)
<1>1. CycleInit => Inv /\ SpendInv BY InitStep, SpendInit
<1>2. Inv /\ SpendInv /\ [CycleNext]_cycleVars => (Inv /\ SpendInv)' BY NextStep, SpendNext
<1> QED BY <1>1, <1>2, PTL DEF CycleSpec

\* SpendIsCapped for any services, prices, windows and caps: with one process
\* at a time the circuit breaker of settlement.js bounds what is paid in each
\* rolling window, on top of what a crash or a lost answer kept from the
\* ledger, across restarts, resumes and however slow payments are.
THEOREM SpendStaysCapped == ASSUME OneProcess PROVE CycleSpec => []SpendIsCapped
<1>1. ASSUME SpendInv, NEW w \in Nat, NEW cap \in Nat, Fits(w, cap)
      PROVE  Price * Total(paid, Recent(w)) <= cap + Price * Total(lost, Recent(w))
  <2> DEFINE R == Recent(w)
  <2>1. R \in SUBSET (Keys \X Times) BY DEF Recent
  <2> HIDE DEF R
  <2>2. /\ IsFiniteSet(R)
        /\ Price * Total(paid, R) <= Price * Total(lost, R) + Total(Standing(Price), R)
    <3>1. Price \in Nat BY Bounds
    <3> QED BY <1>1, <2>1, <3>1, PaidIsLostOrStands, Zenon
  <2>3. Total(Standing(Price), R) \in Int /\ Total(Standing(Price), R) <= cap BY <1>1, StandingFits DEF R
  <2>4. \A x \in R : paid[x] \in Int BY <1>1, <2>1, SpendFacts
  <2>5. \A x \in R : lost[x] \in Int BY <1>1, <2>1, SpendFacts
  <2>6. Total(paid, R) \in Int /\ Total(lost, R) \in Int BY <2>2, <2>4, <2>5, SumIsInt DEF Total
  <2>7. Price * Total(paid, R) \in Int /\ Price * Total(lost, R) \in Int BY <2>6, Bounds
  <2>8. Price * Total(paid, R) <= cap + Price * Total(lost, R) BY <1>1, <2>2, <2>3, <2>7
  <2> QED BY <2>8 DEF R
<1>2. SpendInv => SpendIsCapped
  <2> SUFFICES ASSUME SpendInv PROVE SpendIsCapped OBVIOUS
  <2>1. Fits(Minute, CapPerMinute) /\ Fits(Hour, CapPerHour) BY DEF SpendInv
  <2>2. /\ Price * Total(paid, Recent(Minute)) <= CapPerMinute + Price * Total(lost, Recent(Minute))
        /\ Price * Total(paid, Recent(Hour)) <= CapPerHour + Price * Total(lost, Recent(Hour))
    <3>1. Minute \in Nat /\ CapPerMinute \in Nat /\ Hour \in Nat /\ CapPerHour \in Nat BY Bounds
    <3>2. Price * Total(paid, Recent(Minute)) <= CapPerMinute + Price * Total(lost, Recent(Minute))
      BY <1>1, <2>1, <3>1, Zenon
    <3>3. Price * Total(paid, Recent(Hour)) <= CapPerHour + Price * Total(lost, Recent(Hour))
      BY <1>1, <2>1, <3>1, Zenon
    <3> QED BY <3>2, <3>3
  <2>3. ASSUME NEW limit \in {<<Minute, CapPerMinute>>, <<Hour, CapPerHour>>}
        PROVE  \/ limit[1] = Minute /\ limit[2] = CapPerMinute
               \/ limit[1] = Hour /\ limit[2] = CapPerHour
    OBVIOUS
  <2> QED BY <2>2, <2>3 DEF SpendIsCapped
<1> QED BY <1>2, SpendIsAccounted, PTL

\* PaidOncePerInteraction for any services, caps, crashes and torn ledgers: with
\* one process at a time the dedupe of executeSettlement pays an interaction
\* again only after a payment for it was lost before it reached the ledger.
THEOREM PaymentsAreDeduped == ASSUME OneProcess PROVE CycleSpec => []PaidOncePerInteraction
<1>1. SpendInv => PaidOncePerInteraction
  <2> SUFFICES ASSUME SpendInv, NEW k \in Keys PROVE Total(paid, Cells(k)) <= 1 + Total(lost, Cells(k))
    BY DEF PaidOncePerInteraction
  <2> DEFINE R == Cells(k)
  <2>1. R \in SUBSET (Keys \X Times) /\ R \in SUBSET ({k} \X Times) BY DEF Cells
  <2> HIDE DEF R
  <2>2. IsFiniteSet(R) /\ 1 * Total(paid, R) <= 1 * Total(lost, R) + Total(Standing(1), R)
    BY <2>1, PaidIsLostOrStands
  <2>3. Total(Standing(1), R) = 0 \/ Total(Standing(1), R) = 1 BY <2>1, OneStands
  <2>4. \A x \in R : paid[x] \in Int BY <2>1, SpendFacts
  <2>5. \A x \in R : lost[x] \in Int BY <2>1, SpendFacts
  <2>6. Total(paid, R) \in Int /\ Total(lost, R) \in Int BY <2>2, <2>4, <2>5, SumIsInt DEF Total
  <2>7. Total(paid, R) <= 1 + Total(lost, R) BY <2>2, <2>3, <2>6
  <2> QED BY <2>7 DEF R
<1> QED BY <1>1, SpendIsAccounted, PTL
================================================================================
