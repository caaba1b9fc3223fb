----------------------------- MODULE Acquisition -----------------------------
(***************************************************************************)
(* The acquisition server and the form that drives it.  The form POSTs a    *)
(* brief and a budget; the server rations requests by address, answers with *)
(* a job id and runs the job on its own: one judgment per track, a choice   *)
(* within the budget, the settlement on the training rail (which is         *)
(* TrainingCompensation's).  The form polls the job on an interval and does *)
(* not wait for one answer before it asks again; answers come late and out  *)
(* of order.  Jobs and rations are in memory, and a restart loses them.     *)
(*                                                                         *)
(* A request and the job it starts have one number; number 0 is none.  An   *)
(* operator that no other definition uses is a mutant of the first used     *)
(* definition after it.                                                    *)
(***************************************************************************)
EXTENDS Integers, FiniteSets

CONSTANTS
    TrackCount,         \* tracks of the catalog
    PricePerTrack, Budget,
    RateMax, RateWindow,        \* RATE_LIMIT_MAX, RATE_LIMIT_WINDOW_MS in ticks
    MaxRequests,        \* bound: clicks on the form
    MaxAnswers,         \* bound: poll answers in flight
    MaxAcquisitionTime  \* bound: last value of the clock

Requests == 1..MaxRequests

ASSUME AcquisitionAssumption ==
    /\ TrackCount \in Nat \ {0} /\ PricePerTrack \in Nat \ {0} /\ Budget \in Nat \ {0}
    /\ RateMax \in Nat \ {0} /\ RateWindow \in Nat \ {0}
    /\ MaxRequests \in Nat /\ MaxAnswers \in Nat /\ MaxAcquisitionTime \in Nat

VARIABLES
    acqClock,
    hits,               \* hitsByIp of the form's address: count, windowStart
    request,            \* per request: "idle", "sent", "accepted", "refused" or "over"
    job,                \* jobs: per request the state of its job
    shown,              \* the form's job: whose, and its status
    pollRef, intervals, \* the interval the form would clear, those that fire
    answers,            \* poll answers on their way to the form
    admittedAt          \* history: when checkRateLimit let a request pass, or -1

acquisitionVars == <<acqClock, hits, request, job, shown, pollRef, intervals, answers, admittedAt>>
form == <<shown, pollRef, intervals, answers>>

NoHits  == [count |-> 0, start |-> 0]
NoJob   == [status |-> "none", judged |-> 0, fitting |-> 0]
Nothing == [job |-> 0, status |-> "none"]
Final   == {"done", "error", "no_selection"}

-----------------------------------------------------------------------------
\* The server: POST /api/acquire.

\* checkRateLimit, a fixed window that starts with its first request.
AllowedPastMax == hits.count <= RateMax
Allowed == hits.count < RateMax
WindowOver == hits = NoHits \/ acqClock - hits.start >= RateWindow

Admit(k) ==
    /\ request[k] = "sent"
    /\ WindowOver \/ Allowed
    /\ hits' = IF WindowOver THEN [count |-> 1, start |-> acqClock]
               ELSE [hits EXCEPT !.count = @ + 1]
    /\ admittedAt' = [admittedAt EXCEPT ![k] = acqClock]
    /\ request' = [request EXCEPT ![k] = "accepted"]
    /\ job' = [job EXCEPT ![k].status = "evaluating"]
    /\ UNCHANGED <<acqClock, form>>

Refuse(k) ==
    /\ request[k] = "sent"
    /\ ~WindowOver /\ ~Allowed
    /\ request' = [request EXCEPT ![k] = "refused"]
    /\ UNCHANGED <<acqClock, hits, job, form, admittedAt>>

-----------------------------------------------------------------------------
\* The server: runJob.

JobGoes(k, from, to) ==
    /\ job[k].status = from
    /\ job' = [job EXCEPT ![k].status = to]
    /\ UNCHANGED <<acqClock, hits, request, form, admittedAt>>

\* evaluateFit: one call of the model per track, which may find anything.
EvaluateFit(k) ==
    /\ job[k].status = "evaluating" /\ job[k].judged < TrackCount
    /\ \E fits \in {0, 1} :
          job' = [job EXCEPT ![k].judged = @ + 1, ![k].fitting = @ + fits]
    /\ UNCHANGED <<acqClock, hits, request, form, admittedAt>>

\* selectTracks: of the tracks that fit, the first the budget can pay.
Affordable == Budget \div PricePerTrack
Selected(k) == IF job[k].fitting < Affordable THEN job[k].fitting ELSE Affordable

SelectTracks(k) ==
    /\ job[k].judged = TrackCount
    /\ JobGoes(k, "evaluating", IF Selected(k) = 0 THEN "no_selection" ELSE "settling")

SettleSelection(k) == JobGoes(k, "settling", "done")

\* A judgment or a step of the settlement throws, and the job says so.
FailsUnseen(k) ==
    \E status \in {"evaluating", "settling"} : JobGoes(k, status, "adrift")
JobFails(k) ==
    \E status \in {"evaluating", "settling"} : JobGoes(k, status, "error")

RestartAcquisition ==
    /\ hits # NoHits
    /\ hits' = NoHits
    /\ admittedAt' = [k \in Requests |-> -1]
    /\ job' = [k \in Requests |-> IF job[k] = NoJob THEN NoJob ELSE [NoJob EXCEPT !.status = "gone"]]
    /\ UNCHANGED <<acqClock, request, form>>

-----------------------------------------------------------------------------
\* The form.

Running == shown # Nothing /\ shown.status \notin Final

\* The button is disabled while the job shown runs; the click clears it, so
\* the button works again until the answer is there.
ClickSubmit(k) ==
    /\ request[k] = "idle" /\ \A i \in 1..(k - 1) : request[i] # "idle"
    /\ ~Running
    /\ shown' = Nothing
    /\ request' = [request EXCEPT ![k] = "sent"]
    /\ UNCHANGED <<acqClock, hits, job, pollRef, intervals, answers, admittedAt>>

\* stopPolling: what pollRef names does not fire again.
Stopped == intervals \ {pollRef}

StartInterval(k) == intervals' = intervals \cup {k} /\ pollRef' = k
RestartInterval(k) == intervals' = Stopped \cup {k} /\ pollRef' = k

ReadAccepted(k) ==
    /\ request[k] = "accepted"
    /\ request' = [request EXCEPT ![k] = "over"]
    /\ shown' = [job |-> k, status |-> "evaluating"]
    /\ RestartInterval(k)
    /\ UNCHANGED <<acqClock, hits, job, answers, admittedAt>>

\* A refusal is shown as an error, as is a request or an answer that is lost;
\* an interval that fires goes on firing.
ReadError(k) ==
    /\ request[k] \in {"sent", "accepted", "refused"}
    /\ request' = [request EXCEPT ![k] = "over"]
    /\ UNCHANGED <<acqClock, hits, job, form, admittedAt>>

PollJob(k) ==
    /\ k \in intervals
    /\ Cardinality(answers) < MaxAnswers
    /\ answers' = answers \cup {[job |-> k, status |-> job[k].status]}
    /\ UNCHANGED <<acqClock, hits, request, job, shown, pollRef, intervals, admittedAt>>

\* Whatever answer comes is shown; one with a final status stops the polling,
\* whichever job it is of.  A job the server lost has no status.
ReadAnswer(a) ==
    /\ a \in answers
    /\ answers' = answers \ {a}
    /\ shown' = a
    /\ IF a.status \in Final THEN intervals' = Stopped /\ pollRef' = 0
       ELSE UNCHANGED <<pollRef, intervals>>
    /\ UNCHANGED <<acqClock, hits, request, job, admittedAt>>

LoseAnswer(a) ==
    /\ a \in answers
    /\ answers' = answers \ {a}
    /\ UNCHANGED <<acqClock, hits, request, job, shown, pollRef, intervals, admittedAt>>

AcquisitionTick ==
    /\ acqClock < MaxAcquisitionTime
    /\ acqClock' = acqClock + 1
    /\ UNCHANGED <<hits, request, job, form, admittedAt>>

-----------------------------------------------------------------------------
AcquisitionInit ==
    /\ acqClock = 0
    /\ hits = NoHits
    /\ request = [k \in Requests |-> "idle"]
    /\ job = [k \in Requests |-> NoJob]
    /\ shown = Nothing
    /\ pollRef = 0 /\ intervals = {} /\ answers = {}
    /\ admittedAt = [k \in Requests |-> -1]

RunJob(k) == EvaluateFit(k) \/ SelectTracks(k) \/ SettleSelection(k) \/ JobFails(k)

AcquisitionNext ==
    \/ \E k \in Requests :
          \/ Admit(k) \/ Refuse(k) \/ EvaluateFit(k) \/ SelectTracks(k) \/ SettleSelection(k) \/ JobFails(k)
          \/ ClickSubmit(k) \/ ReadAccepted(k) \/ ReadError(k) \/ PollJob(k)
    \/ \E a \in answers : ReadAnswer(a) \/ LoseAnswer(a)
    \/ RestartAcquisition \/ AcquisitionTick

\* Every judgment and every step of a settlement returns or throws.
AcquisitionFairness == \A k \in Requests : WF_acquisitionVars(RunJob(k))

AcquisitionSpec == AcquisitionInit /\ [][AcquisitionNext]_acquisitionVars /\ AcquisitionFairness

-----------------------------------------------------------------------------
\* Properties.

AcquisitionTypeOK ==
    /\ acqClock \in 0..MaxAcquisitionTime
    /\ hits \in [count: 0..RateMax, start: 0..acqClock]
    /\ request \in [Requests -> {"idle", "sent", "accepted", "refused", "over"}]
    /\ job \in [Requests -> [status: {"none", "evaluating", "settling", "gone"} \cup Final,
                          judged: 0..TrackCount, fitting: 0..TrackCount]]
    /\ shown \in [job: 0..MaxRequests, status: {"none", "evaluating", "settling", "gone"} \cup Final]
    /\ pollRef \in 0..MaxRequests
    /\ intervals \subseteq Requests
    /\ answers \subseteq [job: Requests, status: {"evaluating", "settling", "gone"} \cup Final]
    /\ admittedAt \in [Requests -> -1..acqClock]

\* In any stretch of a window's length fewer than twice RateMax requests are
\* let pass, wherever the windows begin: the ration the server states holds
\* for its own windows, and this is what it comes to for any (checkRateLimit).
RequestsAreRationed ==
    \A t \in 0..MaxAcquisitionTime :
        Cardinality({k \in Requests : admittedAt[k] \in t..(t + RateWindow - 1)}) <= 2 * RateMax - 1

\* However clicks, answers and refusals cross, no interval fires that the
\* form could not clear: it never polls two jobs (stopPolling, pollRef).
NoIntervalIsLeaked == intervals \subseteq {pollRef}

\* Every job that was accepted comes to an end that a poll can tell, unless
\* the server restarts: no failure leaves it running (runJob).
AcceptedJobsEnd ==
    \A k \in Requests : job[k].status = "evaluating" ~> job[k].status \in Final \cup {"gone"}
=============================================================================
