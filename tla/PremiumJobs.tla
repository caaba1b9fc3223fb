----------------------------- MODULE PremiumJobs -----------------------------
(***************************************************************************)
(* The premium analyses of the oracle server and the script that sells one  *)
(* through the ERC-8183 escrow contract.  The server keeps what it signed   *)
(* in a bounded map by job id; POST is open, so anyone may have an analysis *)
(* made for any id, again and again.  The script submits the hash POST      *)
(* answered as deliverable, fetches the analysis back as evaluator, and     *)
(* completes the job or rejects it; a hard breach also slashes the bond of  *)
(* the oracle.                                                             *)
(*                                                                         *)
(* An operator that no other definition uses is a mutant of the first used  *)
(* definition after it.                                                    *)
(***************************************************************************)
EXTENDS Integers, Sequences

CONSTANTS
    PremiumIds,         \* job ids of the escrow contract, one run of the script each
    ForeignIds,         \* other ids POST is called with
    MaxAnalyses,        \* MAX_PREMIUM_ANALYSES
    MaxAge,             \* MAX_ANALYSIS_AGE_SECONDS in ticks
    MaxPosts,           \* bound: POSTs
    MaxPremiumTime      \* bound: last value of the clock

AnalysisIds == PremiumIds \cup ForeignIds

ASSUME PremiumAssumption ==
    /\ MaxAnalyses \in Nat \ {0}
    /\ MaxAge \in Nat /\ MaxPosts \in Nat /\ MaxPremiumTime \in Nat

VARIABLES
    premiumClock,
    premiumAnalyses,    \* the map: analyses in the order their ids were inserted
    posts,              \* POSTs so far: no two analyses hash alike
    escrow,             \* AgenticCommerce: per job its status and deliverable
    script,             \* per job the run of the script
    bonded,             \* isActiveBondedAgent(oracle)
    inserted,           \* history: ids inserted since the server started
    replaced            \* history: jobs stored again after the script's own POST

premiumVars == <<premiumClock, premiumAnalyses, posts, escrow, script, bonded,
                 inserted, replaced>>
oracleMap == <<premiumAnalyses, posts, inserted, replaced>>

NoAnalysis == [job |-> "none", hash |-> 0, at |-> 0, good |-> FALSE]
NewScript(fault) ==
    [pc |-> "start", fault |-> fault, hash |-> 0, seen |-> NoAnalysis, verdict |-> "none"]
DeadScript == [NewScript(FALSE) EXCEPT !.pc = "dead"]

\* The script's run j goes from one of its awaits to the next.
Goes(j, from, to) == script[j].pc = from /\ script' = [script EXCEPT ![j].pc = to]

-----------------------------------------------------------------------------
\* The oracle server.

StoredIds == {premiumAnalyses[i].job : i \in DOMAIN premiumAnalyses}

\* setPremiumAnalysis: an id that is set again keeps its place; a new one
\* goes last, and the first goes when the map is full.
StoredEvictingAlways(a) ==
    LET kept == IF Len(premiumAnalyses) >= MaxAnalyses
                THEN Tail(premiumAnalyses) ELSE premiumAnalyses IN
    IF \E i \in DOMAIN kept : kept[i].job = a.job
    THEN [i \in DOMAIN kept |-> IF kept[i].job = a.job THEN a ELSE kept[i]]
    ELSE Append(kept, a)
Stored(a) ==
    IF a.job \in StoredIds
    THEN [i \in DOMAIN premiumAnalyses |->
             IF premiumAnalyses[i].job = a.job THEN a ELSE premiumAnalyses[i]]
    ELSE Append(IF Len(premiumAnalyses) >= MaxAnalyses
                THEN Tail(premiumAnalyses) ELSE premiumAnalyses, a)

\* POST: the awaited signature is made on the spot, so no other handler runs
\* before the analysis is stored.
PostAnalysis(id, good) ==
    /\ posts < MaxPosts
    /\ posts' = posts + 1
    /\ premiumAnalyses' = Stored([job |-> id, hash |-> posts', at |-> premiumClock, good |-> good])
    /\ inserted' = IF id \in StoredIds THEN inserted ELSE Append(inserted, id)

\* What is stored for a foreign id no script reads, so one outcome will do.
StrangerPosts(id, good) ==
    /\ id \in ForeignIds => good
    /\ PostAnalysis(id, good)
    /\ replaced' = IF id \in PremiumIds /\ script[id].hash # 0 THEN replaced \cup {id} ELSE replaced
    /\ UNCHANGED <<premiumClock, escrow, script, bonded>>

\* The server restarts, and the map is empty.
RestartOracle ==
    /\ premiumAnalyses # <<>>
    /\ premiumAnalyses' = <<>> /\ inserted' = <<>>
    /\ UNCHANGED <<premiumClock, posts, escrow, script, bonded, replaced>>

-----------------------------------------------------------------------------
\* The script, one step per await.

\* The escrow contract moves job j on.
Escrow(j, from, to) == escrow[j].status = from /\ escrow' = [escrow EXCEPT ![j].status = to]

\* createJob, setBudget, approve and fund: nothing of them meets the server.
FundJob(j) ==
    /\ Goes(j, "start", "post") /\ Escrow(j, "none", "Funded")
    /\ UNCHANGED <<premiumClock, oracleMap, bonded>>

RequestAnalysis(j) ==
    /\ script[j].pc = "post"
    /\ PostAnalysis(j, ~script[j].fault)
    /\ script' = [script EXCEPT ![j].pc = "submit", ![j].hash = posts']
    /\ UNCHANGED <<premiumClock, escrow, bonded, replaced>>

Submit(j) ==
    /\ Goes(j, "submit", "fetch")
    /\ escrow[j].status = "Funded"
    /\ escrow' = [escrow EXCEPT ![j] = [status |-> "Submitted", deliverable |-> script[j].hash]]
    /\ UNCHANGED <<premiumClock, oracleMap, bonded>>

\* What GET answers: the analysis stored for the id now.
ServedAnew(j) ==
    {[premiumAnalyses[i] EXCEPT !.hash = posts + 1] : i \in DOMAIN premiumAnalyses}
Served(j) ==
    {premiumAnalyses[i] : i \in {n \in DOMAIN premiumAnalyses : premiumAnalyses[n].job = j}}

\* The checks that need no chain, in the script's order of weight.
Verdict(j, a) ==
    IF a.hash # script[j].hash \/ ~a.good THEN "hard"
    ELSE IF premiumClock - a.at > MaxAge THEN "stale" ELSE "ok"

FetchAnalysis(j) ==
    /\ script[j].pc = "fetch"
    /\ \E a \in Served(j) :
          script' = [script EXCEPT ![j] = [@ EXCEPT !.pc = "readBond", !.seen = a,
                                                    !.verdict = Verdict(j, a)]]
    /\ UNCHANGED <<premiumClock, oracleMap, escrow, bonded>>

ReadBond(j) ==
    /\ Goes(j, "readBond", IF script[j].verdict = "ok" /\ bonded THEN "complete" ELSE "reject")
    /\ UNCHANGED <<premiumClock, oracleMap, escrow, bonded>>

Complete(j) ==
    /\ Goes(j, "complete", "done") /\ Escrow(j, "Submitted", "Completed")
    /\ UNCHANGED <<premiumClock, oracleMap, bonded>>

Reject(j) ==
    /\ Goes(j, "reject", IF script[j].verdict = "hard" THEN "slash" ELSE "done")
    /\ Escrow(j, "Submitted", "Rejected")
    /\ UNCHANGED <<premiumClock, oracleMap, bonded>>

\* bond.slash reverts unless the bond is active; it may take all of it.
SlashOracle(j) ==
    /\ bonded
    /\ Goes(j, "slash", "slashed")
    /\ bonded' \in BOOLEAN
    /\ UNCHANGED <<premiumClock, oracleMap, escrow>>

\* Any await may throw (a revert, the oracle server down, a 404 whose body
\* has no fields), and main() ends there.
ScriptDies(j) ==
    /\ script[j].pc \notin {"start", "done", "slashed", "dead"}
    /\ script' = [script EXCEPT ![j] = DeadScript]
    /\ UNCHANGED <<premiumClock, oracleMap, escrow, bonded>>

-----------------------------------------------------------------------------
\* Everybody else's deposits and slashes, and time.

BondChanges ==
    /\ bonded' = ~bonded
    /\ UNCHANGED <<premiumClock, oracleMap, escrow, script>>

PremiumTick ==
    /\ premiumClock < MaxPremiumTime
    /\ premiumClock' = premiumClock + 1
    /\ UNCHANGED <<oracleMap, escrow, script, bonded>>

PremiumInit ==
    /\ premiumClock = 0
    /\ premiumAnalyses = <<>> /\ posts = 0
    /\ escrow = [j \in PremiumIds |-> [status |-> "none", deliverable |-> 0]]
    /\ \E fault \in [PremiumIds -> BOOLEAN] : script = [j \in PremiumIds |-> NewScript(fault[j])]
    /\ bonded = TRUE
    /\ inserted = <<>> /\ replaced = {}

PremiumScript(j) ==
    \/ FundJob(j) \/ RequestAnalysis(j) \/ Submit(j) \/ FetchAnalysis(j) \/ ReadBond(j)
    \/ Complete(j) \/ Reject(j) \/ SlashOracle(j) \/ ScriptDies(j)

PremiumNext ==
    \/ \E id \in AnalysisIds, good \in BOOLEAN : StrangerPosts(id, good)
    \/ RestartOracle
    \/ \E j \in PremiumIds : PremiumScript(j)
    \/ BondChanges \/ PremiumTick

PremiumSpec == PremiumInit /\ [][PremiumNext]_premiumVars

-----------------------------------------------------------------------------
\* Properties.

PremiumTypeOK ==
    /\ premiumClock \in 0..MaxPremiumTime
    /\ posts \in 0..MaxPosts
    /\ bonded \in BOOLEAN
    /\ replaced \subseteq PremiumIds

\* Whoever POSTs for the ids of a sale, and however often the server evicts
\* or restarts, the escrow pays only for the analysis whose hash is the
\* deliverable, made for that job and signed by the oracle; and a hard breach,
\* for which the oracle's bond is slashed, is found only if the script asked
\* for a bad signature or if somebody had the analysis made again after the
\* script's own request, as the next property shows somebody can
\* (POST and GET /api/premium-analysis, demo-erc8183-job.js:178-190).
SalesAreJust ==
    \A j \in PremiumIds :
        /\ escrow[j].status = "Completed" =>
              /\ script[j].seen.hash = escrow[j].deliverable
              /\ script[j].seen.job = j /\ script[j].seen.good
        /\ script[j].verdict = "hard" => script[j].fault \/ j \in replaced

\* What index.js:265-267 says: an analysis is kept by job id so that what was
\* hashed for the submission is "the EXACT same payload later served to the
\* evaluator".  Refuted: POST makes a new one for any id anybody names, and an
\* oracle that answered honestly is found in hard breach.
EvaluatorGetsWhatWasSubmitted ==
    \A j \in PremiumIds : script[j].seen.job = j => script[j].seen.hash = escrow[j].deliverable

\* The last MaxAnalyses ids inserted since the start are all served: storing
\* an id again evicts nobody (setPremiumAnalysis).
RecentAnalysesAreServed ==
    \A i \in DOMAIN inserted : Len(inserted) - i < MaxAnalyses => inserted[i] \in StoredIds
=============================================================================
