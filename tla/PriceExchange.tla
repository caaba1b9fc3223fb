---------------------------- MODULE PriceExchange ----------------------------
(***************************************************************************)
(* The paid exchange between consumers and the oracle server, up to the     *)
(* verdict and its publication: the 402 handshake, the admission of the     *)
(* caller, the fault modes, the mechanical Tier 1 checks with their cached  *)
(* attestation, the Tier 2 adjudicator, the act a verdict leads to, the     *)
(* verdict feed with its counters, and the two expensive admin routes under *)
(* one cooldown.  What an act does to the bond and to the payment, and why  *)
(* it may fail, is SlashPipeline and ConsumerCycle.                         *)
(*                                                                         *)
(* A price is "price", or "absurd" as in the bad-price fault; a signature   *)
(* is good, bad or null.  The model adjudicator may say anything.           *)
(*                                                                         *)
(* An operator that no other definition uses is a mutant of the definition  *)
(* right after it.                                                          *)
(***************************************************************************)
EXTENDS Integers, Sequences, FiniteSets, FiniteSetsExt

CONSTANTS
    Consumers,          \* consumer processes, by wallet
    Oracle,             \* ORACLE_WALLET_ADDRESS
    NoOne,              \* no fault, no consumer
    Flags,              \* values of --fault the consumers may be started with
    RequireRegistered,  \* REQUIRE_REGISTERED_CALLER of the server
    RegistrySet,        \* whether REGISTRY_ADDRESS is set
    MaxAge,             \* MAX_AGE_SECONDS
    FaultAge,           \* how far the stale fault dates a response back
    MaxVerdicts,        \* MAX_VERDICTS
    Cooldown,           \* EXPENSIVE_COOLDOWN_MS
    MaxCycles,          \* bound: cycles the consumers start
    MaxPosted,          \* bound: verdicts strangers post
    MaxTime             \* bound: last value of the clock

Faults   == {"stale", "null", "bad-sig", "bad-price"}
Outcomes == {"ok", "breach", "uncertain"}
Tiers    == {"deterministic", "semantic"}

\* A record of the feed, as far as the counters tell records apart: a verdict
\* that is none of the three, and a tier that is missing or neither of the two,
\* are in the feed all the same.
Entries == [verdict: Outcomes \cup {"other"}, tier: Tiers \cup {"none"}]

ASSUME ExchangeAssumption ==
    /\ Oracle \notin Consumers /\ NoOne \notin Consumers
    /\ Flags \subseteq Faults \cup {NoOne} /\ NoOne \notin Faults
    /\ RequireRegistered \in BOOLEAN /\ RegistrySet \in BOOLEAN
    /\ MaxAge \in Nat /\ FaultAge \in Nat /\ FaultAge > MaxAge
    /\ MaxVerdicts \in Nat \ {0} /\ Cooldown \in Nat \ {0}
    /\ MaxCycles \in Nat /\ MaxPosted \in Nat /\ MaxTime \in Nat

VARIABLES
    now,
    registered,         \* wallets with an agentId in the registry
    devMode,            \* DEV_MODE, on which both sides must agree
    faultMode,          \* activeFaultMode
    stats,              \* the counters of GET /api/stats
    verdicts,           \* the last verdicts, oldest first
    lastExpensiveCallAt,
    triggers,           \* how many trigger cycles run
    pc,                 \* per consumer: where its cycle is
    flag,               \* per consumer: --fault
    attested,           \* per consumer: cachedAttestationCurrent or "unknown"
    job,                \* per consumer: response and verdict of its cycle
    cycles,             \* history: cycles started
    posted,             \* history: verdicts strangers posted
    bornRegistered      \* history, per consumer: oracle registered at its start

server   == <<faultMode, stats, verdicts, lastExpensiveCallAt, triggers>>
consumer == <<pc, flag, attested, job, bornRegistered>>
history  == <<cycles, posted>>
vars == <<now, registered, devMode, server, consumer, history>>

\* slashCount moves with breachCount wherever either does.
NoStats == [k \in Outcomes \cup Tiers |-> 0]

NoJob ==
    [response |-> <<>>, receivedAt |-> 0, verdict |-> "none", tier |-> "none", code |-> "none",
     slash |-> FALSE, class |-> "none", act |-> "none"]

Goto(c, label) == pc' = [pc EXCEPT ![c] = label]
Finish(c) == Goto(c, "idle") /\ job' = [job EXCEPT ![c] = NoJob]

-----------------------------------------------------------------------------
\* GET /api/price.

\* The first request carries no payment and is answered 402.
Request(c) ==
    /\ pc[c] = "idle"
    /\ cycles < MaxCycles
    /\ cycles' = cycles + 1
    /\ Goto(c, "asked")
    /\ UNCHANGED <<now, registered, devMode, server, flag, attested, job, bornRegistered, posted>>

\* devX402Middleware admits; the Gateway middleware settles and asks nothing.
Admits(caller) == devMode /\ RequireRegistered => RegistrySet /\ caller \in registered

FaultFor(query) == IF query # NoOne THEN query ELSE faultMode

\* A fault needs DEV_MODE or the token, which no payer sends.
Serves(query) == FaultFor(query) # NoOne => devMode

Signature(fault) ==
    CASE fault = "null"    -> "null"
      [] fault = "bad-sig" -> "bad"
      [] OTHER             -> "good"

\* fault and sentAt are history; the rest is what is on the wire.
Respond(query) ==
    LET fault == FaultFor(query) IN
    [value     |-> CASE fault = "null"      -> "null"
                     [] fault = "bad-price" -> "absurd"
                     [] OTHER               -> "price",
     timestamp |-> IF fault = "stale" THEN now - FaultAge ELSE now,
     signature |-> Signature(fault),
     fault     |-> fault,
     sentAt    |-> now]

\* The paid request.
ServePrice(c) ==
    /\ pc[c] = "asked"
    /\ Admits(c) /\ Serves(flag[c])
    /\ job' = [job EXCEPT ![c].response = Respond(flag[c])]
    /\ Goto(c, "arriving")
    /\ UNCHANGED <<now, registered, devMode, server, flag, attested, bornRegistered, history>>

\* 403: not admitted (a registry that cannot be read admits nobody), or a
\* fault without the token.
RefusePrice(c) ==
    /\ pc[c] = "asked"
    /\ (devMode /\ RequireRegistered) \/ ~Serves(flag[c])
    /\ Finish(c)
    /\ UNCHANGED <<now, registered, devMode, server, flag, attested, bornRegistered, history>>

\* The network, the payment or the answer fails: fetchOraclePrice throws and
\* the cycle ends with a record that is not published.
FetchFails(c) ==
    /\ pc[c] \in {"asked", "arriving"}
    /\ Finish(c)
    /\ UNCHANGED <<now, registered, devMode, server, flag, attested, bornRegistered, history>>

-----------------------------------------------------------------------------
\* verifyDeterministic.

NeedsAttestation(c) == RegistrySet /\ attested[c] = "unknown"

\* The age is taken before the registry is read.
Receive(c) ==
    /\ pc[c] = "arriving"
    /\ job' = [job EXCEPT ![c].receivedAt = now]
    /\ Goto(c, "verifying")
    /\ UNCHANGED <<now, registered, devMode, server, flag, attested, bornRegistered, history>>

\* verifyOracleSignature and checkSchema.  Only value and signature can differ
\* from what the route always sends.
Signed(response)     == response.signature = "good"
WellFormed(response) == response.value # "null"

Code(c, attestation) ==
    LET response == job[c].response IN
    IF ~Signed(response) THEN "SIG_INVALID"
    ELSE IF job[c].receivedAt - response.timestamp > MaxAge THEN "TIMESTAMP_STALE"
    ELSE IF ~WellFormed(response) THEN "SCHEMA_FAIL"
    ELSE IF attestation = "lapsed" THEN "ATTESTATION_LAPSED"
    ELSE "none"

\* A hard breach is a verdict; anything else goes to the adjudicator.
Classify(c, attestation) ==
    LET code == Code(c, attestation) IN
    IF code = "none" THEN Goto(c, "judging") /\ UNCHANGED job
    ELSE /\ job' = [job EXCEPT ![c].verdict = "breach", ![c].tier = "deterministic",
                               ![c].code = code, ![c].slash = TRUE]
         /\ Goto(c, "acting")

VerifyUnconfirmed(c) ==
    /\ pc[c] = "verifying"
    /\ IF NeedsAttestation(c)
       THEN LET answer == IF Oracle \in registered THEN "current" ELSE "lapsed" IN
            \/ attested' = [attested EXCEPT ![c] = answer] /\ Classify(c, answer)
            \/ UNCHANGED attested /\ Classify(c, "lapsed")
       ELSE UNCHANGED attested /\ Classify(c, attested[c])
    /\ UNCHANGED <<now, registered, devMode, server, flag, bornRegistered, history>>
\* checkAttestationCurrent reads the registry once per process; a read that
\* fails leaves the attestation unknown, which is not a breach.
Verify(c) ==
    /\ pc[c] = "verifying"
    /\ IF NeedsAttestation(c)
       THEN LET answer == IF Oracle \in registered THEN "current" ELSE "lapsed" IN
            \/ attested' = [attested EXCEPT ![c] = answer] /\ Classify(c, answer)
            \/ UNCHANGED attested /\ Classify(c, "unknown")
       ELSE UNCHANGED attested /\ Classify(c, attested[c])
    /\ UNCHANGED <<now, registered, devMode, server, flag, bornRegistered, history>>

\* What the model may deliver.  Nothing ties should_slash to the outcome, and
\* nothing but the prompt and the schema sent along asks for the one class.
\* mechanical: the text names a ground of Tier 1 outright.
Judgments == [verdict: Outcomes, should_slash: BOOLEAN, breach_class: {"semantic", "other"},
              mechanical: BOOLEAN]

\* assertWithinJurisdiction.
WithinJurisdiction(judgment) == ~judgment.mechanical

\* adjudicate.
Adjudicate(c) ==
    /\ pc[c] = "judging"
    /\ \E judgment \in Judgments :
          /\ WithinJurisdiction(judgment)
          /\ job' = [job EXCEPT ![c].verdict = judgment.verdict, ![c].tier = "semantic",
                                ![c].slash = judgment.should_slash,
                                ![c].class = judgment.breach_class]
    /\ Goto(c, "acting")
    /\ UNCHANGED <<now, registered, devMode, server, flag, attested, bornRegistered, history>>

\* The API fails, calls no tool, or cites a ground of Tier 1: no verdict.
AdjudicationFails(c) ==
    /\ pc[c] = "judging"
    /\ Finish(c)
    /\ UNCHANGED <<now, registered, devMode, server, flag, attested, bornRegistered, history>>

-----------------------------------------------------------------------------
\* The act on the verdict.

\* gateSlash: the tier and the classification of the verdict must agree.
\* Payee and target are the configured wallets, and the hash is taken twice of
\* one object, so the other checks of the gate cannot fail here.
GateAllows(c) == job[c].tier = "semantic" => job[c].class = "semantic"

\* determineRoute: only a semantic breach can be disputed.
Routes(c) == IF job[c].tier = "semantic" THEN {"slash", "indictment"} ELSE {"slash"}

\* What may get on chain; a settlement is only simulated under DEV_MODE, a
\* slash unless it is forced.
Acts(c) ==
    CASE job[c].verdict = "breach" /\ job[c].slash -> IF GateAllows(c) THEN Routes(c) ELSE {}
      [] job[c].verdict = "ok" /\ ~devMode         -> {"settlement"}
      [] OTHER                                     -> {}

\* executeSlash or executeSettlement; whatever they throw is logged, and the
\* verdict is posted all the same.
Act(c) ==
    /\ pc[c] = "acting"
    /\ \E act \in Acts(c) \cup {"none"} : job' = [job EXCEPT ![c].act = act]
    /\ Goto(c, "posting")
    /\ UNCHANGED <<now, registered, devMode, server, flag, attested, bornRegistered, history>>

-----------------------------------------------------------------------------
\* The verdict feed.

Push(entry) ==
    verdicts' = IF Len(verdicts) < MaxVerdicts THEN Append(verdicts, entry)
                ELSE Append(Tail(verdicts), entry)

Count(keys) == stats' = [k \in DOMAIN stats |-> IF k \in keys THEN stats[k] + 1 ELSE stats[k]]

\* POST /api/verdicts takes whatever carries a verdict, from anybody.
Post(record) == Push(record) /\ Count({record.verdict, record.tier})

Record(c) == [verdict |-> job[c].verdict, tier |-> job[c].tier]

\* A consumer posts the verdict it has acted upon.
PostVerdict(c) ==
    /\ pc[c] = "posting"
    /\ Post(Record(c))
    /\ Finish(c)
    /\ UNCHANGED <<now, registered, devMode, faultMode, lastExpensiveCallAt, triggers,
                   flag, attested, bornRegistered, history>>

\* So does anybody else: the route asks for no proof of who is calling.
StrangerPosts(record) ==
    /\ posted < MaxPosted
    /\ posted' = posted + 1
    /\ Post(record)
    /\ UNCHANGED <<now, registered, devMode, faultMode, lastExpensiveCallAt, triggers,
                   consumer, cycles>>

\* The server is unreachable, which the consumer ignores.
PostIsLost(c) ==
    /\ pc[c] = "posting"
    /\ Finish(c)
    /\ UNCHANGED <<now, registered, devMode, server, flag, attested, bornRegistered, history>>

-----------------------------------------------------------------------------
\* The admin routes; their callers hold the token or the server runs DEV_MODE.

SetFault(mode) ==
    /\ faultMode' = mode
    /\ UNCHANGED <<now, registered, devMode, stats, verdicts, lastExpensiveCallAt, triggers, consumer, history>>

Cooled == now - lastExpensiveCallAt >= Cooldown

\* POST /admin/trigger-cycle, up to its await.
StartTrigger ==
    /\ Cooled
    /\ lastExpensiveCallAt' = now
    /\ triggers' = triggers + 1
    /\ UNCHANGED <<now, registered, devMode, faultMode, stats, verdicts, consumer, history>>

Ended == triggers > 0 /\ triggers' = triggers - 1

\* What the trigger pushes itself carries no tier, but is counted under one.
TriggeredRecord == [verdict |-> "breach", tier |-> "none"]

EndTriggerUnshifted ==
    /\ Ended
    /\ Count({"breach", "deterministic"})
    /\ verdicts' = Append(verdicts, TriggeredRecord)
    /\ UNCHANGED <<now, registered, devMode, faultMode, lastExpensiveCallAt,
                   consumer, history>>
\* The cycle slashed, and counts.
EndTrigger ==
    /\ Ended
    /\ Count({"breach", "deterministic"})
    /\ Push(TriggeredRecord)
    /\ UNCHANGED <<now, registered, devMode, faultMode, lastExpensiveCallAt,
                   consumer, history>>

\* It threw, or returned without a slash.
TriggerFails ==
    /\ Ended
    /\ UNCHANGED <<now, registered, devMode, faultMode, stats, verdicts, lastExpensiveCallAt, consumer, history>>

\* POST /admin/demo-pay: one paid price through the Gateway, in production.
\* Without a wallet, a balance or a served price it still uses up the cooldown.
DemoPay ==
    /\ ~devMode /\ Cooled
    /\ lastExpensiveCallAt' = now
    /\ UNCHANGED <<now, registered, devMode, faultMode, stats, verdicts, triggers,
                   consumer, history>>

-----------------------------------------------------------------------------
\* Restarts, the registry and the clock.

RestartServer ==
    /\ faultMode' = NoOne /\ stats' = NoStats /\ verdicts' = <<>>
    /\ lastExpensiveCallAt' = -Cooldown /\ triggers' = 0
    /\ UNCHANGED <<now, registered, devMode, consumer, history>>

RestartConsumer(c) ==
    /\ Finish(c)
    /\ flag' \in {[flag EXCEPT ![c] = f] : f \in Flags}
    /\ attested' = [attested EXCEPT ![c] = "unknown"]
    /\ bornRegistered' = [bornRegistered EXCEPT ![c] = Oracle \in registered]
    /\ UNCHANGED <<now, registered, devMode, server, history>>

\* Registration is permanent.
Register(wallet) ==
    /\ registered' = registered \cup {wallet}
    /\ UNCHANGED <<now, devMode, server, consumer, history>>

Tick ==
    /\ now < MaxTime
    /\ now' = now + 1
    /\ UNCHANGED <<registered, devMode, server, consumer, history>>

Init ==
    /\ now = 0
    /\ registered \in SUBSET (Consumers \cup {Oracle})
    /\ devMode \in BOOLEAN
    /\ faultMode = NoOne /\ stats = NoStats /\ verdicts = <<>>
    /\ lastExpensiveCallAt = -Cooldown /\ triggers = 0
    /\ pc = [c \in Consumers |-> "idle"]
    /\ flag \in [Consumers -> Flags]
    /\ attested = [c \in Consumers |-> "unknown"]
    /\ job = [c \in Consumers |-> NoJob]
    /\ cycles = 0 /\ posted = 0
    /\ bornRegistered = [c \in Consumers |-> Oracle \in registered]

Next ==
    \/ \E c \in Consumers :
          \/ Request(c) \/ ServePrice(c) \/ RefusePrice(c) \/ FetchFails(c)
          \/ Receive(c) \/ Verify(c) \/ Adjudicate(c) \/ AdjudicationFails(c)
          \/ Act(c) \/ PostVerdict(c) \/ PostIsLost(c) \/ RestartConsumer(c)
    \/ \E record \in Entries : StrangerPosts(record)
    \/ \E mode \in Faults \cup {NoOne} : SetFault(mode)
    \/ StartTrigger \/ EndTrigger \/ TriggerFails \/ DemoPay
    \/ RestartServer
    \/ \E wallet \in Consumers \cup {Oracle} : Register(wallet)
    \/ Tick

Spec == Init /\ [][Next]_vars

-----------------------------------------------------------------------------
\* Properties.

Delay(c) == job[c].receivedAt - job[c].response.sentAt
Defective(c) == job[c].response.fault \in {"stale", "null", "bad-sig"} \/ Delay(c) > MaxAge

\* Nobody is punished or paid without cause, and Tier 1 misses none: a hard
\* breach is earned by a fault that spoils signature, age or schema, by an
\* answer that took longer than the SLA allows, or by an oracle that was not
\* registered when the process started (a registry that cannot be read
\* convicts nobody); what reaches the adjudicator has no such fault; a slash
\* or an indictment follows a breach, an indictment never a mechanical one;
\* and only a response free of all of it is paid for, whatever the model says
\* beside its verdict (verifyDeterministic, adjudicate, gateSlash, runCycle).
VerdictsAreEarned ==
    \A c \in Consumers :
        /\ job[c].tier = "deterministic" =>
              Defective(c) \/ (RegistrySet /\ ~bornRegistered[c])
        /\ pc[c] = "judging" \/ job[c].tier = "semantic" => ~Defective(c)
        /\ job[c].act \in {"slash", "indictment"} => job[c].verdict = "breach" /\ job[c].slash
        /\ job[c].act = "indictment" => ~Defective(c)
        /\ job[c].act = "settlement" => job[c].verdict = "ok" /\ ~Defective(c)

\* The entries a counter counts, and how many of a kind the feed shows.
Under(k)     == {e \in Entries : k \in {e.verdict, e.tier}}
Shown(kind)  == Cardinality({i \in DOMAIN verdicts : verdicts[i] \in kind})

\* The feed and the counters tell one story of this life of the server,
\* whoever posts what (unknown verdicts and missing tiers included) while
\* trigger cycles run and the server restarts, in any order: the feed keeps to
\* its length, no counter is behind what the feed shows, and while nothing was
\* evicted each is what the feed shows, but for the mechanical verdicts of
\* triggers, which it shows as breaches of no tier.
FeedMatchesCounters ==
    /\ Len(verdicts) <= MaxVerdicts
    /\ \A k \in DOMAIN stats : Shown(Under(k)) <= stats[k]
    /\ Len(verdicts) < MaxVerdicts =>
          /\ \A k \in DOMAIN stats \ {"deterministic"} : stats[k] = Shown(Under(k))
          /\ stats["deterministic"] <= Shown(Under("deterministic") \cup {TriggeredRecord})

=============================================================================
