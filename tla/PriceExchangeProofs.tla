------------------------- MODULE PriceExchangeProofs -------------------------
(***************************************************************************)
(* VerdictsAreEarned for any number of consumers, cycles, fault changes and *)
(* restarts, and any ages.  The argument is local to one consumer: a step   *)
(* that reads the registry or the clock reads what only grows.              *)
(* FeedMatchesCounters for a ring of any size and whatever anybody posts:   *)
(* two handlers record a verdict, and both count it and push it once.       *)
(***************************************************************************)
EXTENDS PriceExchange, TLAPS, FiniteSetTheorems

Pcs == {"idle", "asked", "arriving", "verifying", "judging", "acting", "posting"}
Modes == Faults \cup {NoOne}
Attestations == {"unknown", "current", "lapsed"}
Responses == [value: {"price", "absurd", "null"}, timestamp: Int, signature: {"good", "bad", "null"},
              fault: Modes, sentAt: Int]
Jobs == [response: Responses \cup {<<>>}, receivedAt: Int, verdict: Outcomes \cup {"none"},
         tier: {"none", "deterministic", "semantic"},
         code: {"none", "SIG_INVALID", "TIMESTAMP_STALE", "SCHEMA_FAIL", "ATTESTATION_LAPSED"},
         slash: BOOLEAN, class: {"none", "semantic", "other"},
         act: {"none", "slash", "indictment", "settlement"}]

Typed ==
    /\ now \in Int
    /\ faultMode \in Modes
    /\ pc \in [Consumers -> Pcs]
    /\ flag \in [Consumers -> Modes]
    /\ attested \in [Consumers -> Attestations]
    /\ job \in [Consumers -> Jobs]
    /\ bornRegistered \in [Consumers -> BOOLEAN]

\* What a response shows is what its fault does.
Honest(r) ==
    /\ r \in Responses
    /\ r.signature = Signature(r.fault)
    /\ r.value = "null" <=> r.fault = "null"
    /\ r.timestamp = IF r.fault = "stale" THEN r.sentAt - FaultAge ELSE r.sentAt

Spoiled(j) ==
    j.response.fault \in {"stale", "null", "bad-sig"} \/ j.receivedAt - j.response.sentAt > MaxAge

Received == {"verifying", "judging", "acting", "posting"}

\* One consumer: its job j at label p, its attestation a, whether the oracle
\* was registered when it started (b), at time t.
Fits(j, p, a, b, t) ==
    /\ p = "arriving" \/ p \in Received => Honest(j.response) /\ j.response.sentAt <= t
    /\ p \in Received => j.receivedAt >= j.response.sentAt
    /\ p \in {"acting", "posting"} <=> j.tier # "none"
    /\ j.tier # "none" => j.verdict \in Outcomes
    /\ p # "posting" => j.act = "none"
    /\ p = "judging" \/ j.tier = "semantic" => ~Spoiled(j)
    /\ j.tier = "deterministic" => j.verdict = "breach" /\ (Spoiled(j) \/ (RegistrySet /\ ~b))
    /\ j.act \in {"slash", "indictment"} => j.verdict = "breach" /\ j.slash
    /\ j.act = "indictment" => j.tier = "semantic"
    /\ j.act = "settlement" => j.verdict = "ok"
    /\ a = "lapsed" => RegistrySet /\ ~b

\* The inductive invariant.  Registration is permanent: an oracle that was
\* registered when a process started still is.
Inv ==
    /\ Typed
    /\ \A c \in Consumers : Fits(job[c], pc[c], attested[c], bornRegistered[c], now)
    /\ \A c \in Consumers : bornRegistered[c] => Oracle \in registered

\* The ages are numbers, and the stale fault is past the limit.
LEMMA Ages == MaxAge \in Nat /\ FaultAge \in Nat /\ FaultAge > MaxAge /\ Flags \subseteq Modes
BY ExchangeAssumption DEF ExchangeAssumption, Modes

\* An idle consumer has no job, and that fits.
LEMMA NoJobFits ==
    /\ NoJob \in Jobs
    /\ \A a, b, t : (a = "lapsed" => RegistrySet /\ ~b) =>
          Fits(NoJob, "idle", a, b, t) /\ Fits(NoJob, "asked", a, b, t)
<1>1. NoJob \in Jobs BY DEF NoJob, Jobs, Outcomes
<1>2. NoJob.tier = "none" /\ NoJob.act = "none" BY DEF NoJob
<1> QED BY <1>1, <1>2 DEF Fits, Received

\* A step of one consumer leaves the others alone.
LEMMA OneConsumer ==
    ASSUME Inv, NEW c \in Consumers, Typed', now' = now, registered' = registered,
           \A d \in Consumers \ {c} :
              /\ job'[d] = job[d] /\ pc'[d] = pc[d]
              /\ attested'[d] = attested[d] /\ bornRegistered'[d] = bornRegistered[d],
           Fits(job'[c], pc'[c], attested'[c], bornRegistered'[c], now),
           bornRegistered'[c] => Oracle \in registered
    PROVE  Inv'
<1>1. \A d \in Consumers : Fits(job'[d], pc'[d], attested'[d], bornRegistered'[d], now)
    BY DEF Inv
<1>2. \A d \in Consumers : bornRegistered'[d] => Oracle \in registered BY DEF Inv
<1> QED BY <1>1, <1>2 DEF Inv

\* The same when a consumer goes from one label to another with its job.
LEMMA OneJob ==
    ASSUME Inv, NEW c \in Consumers, NEW p \in Pcs, NEW j \in Jobs,
           pc' = [pc EXCEPT ![c] = p], job' = [job EXCEPT ![c] = j],
           UNCHANGED <<now, registered, faultMode, flag, attested, bornRegistered>>,
           Fits(j, p, attested[c], bornRegistered[c], now)
    PROVE  Inv'
<1>1. Typed' BY DEF Inv, Typed
<1>2. pc'[c] = p /\ job'[c] = j BY DEF Inv, Typed
<1>3. \A d \in Consumers \ {c} : job'[d] = job[d] /\ pc'[d] = pc[d] BY DEF Inv, Typed
<1>4. bornRegistered[c] => Oracle \in registered BY DEF Inv
<1> QED BY <1>1, <1>2, <1>3, <1>4, OneConsumer

\* What the invariant says of one consumer.
LEMMA Local ==
    ASSUME Inv, NEW c \in Consumers
    PROVE  /\ job[c] \in Jobs /\ pc[c] \in Pcs /\ attested[c] \in Attestations
           /\ Fits(job[c], pc[c], attested[c], bornRegistered[c], now)
           /\ attested[c] = "lapsed" => RegistrySet /\ ~bornRegistered[c]
BY DEF Inv, Typed, Fits

\* Whatever ends a cycle.
LEMMA FinishStep ==
    ASSUME Inv, NEW c \in Consumers, Finish(c),
           UNCHANGED <<now, registered, faultMode, flag, attested, bornRegistered>>
    PROVE  Inv'
<1>1. pc' = [pc EXCEPT ![c] = "idle"] /\ job' = [job EXCEPT ![c] = NoJob] BY DEF Finish, Goto
<1>2. "idle" \in Pcs BY DEF Pcs
<1> QED BY <1>1, <1>2, Local, NoJobFits, OneJob

(* A consumer asks for a price. *)
LEMMA RequestStep == ASSUME Inv, NEW c \in Consumers, Request(c) PROVE Inv'
<1>1. pc' = [pc EXCEPT ![c] = "asked"] /\ job' = job /\ pc[c] = "idle" BY DEF Request, Goto
<1>2. job' = [job EXCEPT ![c] = job[c]] BY <1>1 DEF Inv, Typed
<1>3. Fits(job[c], "asked", attested[c], bornRegistered[c], now) BY <1>1, Local DEF Fits, Received
<1>4. "asked" \in Pcs BY DEF Pcs
<1>5. UNCHANGED <<now, registered, faultMode, flag, attested, bornRegistered>> BY DEF Request, server
<1> QED BY <1>1, <1>2, <1>3, <1>4, <1>5, Local, OneJob

\* Every answer is honest about its fault.
LEMMA RespondIsHonest ==
    ASSUME Inv, NEW query \in Modes
    PROVE  Honest(Respond(query)) /\ Respond(query).sentAt = now
<1> DEFINE fault == FaultFor(query)
           r == Respond(query)
<1>1. fault \in Modes BY DEF FaultFor, Inv, Typed
<1>2. r.fault = fault /\ r.sentAt = now /\ r.signature = Signature(fault)
      /\ r.timestamp = (IF fault = "stale" THEN now - FaultAge ELSE now)
      /\ r.value = (CASE fault = "null"      -> "null"
                      [] fault = "bad-price" -> "absurd"
                      [] OTHER               -> "price")
    BY DEF Respond
<1>3. Signature(fault) \in {"good", "bad", "null"} BY DEF Signature
<1>4. now \in Int /\ now - FaultAge \in Int BY Ages DEF Inv, Typed
<1>5. r \in Responses
  <2>1. r.value \in {"price", "absurd", "null"} BY <1>2
  <2>2. r = [value |-> r.value, timestamp |-> r.timestamp, signature |-> r.signature,
             fault |-> r.fault, sentAt |-> r.sentAt] BY DEF Respond
  <2> HIDE DEF r, fault
  <2> QED BY <1>1, <1>2, <1>3, <1>4, <2>1, <2>2 DEF Responses
<1>6. r.value = "null" <=> fault = "null" BY <1>2
<1> HIDE DEF fault, r
<1> QED BY <1>2, <1>5, <1>6 DEF Honest, r

(* The oracle answers, spoiling the answer as its faults say. *)
LEMMA ServePriceStep == ASSUME Inv, NEW c \in Consumers, ServePrice(c) PROVE Inv'
<1> DEFINE j == [job[c] EXCEPT !.response = Respond(flag[c])]
<1>1. /\ pc[c] = "asked" /\ pc' = [pc EXCEPT ![c] = "arriving"] /\ job' = [job EXCEPT ![c] = j]
      /\ UNCHANGED <<now, registered, faultMode, flag, attested, bornRegistered>>
    BY DEF ServePrice, Goto, server
<1>2. Honest(Respond(flag[c])) /\ Respond(flag[c]).sentAt = now /\ now \in Int
    BY RespondIsHonest DEF Inv, Typed
<1>3. j \in Jobs /\ j.response = Respond(flag[c]) /\ j.tier = job[c].tier /\ j.act = job[c].act
    BY <1>2, Local DEF Jobs, Honest
<1>4. job[c].tier = "none" /\ job[c].act = "none" BY <1>1, Local DEF Fits
<1> HIDE DEF j
<1>5. Fits(j, "arriving", attested[c], bornRegistered[c], now)
    BY <1>2, <1>3, <1>4, Local DEF Fits, Received
<1>6. "arriving" \in Pcs BY DEF Pcs
<1> QED BY <1>1, <1>3, <1>5, <1>6, OneJob

(* The answer, or what is left of it, reaches the consumer. *)
LEMMA ReceiveStep == ASSUME Inv, NEW c \in Consumers, Receive(c) PROVE Inv'
<1> DEFINE j == [job[c] EXCEPT !.receivedAt = now]
<1>1. /\ pc[c] = "arriving" /\ pc' = [pc EXCEPT ![c] = "verifying"] /\ job' = [job EXCEPT ![c] = j]
      /\ UNCHANGED <<now, registered, faultMode, flag, attested, bornRegistered>>
    BY DEF Receive, Goto, server
<1>2. now \in Int BY DEF Inv, Typed
<1>3. j \in Jobs /\ j.response = job[c].response /\ j.tier = job[c].tier /\ j.act = job[c].act
      /\ j.receivedAt = now
    BY <1>2, Local DEF Jobs
<1>4. job[c].tier = "none" /\ job[c].act = "none" /\ Honest(job[c].response) /\ job[c].response.sentAt <= now
    BY <1>1, Local DEF Fits
<1>5. job[c].response.sentAt \in Int BY <1>4 DEF Honest, Responses
<1> HIDE DEF j
<1>6. Fits(j, "verifying", attested[c], bornRegistered[c], now)
    BY <1>2, <1>3, <1>4, <1>5, Local DEF Fits, Received
<1>7. "verifying" \in Pcs BY DEF Pcs
<1> QED BY <1>1, <1>3, <1>6, <1>7, OneJob

-----------------------------------------------------------------------------
\* The mechanical check.

\* A code is found only for a spoiled answer or a lapsed attestation, and
\* none is missed.
LEMMA CodeIsJust ==
    ASSUME Inv, NEW c \in Consumers, pc[c] = "verifying", NEW a
    PROVE  /\ Code(c, a) = "none" => ~Spoiled(job[c])
           /\ Code(c, a) # "none" => Spoiled(job[c]) \/ a = "lapsed"
           /\ Code(c, a) \in {"none", "SIG_INVALID", "TIMESTAMP_STALE", "SCHEMA_FAIL", "ATTESTATION_LAPSED"}
<1> DEFINE r == job[c].response
           age == job[c].receivedAt - r.timestamp
<1>1. Honest(r) /\ job[c].receivedAt >= r.sentAt BY Local DEF Fits, Received
<1>2. r.sentAt \in Int /\ job[c].receivedAt \in Int /\ r.fault \in Modes BY <1>1, Local DEF Honest, Responses, Jobs
<1>3. Signed(r) <=> r.fault \notin {"null", "bad-sig"}
    BY <1>1 DEF Honest, Signed, Signature
<1>4. WellFormed(r) <=> r.fault # "null" BY <1>1 DEF Honest, WellFormed
<1>5. r.fault = "stale" => age > MaxAge BY <1>1, <1>2, Ages DEF Honest
<1>6. r.fault # "stale" => age = job[c].receivedAt - r.sentAt BY <1>1 DEF Honest
<1>7. Code(c, a) = IF ~Signed(r) THEN "SIG_INVALID"
                   ELSE IF age > MaxAge THEN "TIMESTAMP_STALE"
                   ELSE IF ~WellFormed(r) THEN "SCHEMA_FAIL"
                   ELSE IF a = "lapsed" THEN "ATTESTATION_LAPSED" ELSE "none"
    BY DEF Code
<1>8. Spoiled(job[c]) <=> r.fault \in {"stale", "null", "bad-sig"} \/ job[c].receivedAt - r.sentAt > MaxAge
    BY DEF Spoiled
<1> HIDE DEF r, age
<1>9. CASE Signed(r) /\ ~(age > MaxAge) /\ WellFormed(r)
  <2>1. ~Spoiled(job[c])
      BY <1>9, <1>3, <1>4, <1>5, <1>6, <1>8
  <2>2. Code(c, a) = IF a = "lapsed" THEN "ATTESTATION_LAPSED" ELSE "none" BY <1>7, <1>9
  <2> QED BY <2>1, <2>2
<1>10. CASE ~(Signed(r) /\ ~(age > MaxAge) /\ WellFormed(r))
  <2>1. Spoiled(job[c]) BY <1>10, <1>3, <1>4, <1>5, <1>6, <1>8
  <2>2. Code(c, a) \in {"SIG_INVALID", "TIMESTAMP_STALE", "SCHEMA_FAIL"} BY <1>7, <1>10
  <2> QED BY <2>1, <2>2
<1> QED BY <1>9, <1>10

\* Classifying with an attestation that is true of the process's start, which
\* is then kept or not.
LEMMA ClassifyStep ==
    ASSUME Inv, NEW c \in Consumers, pc[c] = "verifying", NEW a \in Attestations, Classify(c, a),
           NEW kept \in Attestations, attested' = [attested EXCEPT ![c] = kept],
           a = "lapsed" \/ kept = "lapsed" => RegistrySet /\ ~bornRegistered[c],
           UNCHANGED <<now, registered, faultMode, flag, bornRegistered>>
    PROVE  Inv'
<1> DEFINE code == Code(c, a)
           j == IF code = "none" THEN job[c]
                ELSE [job[c] EXCEPT !.verdict = "breach", !.tier = "deterministic",
                                    !.code = code, !.slash = TRUE]
           p == IF code = "none" THEN "judging" ELSE "acting"
<1>1. job[c] \in Jobs /\ Fits(job[c], "verifying", attested[c], bornRegistered[c], now) BY Local
<1>2. pc' = [pc EXCEPT ![c] = p] /\ job' = [job EXCEPT ![c] = j]
  <2>1. CASE code = "none" BY <2>1 DEF Classify, Goto, Inv, Typed
  <2>2. CASE code # "none" BY <2>2 DEF Classify, Goto
  <2> QED BY <2>1, <2>2
<1>3. /\ code = "none" => ~Spoiled(job[c])
      /\ code # "none" => Spoiled(job[c]) \/ a = "lapsed"
      /\ code \in {"none", "SIG_INVALID", "TIMESTAMP_STALE", "SCHEMA_FAIL", "ATTESTATION_LAPSED"}
    BY CodeIsJust
<1> HIDE DEF code
<1>4. j \in Jobs
  <2>1. ASSUME code # "none"
        PROVE  [job[c] EXCEPT !.verdict = "breach", !.tier = "deterministic",
                              !.code = code, !.slash = TRUE] \in Jobs
      BY <1>1, <1>3 DEF Jobs, Outcomes
  <2> QED BY <1>1, <2>1
<1>5. p \in Pcs BY DEF Pcs
<1>6. Fits(j, p, kept, bornRegistered[c], now)
  <2>1. CASE code = "none"
    <3>1. j = job[c] /\ p = "judging" BY <2>1
    <3> HIDE DEF j, p
    <3> QED BY <1>1, <1>3, <2>1, <3>1 DEF Fits, Received
  <2>2. CASE code # "none"
    <3>1. /\ p = "acting" /\ j.response = job[c].response /\ j.receivedAt = job[c].receivedAt
          /\ j.tier = "deterministic" /\ j.act = job[c].act /\ j.verdict = "breach"
        BY <1>1, <2>2 DEF Jobs
    <3>2. Spoiled(j) <=> Spoiled(job[c]) BY <3>1 DEF Spoiled
    <3> HIDE DEF j, p
    <3> QED BY <1>1, <1>3, <2>2, <3>1, <3>2 DEF Fits, Received, Outcomes
  <2> QED BY <2>1, <2>2
<1> HIDE DEF j, p
<1>7. Typed' BY <1>2, <1>4, <1>5 DEF Inv, Typed
<1>8. pc'[c] = p /\ job'[c] = j /\ attested'[c] = kept BY <1>2 DEF Inv, Typed
<1>9. \A d \in Consumers \ {c} : job'[d] = job[d] /\ pc'[d] = pc[d] /\ attested'[d] = attested[d]
    BY <1>2 DEF Inv, Typed
<1>10. bornRegistered[c] => Oracle \in registered BY DEF Inv
<1> QED BY <1>6, <1>7, <1>8, <1>9, <1>10, OneConsumer

(* The mechanical checks of an answer convict only what the oracle spoiled. *)
LEMMA VerifyStep == ASSUME Inv, NEW c \in Consumers, Verify(c) PROVE Inv'
<1>1. pc[c] = "verifying" /\ UNCHANGED <<now, registered, faultMode, flag, bornRegistered>>
    BY DEF Verify, server
<1>2. attested[c] \in Attestations /\ (attested[c] = "lapsed" => RegistrySet /\ ~bornRegistered[c])
    BY Local
<1>3. attested = [attested EXCEPT ![c] = attested[c]] BY DEF Inv, Typed
<1>4. CASE NeedsAttestation(c)
  <2> DEFINE answer == IF Oracle \in registered THEN "current" ELSE "lapsed"
  <2>1. \/ attested' = [attested EXCEPT ![c] = answer] /\ Classify(c, answer)
        \/ attested' = attested /\ Classify(c, "unknown")
      BY <1>4 DEF Verify
  <2>2. answer \in Attestations /\ "unknown" \in Attestations BY DEF Attestations
  <2>3. answer = "lapsed" => RegistrySet /\ ~bornRegistered[c] BY <1>4 DEF Inv, NeedsAttestation
  <2> HIDE DEF answer
  <2>4. CASE attested' = [attested EXCEPT ![c] = answer] /\ Classify(c, answer)
      BY <1>1, <2>2, <2>3, <2>4, ClassifyStep
  <2>5. CASE attested' = attested /\ Classify(c, "unknown")
      BY <1>1, <1>2, <1>3, <2>2, <2>5, ClassifyStep
  <2> QED BY <2>1, <2>4, <2>5
<1>5. CASE ~NeedsAttestation(c)
  <2>1. attested' = attested /\ Classify(c, attested[c]) BY <1>5 DEF Verify
  <2> QED BY <1>1, <1>2, <1>3, <2>1, ClassifyStep
<1> QED BY <1>4, <1>5

-----------------------------------------------------------------------------
\* The adjudicator and the act.

(* The adjudicator's verdict is about the answer the consumer holds. *)
LEMMA AdjudicateStep == ASSUME Inv, NEW c \in Consumers, Adjudicate(c) PROVE Inv'
<1>1. /\ pc[c] = "judging" /\ pc' = [pc EXCEPT ![c] = "acting"]
      /\ UNCHANGED <<now, registered, faultMode, flag, attested, bornRegistered>>
    BY DEF Adjudicate, Goto, server
<1>2. PICK judgment \in Judgments :
          job' = [job EXCEPT ![c].verdict = judgment.verdict, ![c].tier = "semantic",
                             ![c].slash = judgment.should_slash, ![c].class = judgment.breach_class]
    BY DEF Adjudicate
<1> DEFINE j == [job[c] EXCEPT !.verdict = judgment.verdict, !.tier = "semantic",
                               !.slash = judgment.should_slash, !.class = judgment.breach_class]
<1>3. job' = [job EXCEPT ![c] = j] BY <1>2
<1>4. job[c] \in Jobs /\ Fits(job[c], "judging", attested[c], bornRegistered[c], now) BY <1>1, Local
<1>5. judgment.verdict \in Outcomes /\ judgment.should_slash \in BOOLEAN
      /\ judgment.breach_class \in {"semantic", "other"}
    BY DEF Judgments
<1>6. j \in Jobs BY <1>4, <1>5 DEF Jobs
<1>7. /\ j.response = job[c].response /\ j.receivedAt = job[c].receivedAt
      /\ j.tier = "semantic" /\ j.act = job[c].act /\ j.verdict \in Outcomes
    BY <1>4, <1>5 DEF Jobs
<1> HIDE DEF j
<1>8. Spoiled(j) <=> Spoiled(job[c]) BY <1>7 DEF Spoiled
<1>9. Fits(j, "acting", attested[c], bornRegistered[c], now) BY <1>4, <1>7, <1>8 DEF Fits, Received
<1>10. "acting" \in Pcs BY DEF Pcs
<1> QED BY <1>1, <1>3, <1>6, <1>9, <1>10, OneJob

(* The consumer pays, slashes or indicts on the verdict it holds. *)
LEMMA ActStep == ASSUME Inv, NEW c \in Consumers, Act(c) PROVE Inv'
<1>1. /\ pc[c] = "acting" /\ pc' = [pc EXCEPT ![c] = "posting"]
      /\ UNCHANGED <<now, registered, faultMode, flag, attested, bornRegistered>>
    BY DEF Act, Goto, server
<1>2. PICK act \in Acts(c) \cup {"none"} : job' = [job EXCEPT ![c].act = act] BY DEF Act
<1> DEFINE j == [job[c] EXCEPT !.act = act]
<1>3. job' = [job EXCEPT ![c] = j] BY <1>2
<1>4. job[c] \in Jobs /\ Fits(job[c], "acting", attested[c], bornRegistered[c], now) BY <1>1, Local
<1>5. /\ act \in {"none", "slash", "indictment", "settlement"}
      /\ act \in {"slash", "indictment"} => job[c].verdict = "breach" /\ job[c].slash
      /\ act = "indictment" => job[c].tier = "semantic"
      /\ act = "settlement" => job[c].verdict = "ok"
  <2>1. CASE job[c].verdict = "breach" /\ job[c].slash
    <3>1. Acts(c) = IF GateAllows(c) THEN Routes(c) ELSE {} BY <2>1 DEF Acts
    <3> QED BY <2>1, <3>1 DEF Routes
  <2>2. CASE ~(job[c].verdict = "breach" /\ job[c].slash) /\ job[c].verdict = "ok" /\ ~devMode
    <3>1. Acts(c) = {"settlement"} BY <2>2 DEF Acts
    <3> QED BY <2>2, <3>1
  <2>3. CASE ~(job[c].verdict = "breach" /\ job[c].slash) /\ ~(job[c].verdict = "ok" /\ ~devMode)
    <3>1. Acts(c) = {} BY <2>3 DEF Acts
    <3> QED BY <3>1
  <2> QED BY <2>1, <2>2, <2>3
<1>6. j \in Jobs BY <1>4, <1>5 DEF Jobs
<1>7. /\ j.response = job[c].response /\ j.receivedAt = job[c].receivedAt /\ j.verdict = job[c].verdict
      /\ j.slash = job[c].slash /\ j.tier = job[c].tier /\ j.act = act
    BY <1>4 DEF Jobs
<1> HIDE DEF j
<1>8. Spoiled(j) <=> Spoiled(job[c]) BY <1>7 DEF Spoiled
<1>9. Fits(j, "posting", attested[c], bornRegistered[c], now)
    BY <1>4, <1>5, <1>7, <1>8 DEF Fits, Received
<1>10. "posting" \in Pcs BY DEF Pcs
<1> QED BY <1>1, <1>3, <1>6, <1>9, <1>10, OneJob

-----------------------------------------------------------------------------
\* Restarts, the server, the registry and the clock.

(* A consumer that restarts forgets the answer with its verdict. *)
LEMMA RestartConsumerStep == ASSUME Inv, NEW c \in Consumers, RestartConsumer(c) PROVE Inv'
<1>1. /\ pc' = [pc EXCEPT ![c] = "idle"] /\ job' = [job EXCEPT ![c] = NoJob]
      /\ attested' = [attested EXCEPT ![c] = "unknown"]
      /\ bornRegistered' = [bornRegistered EXCEPT ![c] = Oracle \in registered]
      /\ now' = now /\ registered' = registered /\ faultMode' = faultMode
    BY DEF RestartConsumer, Finish, Goto, server
<1>2. flag' \in [Consumers -> Modes] BY Ages DEF RestartConsumer, Inv, Typed
<1>3. NoJob \in Jobs /\ "idle" \in Pcs /\ "unknown" \in Attestations
    BY NoJobFits DEF Pcs, Attestations
<1>4. Typed'
  <2>1. bornRegistered' \in [Consumers -> BOOLEAN] BY <1>1 DEF Inv, Typed
  <2> QED BY <1>1, <1>2, <1>3, <2>1 DEF Inv, Typed
<1>5. pc'[c] = "idle" /\ job'[c] = NoJob /\ attested'[c] = "unknown" BY <1>1 DEF Inv, Typed
<1>6. bornRegistered'[c] => Oracle \in registered BY <1>1 DEF Inv, Typed
<1>7. \A d \in Consumers \ {c} :
          /\ job'[d] = job[d] /\ pc'[d] = pc[d]
          /\ attested'[d] = attested[d] /\ bornRegistered'[d] = bornRegistered[d]
    BY <1>1 DEF Inv, Typed
<1>8. Fits(job'[c], pc'[c], attested'[c], bornRegistered'[c], now) BY <1>5, NoJobFits
<1> QED BY <1>1, <1>4, <1>6, <1>7, <1>8, OneConsumer

\* Steps of nobody's cycle: the clock and the registry only grow.
LEMMA OthersStep ==
    ASSUME Inv, UNCHANGED consumer, now' \in Int, now <= now', faultMode' \in Modes,
           registered \subseteq registered'
    PROVE  Inv'
<1>1. UNCHANGED <<pc, flag, attested, job, bornRegistered>> BY DEF consumer
<1>2. Typed' BY <1>1 DEF Inv, Typed
<1>3. now \in Int BY DEF Inv, Typed
<1>4. ASSUME NEW c \in Consumers
      PROVE  Fits(job[c], pc[c], attested[c], bornRegistered[c], now')
  <2>1. Fits(job[c], pc[c], attested[c], bornRegistered[c], now) BY Local
  <2>2. Honest(job[c].response) => job[c].response.sentAt \in Int BY DEF Honest, Responses
  <2> QED BY <1>3, <2>1, <2>2 DEF Fits
<1> QED BY <1>1, <1>2, <1>4 DEF Inv

(* Nobody has asked for anything at the start. *)
LEMMA InitStep == ASSUME Init PROVE Inv
<1>1. /\ now = 0 /\ faultMode = NoOne /\ pc = [c \in Consumers |-> "idle"] /\ flag \in [Consumers -> Flags]
      /\ attested = [c \in Consumers |-> "unknown"] /\ job = [c \in Consumers |-> NoJob]
      /\ bornRegistered = [c \in Consumers |-> Oracle \in registered]
    BY DEF Init
<1>2. flag \in [Consumers -> Modes] BY <1>1, Ages
<1>3. Typed BY <1>1, <1>2, NoJobFits DEF Typed, Modes, Pcs, Attestations
<1>4. ASSUME NEW c \in Consumers
      PROVE  Fits(job[c], pc[c], attested[c], bornRegistered[c], now) /\ (bornRegistered[c] => Oracle \in registered)
    BY <1>1, NoJobFits
<1> QED BY <1>3, <1>4 DEF Inv

(* Every step of the exchange keeps the invariant. *)
LEMMA NextStep == ASSUME Inv, [Next]_vars PROVE Inv'
<1>1. now \in Int /\ faultMode \in Modes /\ NoOne \in Modes BY DEF Inv, Typed, Modes
<1>2. CASE UNCHANGED vars BY <1>1, <1>2, OthersStep DEF vars, server
<1>3. ASSUME NEW c \in Consumers, Request(c) \/ ServePrice(c) \/ Receive(c) \/ Verify(c) \/ Adjudicate(c)
                                  \/ Act(c) \/ RestartConsumer(c)
      PROVE  Inv'
    BY <1>3, RequestStep, ServePriceStep, ReceiveStep, VerifyStep, AdjudicateStep, ActStep, RestartConsumerStep
<1>4. ASSUME NEW c \in Consumers, RefusePrice(c) \/ FetchFails(c) \/ AdjudicationFails(c)
                                  \/ PostVerdict(c) \/ PostIsLost(c)
      PROVE  Inv'
  <2>1. Finish(c) BY <1>4 DEF RefusePrice, FetchFails, AdjudicationFails, PostVerdict, PostIsLost
  <2>2. UNCHANGED <<now, registered, faultMode, flag, attested, bornRegistered>>
      BY <1>4 DEF RefusePrice, FetchFails, AdjudicationFails, PostVerdict, PostIsLost, server
  <2> QED BY <2>1, <2>2, FinishStep
<1>5. ASSUME NEW mode \in Faults \cup {NoOne}, SetFault(mode) PROVE Inv'
    BY <1>1, <1>5, OthersStep DEF SetFault, Modes
<1>6. CASE \/ StartTrigger \/ EndTrigger \/ TriggerFails \/ DemoPay
           \/ \E record \in Entries : StrangerPosts(record)
  <2>1. UNCHANGED consumer /\ now' = now /\ registered' = registered /\ faultMode' = faultMode
      BY <1>6 DEF StartTrigger, EndTrigger, TriggerFails, DemoPay, StrangerPosts
  <2> QED BY <1>1, <2>1, OthersStep
<1>7. CASE RestartServer BY <1>1, <1>7, OthersStep DEF RestartServer
<1>8. ASSUME NEW wallet, Register(wallet) PROVE Inv' BY <1>1, <1>8, OthersStep DEF Register, server
<1>9. CASE Tick
  <2>1. UNCHANGED consumer /\ now' = now + 1 /\ registered' = registered /\ faultMode' = faultMode
      BY <1>9 DEF Tick, server
  <2> QED BY <1>1, <2>1, OthersStep
<1> QED BY <1>2, <1>3, <1>4, <1>5, <1>6, <1>7, <1>8, <1>9 DEF Next

\* The invariant holds in every reachable state.
THEOREM ExchangeInvHolds == Spec => []Inv
<1>1. Init => Inv BY InitStep
<1>2. Inv /\ [Next]_vars => Inv' BY NextStep
<1> QED BY <1>1, <1>2, PTL DEF Spec

\* VerdictsAreEarned for any number of consumers, cycles, faults, restarts and
\* ages: Tier 1 convicts the defective and misses none, and nobody is slashed,
\* indicted or paid without cause (verifyDeterministic, gateSlash, runCycle).
THEOREM VerdictsEarned == Spec => []VerdictsAreEarned
<1>1. Inv => VerdictsAreEarned
  <2> SUFFICES ASSUME Inv, NEW c \in Consumers
               PROVE  /\ job[c].tier = "deterministic" => Defective(c) \/ (RegistrySet /\ ~bornRegistered[c])
                      /\ pc[c] = "judging" \/ job[c].tier = "semantic" => ~Defective(c)
                      /\ job[c].act \in {"slash", "indictment"} => job[c].verdict = "breach" /\ job[c].slash
                      /\ job[c].act = "indictment" => ~Defective(c)
                      /\ job[c].act = "settlement" => job[c].verdict = "ok" /\ ~Defective(c)
      BY DEF VerdictsAreEarned
  <2>1. Fits(job[c], pc[c], attested[c], bornRegistered[c], now) /\ job[c] \in Jobs BY Local
  <2>2. Defective(c) <=> Spoiled(job[c]) BY DEF Defective, Delay, Spoiled
  <2>3. job[c].act = "settlement" => job[c].tier = "semantic"
    <3>1. job[c].act # "none" => job[c].tier # "none" BY <2>1 DEF Fits
    <3>2. job[c].tier = "deterministic" => job[c].verdict = "breach" BY <2>1 DEF Fits
    <3>3. job[c].tier \in {"none", "deterministic", "semantic"} BY <2>1 DEF Jobs
    <3> QED BY <2>1, <3>1, <3>2, <3>3 DEF Fits
  <2> QED BY <2>1, <2>2, <2>3 DEF Fits
<1> QED BY <1>1, ExchangeInvHolds, PTL

-----------------------------------------------------------------------------
\* The feed and its counters.

Counters == Outcomes \cup Tiers

FeedInv ==
    /\ stats \in [Counters -> Nat]
    /\ verdicts \in Seq(Entries)
    /\ FeedMatchesCounters

\* How many entries of a kind a feed s shows.
ShownIn(s, kind) == Cardinality({i \in DOMAIN s : s[i] \in kind})

\* It is a number, also of a feed known by its length only.
LEMMA ShownIsNumber ==
    ASSUME NEW s \in Seq(Entries), NEW kind
    PROVE  /\ IsFiniteSet({i \in 1..Len(s) : s[i] \in kind})
           /\ ShownIn(s, kind) = Cardinality({i \in 1..Len(s) : s[i] \in kind})
           /\ ShownIn(s, kind) \in Nat
<1> DEFINE S == {i \in 1..Len(s) : s[i] \in kind}
<1>1. IsFiniteSet(1..Len(s)) /\ S \in SUBSET (1..Len(s)) BY FS_Interval
<1>2. {i \in DOMAIN s : s[i] \in kind} = S OBVIOUS
<1> HIDE DEF S
<1>3. IsFiniteSet(S) /\ Cardinality(S) \in Nat BY <1>1, FS_Subset, FS_CardinalityType
<1> QED BY <1>2, <1>3 DEF ShownIn, S

\* An appended entry is shown once, and dropping the oldest shows no more.
LEMMA ShownAppend ==
    ASSUME NEW s \in Seq(Entries), NEW e \in Entries, NEW kind
    PROVE  ShownIn(Append(s, e), kind) = ShownIn(s, kind) + (IF e \in kind THEN 1 ELSE 0)
<1> DEFINE z == Append(s, e)
           S == {i \in 1..Len(s) : s[i] \in kind}
           T == {i \in 1..Len(z) : z[i] \in kind}
           n == Len(s) + 1
<1>1. z \in Seq(Entries) OBVIOUS
<1>2. /\ IsFiniteSet(S) /\ ShownIn(s, kind) = Cardinality(S)
      /\ ShownIn(z, kind) = Cardinality(T) /\ Cardinality(S) \in Nat
  <2> HIDE DEF z
  <2>1. ShownIn(s, kind) \in Nat BY ShownIsNumber
  <2> QED BY <1>1, <2>1, ShownIsNumber
<1>3. n \notin S OBVIOUS
<1>4. T = IF e \in kind THEN S \cup {n} ELSE S
  <2>1. Len(z) = n /\ z[n] = e /\ \A i \in 1..Len(s) : z[i] = s[i] OBVIOUS
  <2>2. 1..n = (1..Len(s)) \cup {n} /\ n \notin 1..Len(s) OBVIOUS
  <2> HIDE DEF z, n
  <2> QED BY <2>1, <2>2
<1> HIDE DEF S, T, n, z
<1>5. Cardinality(S \cup {n}) = Cardinality(S) + 1 BY <1>2, <1>3, FS_AddElement
<1> QED BY <1>2, <1>4, <1>5 DEF z

(* Evicting the oldest entry of the feed shows no kind more often. *)
LEMMA ShownTail ==
    ASSUME NEW s \in Seq(Entries), s # <<>>, NEW kind
    PROVE  ShownIn(Tail(s), kind) <= ShownIn(s, kind)
<1> DEFINE z == Tail(s)
           S == {i \in 1..Len(s) : s[i] \in kind}
           T == {i \in 1..Len(z) : z[i] \in kind}
           f == [i \in T |-> i + 1]
<1>1. z \in Seq(Entries) /\ Len(z) = Len(s) - 1 /\ \A i \in 1..Len(z) : z[i] = s[i + 1] OBVIOUS
<1> HIDE DEF z
<1>2. IsFiniteSet(S) /\ IsFiniteSet(T) /\ ShownIn(s, kind) = Cardinality(S)
      /\ ShownIn(z, kind) = Cardinality(T)
    BY <1>1, ShownIsNumber
<1>3. f \in Injection(T, S)
  <2>1. \A i \in T : i + 1 \in S /\ i \in Nat BY <1>1
  <2> HIDE DEF S, T
  <2>2. f \in [T -> S] /\ \A i, j \in T : f[i] = f[j] => i = j BY <2>1
  <2> QED BY <2>2 DEF Injection, IsInjective
<1> HIDE DEF S, T, f
<1>4. Cardinality(T) <= Cardinality(S) BY <1>2, <1>3, FS_Injection DEF ExistsInjection
<1> QED BY <1>2, <1>4 DEF z

\* What a push does to the feed: it keeps to its length, shows the new entry
\* at most once more of any kind, and exactly so while nothing is evicted.
LEMMA PushShows ==
    ASSUME FeedInv, NEW e \in Entries, Push(e)
    PROVE  /\ verdicts' \in Seq(Entries) /\ Len(verdicts') <= MaxVerdicts
           /\ Len(verdicts') < MaxVerdicts => Len(verdicts) < MaxVerdicts
           /\ \A kind :
                /\ ShownIn(verdicts, kind) \in Nat /\ ShownIn(verdicts', kind) \in Nat
                /\ ShownIn(verdicts', kind) <= ShownIn(verdicts, kind) + (IF e \in kind THEN 1 ELSE 0)
                /\ Len(verdicts) < MaxVerdicts =>
                      ShownIn(verdicts', kind) = ShownIn(verdicts, kind) + (IF e \in kind THEN 1 ELSE 0)
<1> DEFINE n    == Len(verdicts)
           kept == IF n < MaxVerdicts THEN verdicts ELSE Tail(verdicts)
<1>1. MaxVerdicts \in Nat /\ MaxVerdicts > 0 /\ n \in Nat /\ n <= MaxVerdicts /\ verdicts \in Seq(Entries)
    BY ExchangeAssumption DEF ExchangeAssumption, FeedInv, FeedMatchesCounters
<1>2. /\ verdicts' = Append(kept, e) /\ kept \in Seq(Entries)
      /\ Len(kept) = IF n < MaxVerdicts THEN n ELSE n - 1
      /\ n >= MaxVerdicts => verdicts # <<>>
    BY <1>1 DEF Push
<1>3. verdicts' \in Seq(Entries) /\ Len(verdicts') = Len(kept) + 1
  <2> HIDE DEF kept
  <2> QED BY <1>2
<1>4. ASSUME NEW kind
      PROVE  /\ ShownIn(kept, kind) \in Nat /\ ShownIn(verdicts, kind) \in Nat
             /\ ShownIn(kept, kind) <= ShownIn(verdicts, kind)
             /\ n < MaxVerdicts => ShownIn(kept, kind) = ShownIn(verdicts, kind)
  <2>1. ShownIn(verdicts, kind) \in Nat BY <1>1, ShownIsNumber
  <2>2. CASE n < MaxVerdicts BY <2>1, <2>2
  <2>3. CASE n >= MaxVerdicts
    <3>1. kept = Tail(verdicts) /\ kept \in Seq(Entries) /\ verdicts # <<>> BY <1>1, <1>2, <2>3
    <3> HIDE DEF kept
    <3>2. ShownIn(kept, kind) \in Nat BY <3>1, ShownIsNumber
    <3> QED BY <1>1, <2>1, <2>3, <3>1, <3>2, ShownTail
  <2> QED BY <1>1, <2>2, <2>3
<1> HIDE DEF kept, n
<1>5. ASSUME NEW kind
      PROVE  ShownIn(verdicts', kind) = ShownIn(kept, kind) + (IF e \in kind THEN 1 ELSE 0)
    BY <1>2, ShownAppend
<1> QED BY <1>1, <1>2, <1>3, <1>4, <1>5 DEF n

\* A push with its counts: each key counts the entry, and a key that counts
\* more than it shows is the tier of a trigger, shown as a breach of no tier.
LEMMA PushStep ==
    ASSUME FeedInv, NEW e \in Entries, NEW keys, Push(e), Count(keys),
           \A k \in Counters : e \in Under(k) => k \in keys,
           \A k \in Counters \ {"deterministic"} : k \in keys => e \in Under(k),
           "deterministic" \in keys => e \in Under("deterministic") \cup {TriggeredRecord}
    PROVE  FeedInv'
<1> DEFINE wide == Under("deterministic") \cup {TriggeredRecord}
<1>1. stats \in [Counters -> Nat] /\ DOMAIN stats = Counters BY DEF FeedInv
<1>2. stats' = [k \in Counters |-> IF k \in keys THEN stats[k] + 1 ELSE stats[k]]
    BY <1>1 DEF Count
<1>3. stats' \in [Counters -> Nat] /\ DOMAIN stats' = Counters BY <1>1, <1>2
<1>4. /\ verdicts' \in Seq(Entries) /\ Len(verdicts') <= MaxVerdicts
      /\ Len(verdicts') < MaxVerdicts => Len(verdicts) < MaxVerdicts
    BY PushShows
<1>5. ASSUME NEW kind
      PROVE  /\ ShownIn(verdicts, kind) \in Nat /\ ShownIn(verdicts', kind) \in Nat
             /\ ShownIn(verdicts', kind) <= ShownIn(verdicts, kind) + (IF e \in kind THEN 1 ELSE 0)
             /\ Len(verdicts) < MaxVerdicts =>
                   ShownIn(verdicts', kind) = ShownIn(verdicts, kind) + (IF e \in kind THEN 1 ELSE 0)
    BY PushShows
<1>6. ASSUME NEW k \in Counters
      PROVE  /\ stats[k] \in Nat /\ ShownIn(verdicts, Under(k)) <= stats[k]
             /\ stats'[k] = IF k \in keys THEN stats[k] + 1 ELSE stats[k]
    BY <1>1, <1>2 DEF FeedInv, FeedMatchesCounters, Shown, ShownIn
<1>7. ASSUME NEW k \in Counters PROVE ShownIn(verdicts', Under(k)) <= stats'[k]
  <2> DEFINE before == ShownIn(verdicts, Under(k))
             after  == ShownIn(verdicts', Under(k))
  <2>1. before \in Nat /\ after \in Nat /\ after <= before + (IF e \in Under(k) THEN 1 ELSE 0) BY <1>5
  <2>2. before <= stats[k] /\ stats[k] \in Nat
        /\ stats'[k] = IF k \in keys THEN stats[k] + 1 ELSE stats[k] BY <1>6
  <2> HIDE DEF before, after
  <2>3. after <= stats'[k] BY <2>1, <2>2
  <2> QED BY <2>3 DEF after
<1>8. ASSUME NEW k \in Counters \ {"deterministic"}, Len(verdicts') < MaxVerdicts
      PROVE  stats'[k] = ShownIn(verdicts', Under(k))
  <2>1. ShownIn(verdicts, Under(k)) = stats[k]
      BY <1>1, <1>4, <1>8 DEF FeedInv, FeedMatchesCounters, Shown, ShownIn
  <2>2. e \in Under(k) <=> k \in keys OBVIOUS
  <2>3. ShownIn(verdicts', Under(k)) = stats[k] + (IF k \in keys THEN 1 ELSE 0)
      BY <1>4, <1>5, <1>8, <2>1, <2>2
  <2>4. stats[k] \in Nat /\ stats'[k] = IF k \in keys THEN stats[k] + 1 ELSE stats[k] BY <1>6
  <2> QED BY <2>3, <2>4
<1>9. ASSUME Len(verdicts') < MaxVerdicts
      PROVE  stats'["deterministic"] <= ShownIn(verdicts', wide)
  <2>1. stats["deterministic"] <= ShownIn(verdicts, wide)
      BY <1>4, <1>9 DEF FeedInv, FeedMatchesCounters, Shown, ShownIn
  <2>2. ShownIn(verdicts', wide) = ShownIn(verdicts, wide) + (IF e \in wide THEN 1 ELSE 0)
        /\ ShownIn(verdicts, wide) \in Nat
      BY <1>4, <1>5, <1>9
  <2>3. "deterministic" \in Counters BY DEF Counters, Tiers
  <2>4. /\ stats["deterministic"] \in Nat
        /\ stats'["deterministic"] = IF "deterministic" \in keys THEN stats["deterministic"] + 1
                                                                 ELSE stats["deterministic"]
      BY <1>6, <2>3
  <2>5. "deterministic" \in keys => e \in wide OBVIOUS
  <2> HIDE DEF wide
  <2> QED BY <2>1, <2>2, <2>4, <2>5
<1>10. FeedMatchesCounters'
    BY <1>3, <1>4, <1>7, <1>8, <1>9 DEF FeedMatchesCounters, Shown, ShownIn
<1> QED BY <1>3, <1>4, <1>10 DEF FeedInv

\* Any record that is posted is counted under what it says, and no more.
LEMMA PostStep == ASSUME FeedInv, NEW e \in Entries, Post(e) PROVE FeedInv'
<1> DEFINE keys == {e.verdict, e.tier}
<1>1. Push(e) /\ Count(keys) BY DEF Post
<1>2. \A k : e \in Under(k) <=> k \in keys BY DEF Under
<1> HIDE DEF keys
<1> QED BY <1>1, <1>2, PushStep

\* So is what a trigger records, under a tier it does not say.
LEMMA TriggerRecordStep ==
    ASSUME FeedInv, Push(TriggeredRecord), Count({"breach", "deterministic"}) PROVE FeedInv'
<1> DEFINE keys == {"breach", "deterministic"}
           e    == TriggeredRecord
<1>1. e \in Entries /\ e.verdict = "breach" /\ e.tier = "none"
    BY DEF TriggeredRecord, Entries, Outcomes, Tiers
<1>2. \A k : e \in Under(k) <=> k \in {"breach", "none"} BY <1>1 DEF Under
<1>3. \A k \in Counters : e \in Under(k) => k \in keys BY <1>2 DEF Counters, Outcomes, Tiers
<1>4. \A k \in Counters \ {"deterministic"} : k \in keys => e \in Under(k) BY <1>2
<1>5. e \in Under("deterministic") \cup {TriggeredRecord} OBVIOUS
<1> HIDE DEF keys, e
<1>6. Push(e) /\ Count(keys) BY DEF e, keys
<1> QED BY <1>1, <1>3, <1>4, <1>5, <1>6, PushStep

\* A server that starts has counted nothing and shows nothing.
LEMMA StartStep == (stats = NoStats /\ verdicts = <<>>) => FeedInv
<1> SUFFICES ASSUME stats = NoStats, verdicts = <<>> PROVE FeedInv OBVIOUS
<1>1. MaxVerdicts \in Nat /\ MaxVerdicts > 0 BY ExchangeAssumption DEF ExchangeAssumption
<1>2. /\ stats \in [Counters -> Nat] /\ DOMAIN stats = Counters
      /\ \A k \in Counters : stats[k] = 0
    BY DEF NoStats, Counters
<1>3. \A kind : ShownIn(<<>>, kind) = 0
  <2> SUFFICES ASSUME NEW kind PROVE ShownIn(<<>>, kind) = 0 OBVIOUS
  <2>1. DOMAIN <<>> = {} OBVIOUS
  <2>2. {i \in DOMAIN <<>> : <<>>[i] \in kind} = {} BY <2>1
  <2> QED BY <2>2, FS_EmptySet DEF ShownIn
<1>4. Len(verdicts) = 0 /\ verdicts \in Seq(Entries) OBVIOUS
<1>5. \A kind : Shown(kind) = 0 BY <1>3 DEF Shown, ShownIn
<1>6. stats["deterministic"] = 0 BY <1>2 DEF Counters, Tiers
<1> QED BY <1>1, <1>2, <1>4, <1>5, <1>6 DEF FeedInv, FeedMatchesCounters

\* Every other step leaves the feed and the counters alone.
LEMMA QuietStep ==
    ASSUME [Next]_vars, ~RestartServer, ~EndTrigger,
           \A c \in Consumers : ~PostVerdict(c), \A record \in Entries : ~StrangerPosts(record)
    PROVE  UNCHANGED <<stats, verdicts>>
<1>1. CASE UNCHANGED vars BY <1>1 DEF vars, server
<1>2. ASSUME NEW c \in Consumers, Request(c) \/ ServePrice(c) \/ RefusePrice(c) \/ FetchFails(c)
      PROVE  UNCHANGED <<stats, verdicts>>
    BY <1>2 DEF Request, ServePrice, RefusePrice, FetchFails, server
<1>3. ASSUME NEW c \in Consumers, Receive(c) \/ Verify(c) \/ Adjudicate(c) \/ AdjudicationFails(c)
      PROVE  UNCHANGED <<stats, verdicts>>
    BY <1>3 DEF Receive, Verify, Adjudicate, AdjudicationFails, server
<1>4. ASSUME NEW c \in Consumers, Act(c) \/ PostIsLost(c) \/ RestartConsumer(c)
      PROVE  UNCHANGED <<stats, verdicts>>
    BY <1>4 DEF Act, PostIsLost, RestartConsumer, server
<1>5. ASSUME NEW mode, SetFault(mode) PROVE UNCHANGED <<stats, verdicts>> BY <1>5 DEF SetFault
<1>6. CASE StartTrigger \/ TriggerFails \/ DemoPay BY <1>6 DEF StartTrigger, TriggerFails, DemoPay
<1>7. ASSUME NEW wallet, Register(wallet) PROVE UNCHANGED <<stats, verdicts>>
    BY <1>7 DEF Register, server
<1>8. CASE Tick BY <1>8 DEF Tick, server
<1> QED BY <1>1, <1>2, <1>3, <1>4, <1>5, <1>6, <1>7, <1>8 DEF Next

\* FeedMatchesCounters for any ring size, consumers, cycles, restarts and any
\* number of strangers who post what they like: no counter is behind the feed,
\* and before the first eviction none is ahead of it, a trigger's tier apart
\* (POST /api/verdicts, POST /admin/trigger-cycle).
THEOREM FeedIsCounted == Spec => []FeedMatchesCounters
<1>1. Init => FeedInv BY StartStep DEF Init
<1>2. Inv /\ FeedInv /\ [Next]_vars => FeedInv'
  <2> SUFFICES ASSUME Inv, FeedInv, [Next]_vars PROVE FeedInv' OBVIOUS
  <2>1. CASE UNCHANGED <<stats, verdicts>> BY <2>1 DEF FeedInv, FeedMatchesCounters, Shown
  <2>2. ASSUME NEW c \in Consumers, PostVerdict(c) PROVE FeedInv'
    <3>1. pc[c] = "posting" /\ Post(Record(c)) BY <2>2 DEF PostVerdict
    <3>2. job[c] \in Jobs /\ job[c].tier \in Tiers /\ job[c].verdict \in Outcomes
        BY <3>1, Local DEF Fits, Jobs, Tiers
    <3>3. Record(c) \in Entries BY <3>2 DEF Record, Entries
    <3> QED BY <3>1, <3>3, PostStep
  <2>3. ASSUME NEW record \in Entries, StrangerPosts(record) PROVE FeedInv'
    BY <2>3, PostStep DEF StrangerPosts
  <2>4. CASE EndTrigger BY <2>4, TriggerRecordStep DEF EndTrigger
  <2>5. CASE RestartServer
    <3>1. (stats = NoStats /\ verdicts = <<>>)' BY <2>5 DEF RestartServer
    <3> QED BY <3>1, StartStep, PTL
  <2> QED BY <2>1, <2>2, <2>3, <2>4, <2>5, QuietStep
<1>3. FeedInv => FeedMatchesCounters BY DEF FeedInv
<1> QED BY <1>1, <1>2, <1>3, ExchangeInvHolds, PTL DEF Spec
=============================================================================
