---------------------------- MODULE RequestsProofs ----------------------------
(* Theorems of the three request handlers that share nothing.                 *)
(* The chain statistics: TotalsAreExact and CacheIsFresh for any chain, chunk *)
(* size, time to live, set of requests and order of failures. The log of an   *)
(* event is always exact up to the block it names, one scan at a time brings  *)
(* all logs to the block it started from, and dates the cache by that start.  *)
(* The premium analyses and the acquisition server with its form: for any     *)
(* number of jobs, clicks, requests, POSTs and restarts.                      *)
EXTENDS ChainStats, PremiumJobs, Acquisition, TLAPS, FiniteSetTheorems

-----------------------------------------------------------------------------
(* The chain statistics. *)

(* A set of numbers that is not empty has a least one, and Min is it. *)
LEMMA MinOfNumbers ==
  ASSUME NEW S \in SUBSET Nat, S # {}
  PROVE  Min(S) \in S /\ \A y \in S : Min(S) <= y
<1>1. PICK n \in S : TRUE OBVIOUS
<1> DEFINE F == FiniteSubsetsOf(0..n)
           R == StrictSubsetOrdering(0..n)
           B == {m \in S : m <= n}
           T == {0..x : x \in B}
<1>2. IsWellFoundedOn(R, F) BY FS_StrictSubsetOrderingWellFounded
<1>3. \A x \in B : 0..x \in F
  <2> SUFFICES ASSUME NEW x \in B PROVE 0..x \in F OBVIOUS
  <2>1. IsFiniteSet(0..x) BY FS_Interval
  <2>2. 0..x \subseteq 0..n OBVIOUS
  <2> QED BY <2>1, <2>2 DEF FiniteSubsetsOf
<1>4. T \subseteq F /\ T # {}
  <2>1. n \in B OBVIOUS
  <2> HIDE DEF F, B
  <2> QED BY <1>3, <2>1
<1>5. \E U \in T : \A V \in T : ~(<<V, U>> \in R)
  <2> HIDE DEF T, R, F
  <2> QED BY <1>2, <1>4, WFMin
<1>6. PICK x \in B : \A y \in B : ~(<<0..y, 0..x>> \in R)
  <2> HIDE DEF R, B
  <2> QED BY <1>5
<1>7. \A y \in S : x <= y
  <2> SUFFICES ASSUME NEW y \in S, y < x PROVE FALSE OBVIOUS
  <2>1. y \in B /\ 0..y \subseteq 0..x /\ 0..y # 0..x /\ 0..y \subseteq 0..n /\ 0..x \subseteq 0..n OBVIOUS
  <2>2. <<0..y, 0..x>> \in R BY <2>1 DEF StrictSubsetOrdering
  <2> HIDE DEF R
  <2> QED BY <1>6, <2>1, <2>2
<1>8. \E z \in S : \A y \in S : z <= y BY <1>7
<1> QED BY <1>8 DEF Min

(* The lesser of two numbers. *)
LEMMA MinOfTwo ==
  ASSUME NEW a \in Int, NEW b \in Int
  PROVE  Min({a, b}) \in {a, b} /\ Min({a, b}) <= a /\ Min({a, b}) <= b
<1>1. \E x \in {a, b} : \A y \in {a, b} : x <= y OBVIOUS
<1> QED BY <1>1 DEF Min

-----------------------------------------------------------------------------
(* Logs of a chain c that need not be the present one. *)
LogsOf(c, e, first, last) == Cardinality({n \in first..last : c[n].event = e})

(* The logs a request answers are those of the present chain. *)
LEMMA LogsArePresent == \A e, first, last : Logs(e, first, last) = LogsOf(chain, e, first, last)
BY DEF Logs, LogsOf

(* Logs of two stretches that meet add up. *)
LEMMA LogsAdd ==
  ASSUME NEW c, NEW e, NEW a \in Nat, NEW b \in Nat, a <= b
  PROVE  LogsOf(c, e, 1, b) = LogsOf(c, e, 1, a) + LogsOf(c, e, a + 1, b)
<1> DEFINE S == {n \in 1..a : c[n].event = e}
           T == {n \in (a + 1)..b : c[n].event = e}
           U == {n \in 1..b : c[n].event = e}
<1>1. IsFiniteSet(S) /\ IsFiniteSet(T)
  <2>1. IsFiniteSet(1..a) /\ IsFiniteSet((a + 1)..b) BY FS_Interval
  <2>2. S \in SUBSET (1..a) /\ T \in SUBSET ((a + 1)..b) OBVIOUS
  <2> HIDE DEF S, T
  <2> QED BY <2>1, <2>2, FS_Subset
<1>2. U = S \cup T /\ S \cap T = {} OBVIOUS
<1> HIDE DEF S, T, U
<1>3. Cardinality(U) = Cardinality(S) + Cardinality(T) - Cardinality(S \cap T) BY <1>1, <1>2, FS_Union
<1>4. Cardinality(S) \in Nat /\ Cardinality(T) \in Nat BY <1>1, FS_CardinalityType
<1>5. Cardinality(S \cap T) = 0 BY <1>2, FS_EmptySet
<1>6. Cardinality(U) = Cardinality(S) + Cardinality(T) BY <1>3, <1>4, <1>5
<1> QED BY <1>6 DEF LogsOf, S, T, U

(* A count of logs is a number, and of no blocks it is none. *)
LEMMA LogsCount ==
  ASSUME NEW c, NEW e, NEW a \in Nat, NEW b \in Nat
  PROVE  LogsOf(c, e, a, b) \in Nat /\ LogsOf(c, e, 1, 0) = 0
<1>1. IsFiniteSet(a..b) BY FS_Interval
<1>2. IsFiniteSet({n \in a..b : c[n].event = e})
  <2>1. {n \in a..b : c[n].event = e} \in SUBSET (a..b) OBVIOUS
  <2> QED BY <1>1, <2>1, FS_Subset
<1>3. {n \in 1..0 : c[n].event = e} = {} OBVIOUS
<1> QED BY <1>2, <1>3, FS_CardinalityType, FS_EmptySet DEF LogsOf

(* Blocks that are mined later change no log of earlier ones. *)
LEMMA LogsStay ==
  ASSUME NEW c, NEW d, NEW e, NEW b \in Nat, \A n \in 1..b : d[n] = c[n]
  PROVE  LogsOf(d, e, 1, b) = LogsOf(c, e, 1, b)
<1>1. {n \in 1..b : d[n].event = e} = {n \in 1..b : c[n].event = e} OBVIOUS
<1> QED BY <1>1 DEF LogsOf

-----------------------------------------------------------------------------
Blocks == [event: Events \cup {"AgentSlashed", "other"}, at: Int]
Polls == {"idle", "scanning", "waiting"}
Scans == [step: Nat, latest: Nat, start: Nat, startedAt: Int, attempt: Nat]

Typed ==
  /\ now \in Int
  /\ chain \in Seq(Blocks)
  /\ entries \in [Events -> [held: Nat, last: Nat]]
  /\ inFlight \in Clients \cup {NoOne}
  /\ poll \in [Clients -> Polls]
  /\ scan \in [Clients -> Scans]

(* Every log is exact up to the block it names. *)
ExactLogs(ent, c) ==
  \A e \in Events : ent[e].last <= Len(c) /\ ent[e].held = LogsOf(c, e, 1, ent[e].last)

(* The queries before step i have brought their logs to block latest, and no  *)
(* log is past it.                                                            *)
Reached(ent, i, latest) ==
  /\ \A e \in Events : ent[e].last <= latest
  /\ \A j \in DOMAIN Queries : j < i /\ Queries[j] # "bonds" => ent[Queries[j]].last = latest

(* What is true of the locals s of the one scan that may be running. *)
GoodScan(s, ent, c) ==
  s.step > 0 =>
    /\ s.step \in DOMAIN Queries /\ s.latest <= Len(c)
    /\ Reached(ent, s.step, s.latest)
    /\ Queries[s.step] # "bonds" => s.start = ent[Queries[s.step]].last + 1 /\ s.start <= s.latest

OneScan == \A c \in Clients : poll[c] = "scanning" => inFlight = c /\ GoodScan(scan[c], entries, chain)

ExactCache(stats, c) ==
  stats # NoStats => /\ stats.upTo \in Nat /\ stats.upTo <= Len(c)
                     /\ \A e \in Events : stats.totals[e] = LogsOf(c, e, 1, stats.upTo)

(* The inductive invariant. *)
Inv == Typed /\ ExactLogs(entries, chain) /\ OneScan /\ ExactCache(cache, chain)

(* What the retries and the chunks change of the locals of a scan. *)
LEMMA ScanChanges ==
  ASSUME NEW r \in Scans, NEW n \in Nat
  PROVE  /\ [r EXCEPT !.start = n] \in Scans
         /\ [r EXCEPT !.start = n].step = r.step
         /\ [r EXCEPT !.start = n].latest = r.latest
         /\ [r EXCEPT !.start = n].start = n
         /\ [r EXCEPT !.attempt = n] \in Scans
         /\ [r EXCEPT !.attempt = n].step = r.step
         /\ [r EXCEPT !.attempt = n].latest = r.latest
         /\ [r EXCEPT !.attempt = n].start = r.start
BY DEF Scans

(* Queries are numbered from one, and those that are not of bonds are events. *)
LEMMA QueryNumbers ==
  /\ DOMAIN Queries = 1..Len(Queries) /\ Len(Queries) \in Nat
  /\ \A j \in DOMAIN Queries : Queries[j] # "bonds" => Queries[j] \in Events
  /\ \A e \in Events : \E j \in DOMAIN Queries : Queries[j] = e /\ Queries[j] # "bonds"
  /\ ChunkSize \in Nat /\ ChunkSize > 0
BY ChainStatsAssumption DEF ChainStatsAssumption, Events

(* The end of a step of the scan of c, when its log has reached latest. *)
LEMMA AdvanceStep ==
  ASSUME Inv, NEW c \in Clients, poll[c] = "scanning", chain' = chain, now' = now,
         NEW i \in Nat, NEW latest \in Nat, latest <= Len(chain),
         entries' \in [Events -> [held: Nat, last: Nat]],
         ExactLogs(entries', chain), Reached(entries', i + 1, latest), Advance(c, i, latest)
  PROVE  Inv'
<1> DEFINE ent == entries'
           P == Pending(i, latest)
<1>0. inFlight = c /\ \A d \in Clients : d # c => poll[d] # "scanning" BY DEF Inv, OneScan
<1>1. CASE P = {}
  <2>1. /\ cache' = [upTo |-> latest, totals |-> [e \in Events |-> ent[e].held]]
        /\ poll' = [d \in Clients |-> IF d = c \/ poll[d] = "waiting" THEN "idle" ELSE poll[d]]
        /\ inFlight' = NoOne /\ scan' = [scan EXCEPT ![c] = NoScan]
    BY <1>1 DEF Advance, Cache, Settle
  <2>2. \A j \in DOMAIN Queries : Queries[j] # "bonds" => ent[Queries[j]].last = latest
    <3> SUFFICES ASSUME NEW j \in DOMAIN Queries, Queries[j] # "bonds" PROVE ent[Queries[j]].last = latest
      OBVIOUS
    <3>1. Queries[j] \in Events /\ j \in Nat BY QueryNumbers
    <3>2. ent[Queries[j]].last \in Nat /\ ent[Queries[j]].last <= latest BY <3>1 DEF Reached
    <3>3. CASE j > i BY <3>2, <3>3, <1>1 DEF Pending
    <3>4. CASE ~(j > i) BY <3>1, <3>4 DEF Reached
    <3> QED BY <3>3, <3>4
  <2>3. \A e \in Events : ent[e].held = LogsOf(chain, e, 1, latest)
    BY <2>2, QueryNumbers DEF ExactLogs
  <2>4. ExactCache(cache, chain)'
    <3>1. cache'.upTo = latest /\ \A e \in Events : cache'.totals[e] = ent[e].held BY <2>1
    <3> QED BY <3>1, <2>3 DEF ExactCache
  <2>5. \A d \in Clients : poll'[d] # "scanning" BY <1>0, <2>1
  <2>6. NoScan \in Scans BY DEF NoScan, Scans
  <2>7. Typed' BY <2>1, <2>6 DEF Inv, Typed, Polls
  <2> QED BY <2>4, <2>5, <2>7 DEF Inv, OneScan
<1>2. CASE P # {}
  <2> DEFINE j == Min(P)
             start == IF Queries[j] = "bonds" THEN 0 ELSE ent[Queries[j]].last + 1
             s == [scan[c] EXCEPT !.step = j, !.latest = latest, !.attempt = 0, !.start = start]
  <2>1. scan' = [scan EXCEPT ![c] = s] /\ UNCHANGED <<cache, cachedAt, inFlight, poll>>
    <3>1. scan[c] \in Scans /\ scan \in [Clients -> Scans] BY DEF Inv, Typed
    <3> QED BY <3>1, <1>2 DEF Advance
  <2>2. P \in SUBSET Nat BY QueryNumbers DEF Pending
  <2>3. j \in P /\ \A k \in P : j <= k
    <3> HIDE DEF P
    <3> QED BY <1>2, <2>2, MinOfNumbers
  <2> HIDE DEF j
  <2>4. j \in DOMAIN Queries /\ j > i /\ j \in Nat /\ (Queries[j] = "bonds" \/ ent[Queries[j]].last < latest)
    BY <2>3, QueryNumbers DEF Pending
  <2>5. start \in Nat BY <2>4, QueryNumbers
  <2>6. s \in Scans /\ s.step = j /\ s.latest = latest /\ s.start = start
    BY <2>4, <2>5 DEF Inv, Typed, Scans
  <2>7. Reached(ent, j, latest)
    <3> SUFFICES ASSUME NEW k \in DOMAIN Queries, k < j, Queries[k] # "bonds" PROVE ent[Queries[k]].last = latest
      BY DEF Reached
    <3>1. Queries[k] \in Events /\ k \in Nat BY QueryNumbers
    <3>2. ent[Queries[k]].last \in Nat /\ ent[Queries[k]].last <= latest BY <3>1 DEF Reached
    <3>3. CASE k > i
      <4>1. k \notin P BY <2>3, <2>4, <3>1
      <4> QED BY <4>1, <3>2, <3>3 DEF Pending
    <3>4. CASE ~(k > i) BY <3>1, <3>4 DEF Reached
    <3> QED BY <3>3, <3>4
  <2>8. GoodScan(s, ent, chain)
    <3>1. Queries[j] # "bonds" => start = ent[Queries[j]].last + 1 /\ start <= latest
      BY <2>4, QueryNumbers
    <3> HIDE DEF s, start
    <3> QED BY <2>4, <2>6, <2>7, <3>1 DEF GoodScan
  <2> HIDE DEF s, start
  <2>9. Typed' BY <2>1, <2>6 DEF Inv, Typed
  <2>10. OneScan' BY <1>0, <2>1, <2>8 DEF Inv, OneScan, Typed
  <2> QED BY <2>1, <2>9, <2>10 DEF Inv
<1> QED BY <1>1, <1>2

(* The first call of a scan finds no log past the end of the chain... *)
LEMMA BlockNumberStep == ASSUME Inv, NEW c \in Clients, BlockNumber(c) PROVE Inv'
<1>1. poll[c] = "scanning" /\ entries' = entries /\ Advance(c, 0, Len(chain)) /\ chain' = chain /\ now' = now
  BY DEF BlockNumber
<1>2. Len(chain) \in Nat /\ entries' \in [Events -> [held: Nat, last: Nat]] /\ ExactLogs(entries', chain)
  BY <1>1 DEF Inv, Typed
<1>3. Reached(entries', 0 + 1, Len(chain)) BY <1>2, QueryNumbers DEF Reached, ExactLogs
<1> QED BY <1>1, <1>2, <1>3, AdvanceStep

(* ...reading the bonds moves no log... *)
LEMMA ReadBondsStep == ASSUME Inv, NEW c \in Clients, ReadBonds(c) PROVE Inv'
<1> DEFINE i == scan[c].step
           latest == scan[c].latest
<1>1. /\ poll[c] = "scanning" /\ i > 0 /\ Queries[i] = "bonds" /\ entries' = entries
      /\ Advance(c, i, latest) /\ chain' = chain /\ now' = now
  BY DEF ReadBonds
<1>2. GoodScan(scan[c], entries, chain) BY <1>1 DEF Inv, OneScan
<1>3. i \in Nat /\ latest \in Nat /\ latest <= Len(chain) /\ Reached(entries, i, latest)
  BY <1>1, <1>2 DEF GoodScan, Inv, Typed, Scans
<1>4. Reached(entries', i + 1, latest)
  <2> SUFFICES ASSUME NEW j \in DOMAIN Queries, j < i + 1, Queries[j] # "bonds"
               PROVE  entries[Queries[j]].last = latest
    BY <1>1, <1>3 DEF Reached
  <2>1. j # i /\ j \in Nat BY <1>1, QueryNumbers
  <2>2. j < i BY <2>1, <1>3
  <2> HIDE DEF i, latest
  <2> QED BY <2>2, <1>3 DEF Reached
<1> HIDE DEF i, latest
<1>5. entries' \in [Events -> [held: Nat, last: Nat]] /\ ExactLogs(entries', chain) BY <1>1 DEF Inv, Typed
<1> QED BY <1>1, <1>3, <1>4, <1>5, AdvanceStep

(* ...and a chunk is added to the log it continues. *)
LEMMA ReadChunkStep == ASSUME Inv, NEW c \in Clients, ReadChunk(c) PROVE Inv'
<1> DEFINE i == scan[c].step
           latest == scan[c].latest
           start == scan[c].start
           e == Queries[i]
           end == ChunkEnd(c)
           old == entries[e]
           new == [held |-> old.held + Logs(e, start, end), last |-> end]
<1>1. /\ poll[c] = "scanning" /\ i > 0 /\ e # "bonds" /\ entries' = [entries EXCEPT ![e] = new]
      /\ chain' = chain /\ now' = now
      /\ IF end < latest
         THEN /\ scan' = [scan EXCEPT ![c].start = end + 1, ![c].attempt = 0]
              /\ UNCHANGED <<cache, cachedAt, inFlight, poll>>
         ELSE Advance(c, i, latest)
  BY DEF ReadChunk, ChunkOf
<1>2. scan[c] \in Scans /\ entries \in [Events -> [held: Nat, last: Nat]] /\ scan \in [Clients -> Scans]
  BY DEF Inv, Typed
<1>3. GoodScan(scan[c], entries, chain) /\ inFlight = c BY <1>1 DEF Inv, OneScan
<1>4. /\ i \in DOMAIN Queries /\ e \in Events /\ i \in Nat /\ latest \in Nat /\ latest <= Len(chain)
      /\ Reached(entries, i, latest) /\ start = old.last + 1 /\ start <= latest
  BY <1>1, <1>2, <1>3, QueryNumbers DEF GoodScan, Scans
<1>5. old.last \in Nat /\ old.held \in Nat /\ start \in Nat /\ Len(chain) \in Nat
  BY <1>2, <1>4 DEF Inv, Typed
<1>6. end \in Nat /\ end >= start /\ end <= latest
  <2> DEFINE z == start + ChunkSize - 1
  <2>1. end = Min({z, latest}) BY DEF ChunkEnd
  <2>2. z \in Int /\ z >= start BY <1>5, QueryNumbers
  <2> HIDE DEF z, end, latest, start
  <2>3. latest \in Int BY <1>4
  <2>4. Min({z, latest}) \in {z, latest} /\ Min({z, latest}) <= latest BY <2>2, <2>3, MinOfTwo
  <2> QED BY <2>1, <2>2, <2>4, <1>4, <1>5
<1>7. new.last = end /\ new.held = LogsOf(chain, e, 1, end) /\ new.held \in Nat
  <2>1. old.held = LogsOf(chain, e, 1, old.last) BY <1>4 DEF Inv, ExactLogs
  <2>2. Logs(e, start, end) = LogsOf(chain, e, old.last + 1, end) BY <1>4, LogsArePresent
  <2>3. LogsOf(chain, e, 1, end) = LogsOf(chain, e, 1, old.last) + LogsOf(chain, e, old.last + 1, end)
    BY <1>4, <1>5, <1>6, LogsAdd
  <2>4. LogsOf(chain, e, 1, end) \in Nat BY <1>6, LogsCount
  <2> QED BY <2>1, <2>2, <2>3, <2>4
<1>8. new \in [held: Nat, last: Nat] BY <1>6, <1>7
<1> HIDE DEF i, latest, start, e, end, old, new
<1>9. /\ entries' \in [Events -> [held: Nat, last: Nat]]
      /\ entries'[e] = new /\ \A d \in Events : d # e => entries'[d] = entries[d]
  BY <1>1, <1>2, <1>4, <1>8
<1>10. ExactLogs(entries', chain)
  <2>1. \A d \in Events : entries[d].last <= Len(chain) /\ entries[d].held = LogsOf(chain, d, 1, entries[d].last)
    BY DEF Inv, ExactLogs
  <2>2. end <= Len(chain) BY <1>4, <1>5, <1>6
  <2> QED BY <2>1, <2>2, <1>7, <1>9 DEF ExactLogs
<1>11. Reached(entries', i, latest) /\ Reached(entries', i, latest)
  <2>1. ASSUME NEW j \in DOMAIN Queries, j < i, Queries[j] # "bonds" PROVE entries'[Queries[j]].last = latest
    <3>1. entries[Queries[j]].last = latest BY <2>1, <1>4 DEF Reached
    <3>2. Queries[j] \in Events BY <2>1, QueryNumbers
    <3>3. Queries[j] # e BY <3>1, <1>4, <1>5 DEF old
    <3> QED BY <3>1, <3>2, <3>3, <1>9
  <2>2. \A d \in Events : entries'[d].last <= latest BY <1>4, <1>6, <1>7, <1>9 DEF Reached
  <2> QED BY <2>1, <2>2 DEF Reached
<1>12. CASE end < latest
  <2> DEFINE s == [scan[c] EXCEPT !.start = end + 1, !.attempt = 0]
  <2>1. scan' = [scan EXCEPT ![c] = s] /\ UNCHANGED <<cache, cachedAt, inFlight, poll>>
    BY <1>1, <1>2, <1>12
  <2>2. s \in Scans /\ s.step = i /\ s.latest = latest /\ s.start = end + 1
    <3> DEFINE q == [scan[c] EXCEPT !.start = end + 1]
    <3>1. end + 1 \in Nat /\ 0 \in Nat BY <1>6
    <3>2. q \in Scans /\ q.step = i /\ q.latest = latest /\ q.start = end + 1
      BY <3>1, <1>2, ScanChanges DEF i, latest
    <3>3. s = [q EXCEPT !.attempt = 0] OBVIOUS
    <3> HIDE DEF q, s
    <3> QED BY <3>1, <3>2, <3>3, ScanChanges
  <2> HIDE DEF s
  <2>3. GoodScan(s, entries', chain)
    <3>1. e = Queries[i] BY DEF e
    <3> QED BY <3>1, <2>2, <1>1, <1>4, <1>6, <1>7, <1>9, <1>11, <1>12 DEF GoodScan
  <2>4. Typed' BY <2>1, <2>2, <1>1, <1>9 DEF Inv, Typed
  <2>5. OneScan' BY <2>1, <2>3, <1>1, <1>3, <1>2 DEF Inv, OneScan
  <2> QED BY <2>1, <2>4, <2>5, <1>1, <1>10 DEF Inv
<1>13. CASE ~(end < latest)
  <2>1. end = latest BY <1>13, <1>4, <1>6
  <2>2. Reached(entries', i + 1, latest)
    <3> SUFFICES ASSUME NEW j \in DOMAIN Queries, j < i + 1, Queries[j] # "bonds"
                 PROVE  entries'[Queries[j]].last = latest
      BY <1>11 DEF Reached
    <3>1. CASE j = i BY <3>1, <2>1, <1>7, <1>9 DEF e
    <3>2. CASE j # i
      <4>1. j < i BY <3>2, <1>4, QueryNumbers
      <4> QED BY <4>1, <1>11 DEF Reached
    <3> QED BY <3>1, <3>2
  <2> QED BY <2>2, <1>1, <1>4, <1>9, <1>10, <1>13, AdvanceStep
<1> QED BY <1>12, <1>13

(* A request begins a scan only when none is running. *)
LEMMA PollStep == ASSUME Inv, NEW c \in Clients, Poll(c) PROVE Inv'
<1>1. UNCHANGED <<now, chain, entries, cache, cachedAt, trigger>> BY DEF Poll
<1>2. CASE inFlight = NoOne
  <2>1. inFlight' = c /\ poll' = [poll EXCEPT ![c] = "scanning"]
        /\ scan' = [scan EXCEPT ![c] = [NoScan EXCEPT !.startedAt = now]]
    BY <1>2 DEF Poll, Begin
  <2>2. \A d \in Clients : poll[d] # "scanning"
    BY <1>2, ChainStatsAssumption DEF Inv, OneScan, ChainStatsAssumption
  <2> DEFINE s == [NoScan EXCEPT !.startedAt = now]
  <2>3. s \in Scans /\ s.step = 0 BY DEF Inv, Typed, NoScan, Scans
  <2> HIDE DEF s
  <2>4. scan' = [scan EXCEPT ![c] = s] BY <2>1 DEF s
  <2>5. Typed' BY <1>1, <2>1, <2>3, <2>4 DEF Inv, Typed, Polls
  <2>6. OneScan'
    <3>1. scan'[c] = s /\ \A d \in Clients : poll'[d] = "scanning" => d = c
      BY <2>1, <2>2, <2>4 DEF Inv, Typed
    <3>2. scan'[c].step = 0 /\ inFlight' = c BY <3>1, <2>1, <2>3
    <3>3. GoodScan(scan'[c], entries', chain') BY <3>2 DEF GoodScan
    <3> QED BY <3>1, <3>2, <3>3 DEF OneScan
  <2> QED BY <1>1, <2>5, <2>6 DEF Inv
<1>3. CASE inFlight # NoOne
  <2>1. poll' = [poll EXCEPT ![c] = "waiting"] /\ UNCHANGED <<inFlight, scan>> BY <1>3 DEF Poll
  <2>2. Typed' BY <1>1, <2>1 DEF Inv, Typed, Polls
  <2>3. OneScan' BY <1>1, <2>1 DEF Inv, Typed, OneScan
  <2> QED BY <1>1, <2>1, <2>2, <2>3 DEF Inv
<1> QED BY <1>2, <1>3

(* A call that fails leaves the logs as far as they came. *)
LEMMA CallFailsStep == ASSUME Inv, NEW c \in Clients, CallFails(c) PROVE Inv'
<1>1. poll[c] = "scanning" /\ UNCHANGED <<now, chain, entries, cache, cachedAt, trigger>> BY DEF CallFails
<1>2. CASE scan[c].attempt < MaxRetries
  <2> DEFINE s == [scan[c] EXCEPT !.attempt = @ + 1]
  <2>1. scan' = [scan EXCEPT ![c] = s] /\ UNCHANGED <<inFlight, poll>> BY <1>2 DEF CallFails, Inv, Typed
  <2>2. s \in Scans /\ s.step = scan[c].step /\ s.latest = scan[c].latest /\ s.start = scan[c].start
    <3>1. scan[c] \in Scans /\ scan[c].attempt + 1 \in Nat BY DEF Inv, Typed, Scans
    <3> QED BY <3>1, ScanChanges
  <2> HIDE DEF s
  <2>3. Typed' BY <1>1, <2>1, <2>2 DEF Inv, Typed
  <2>4. OneScan' BY <1>1, <2>1, <2>2 DEF Inv, Typed, OneScan, GoodScan
  <2> QED BY <1>1, <2>1, <2>3, <2>4 DEF Inv
<1>3. CASE ~(scan[c].attempt < MaxRetries)
  <2>1. /\ poll' = [d \in Clients |-> IF d = c \/ poll[d] = "waiting" THEN "idle" ELSE poll[d]]
        /\ inFlight' = NoOne /\ scan' = [scan EXCEPT ![c] = NoScan]
    BY <1>3 DEF CallFails, Settle
  <2>2. \A d \in Clients : poll'[d] # "scanning"
    BY <1>1, <2>1 DEF Inv, OneScan
  <2>3. NoScan \in Scans BY DEF NoScan, Scans
  <2>4. Typed' BY <1>1, <2>1, <2>3 DEF Inv, Typed, Polls
  <2> QED BY <1>1, <2>1, <2>2, <2>4 DEF Inv, OneScan
<1> QED BY <1>2, <1>3

(* A block that is mined is after all that was read. *)
LEMMA MinedStep ==
  ASSUME Inv, NEW event \in Events \cup {"AgentSlashed", "other"}, Mined(event), UNCHANGED <<now, server>>
  PROVE  Inv'
<1> DEFINE b == [event |-> event, at |-> now]
<1>1. b \in Blocks /\ chain' = Append(chain, b) /\ chain \in Seq(Blocks) BY DEF Mined, Inv, Typed, Blocks
<1> HIDE DEF b
<1>2. /\ chain' \in Seq(Blocks) /\ Len(chain') = Len(chain) + 1 /\ Len(chain) \in Nat
      /\ \A n \in 1..Len(chain) : chain'[n] = chain[n]
  BY <1>1
<1>3. \A e, m : m \in Nat /\ m <= Len(chain) => LogsOf(chain', e, 1, m) = LogsOf(chain, e, 1, m)
  <2> SUFFICES ASSUME NEW e, NEW m \in Nat, m <= Len(chain)
               PROVE  LogsOf(chain', e, 1, m) = LogsOf(chain, e, 1, m)
    OBVIOUS
  <2>1. \A n \in 1..m : chain'[n] = chain[n] BY <1>2
  <2> QED BY <2>1, LogsStay
<1>4. Typed' BY <1>2 DEF Inv, Typed, server
<1>5. ExactLogs(entries, chain)'
  <2>1. \A e \in Events : entries[e].last \in Nat /\ entries[e].last <= Len(chain)
                            /\ entries[e].held = LogsOf(chain, e, 1, entries[e].last)
    BY DEF Inv, Typed, ExactLogs
  <2> QED BY <2>1, <1>2, <1>3 DEF ExactLogs, server
<1>6. OneScan'
  <2>1. ASSUME NEW c \in Clients, poll[c] = "scanning" PROVE inFlight = c /\ GoodScan(scan[c], entries, chain')
    <3>1. inFlight = c /\ GoodScan(scan[c], entries, chain) /\ scan[c] \in Scans
      BY <2>1 DEF Inv, OneScan, Typed
    <3> QED BY <3>1, <1>2 DEF GoodScan, Scans
  <2> QED BY <2>1 DEF OneScan, server
<1>7. ExactCache(cache, chain)'
  <2>1. cache # NoStats => /\ cache.upTo \in Nat /\ cache.upTo <= Len(chain)
                           /\ \A e \in Events : cache.totals[e] = LogsOf(chain, e, 1, cache.upTo)
    BY DEF Inv, ExactCache
  <2> QED BY <2>1, <1>2, <1>3 DEF ExactCache, server
<1> QED BY <1>4, <1>5, <1>6, <1>7 DEF Inv

(* The invariant holds in every reachable state. *)
THEOREM LogsAreExact == Spec => []Inv
<1>1. Init => Inv
  <2> SUFFICES ASSUME Init PROVE Inv OBVIOUS
  <2>1. Typed
    BY DEF Init, Typed, Polls, Scans, NoScan
  <2>2. ExactLogs(entries, chain) BY LogsCount DEF Init, ExactLogs
  <2> QED BY <2>1, <2>2 DEF Init, Inv, OneScan, ExactCache
<1>2. Inv /\ [Next]_vars => Inv'
  <2> SUFFICES ASSUME Inv, [Next]_vars PROVE Inv' OBVIOUS
  <2>1. CASE UNCHANGED vars BY <2>1 DEF vars, server, Inv, Typed, OneScan
  <2>2. ASSUME NEW c \in Clients, PollCached(c) PROVE Inv'
    BY <2>2 DEF PollCached, vars, server, Inv, Typed, OneScan
  <2>3. CASE TriggerSlash BY <2>3, MinedStep DEF TriggerSlash
  <2>4. CASE Mine BY <2>4, MinedStep DEF Mine
  <2>5. CASE Bust \/ TriggerFails \/ Tick
    BY <2>5 DEF Bust, TriggerFails, Tick, server, Inv, Typed, OneScan
  <2> QED BY <2>1, <2>2, <2>3, <2>4, <2>5, PollStep, BlockNumberStep, ReadBondsStep, ReadChunkStep, CallFailsStep
      DEF Next, CallReturns
<1> QED BY <1>1, <1>2, PTL DEF Spec

(* TotalsAreExact for any chain, chunk size, retries and requests: whatever   *)
(* calls failed, the statistics served are those of the chain up to the block *)
(* they name (paginatedLogs, getChainStats).                                  *)
THEOREM Totals == Spec => []TotalsAreExact
<1>1. Inv => TotalsAreExact BY LogsArePresent DEF Inv, ExactCache, TotalsAreExact
<1> QED BY <1>1, LogsAreExact, PTL

-----------------------------------------------------------------------------
(* Freshness. Blocks that a scan does not see were mined after it started,    *)
(* and the cache is dated by that start.                                      *)
NoneOlder(c, upTo, t) == \A n \in 1..Len(c) : n > upTo => c[n].at >= t

SeesOlder(s) ==
  /\ s.startedAt \in 0..now
  /\ s.step > 0 => NoneOlder(chain, s.latest, s.startedAt)

FreshInv ==
  /\ now \in Nat /\ cachedAt \in Int /\ cachedAt <= now
  /\ \A n \in 1..Len(chain) : chain[n].at \in 0..now
  /\ cache # NoStats => NoneOlder(chain, cache.upTo, cachedAt)
  /\ \A c \in Clients : poll[c] = "scanning" => SeesOlder(scan[c])

(* A scan goes on, or dates the cache by its start. *)
LEMMA AdvanceFresh ==
  ASSUME Inv, FreshInv, NEW c \in Clients, poll[c] = "scanning", chain' = chain, now' = now,
         NEW i \in Nat, NEW latest \in Nat, NoneOlder(chain, latest, scan[c].startedAt), Advance(c, i, latest)
  PROVE  FreshInv'
<1>1. scan \in [Clients -> Scans] /\ poll \in [Clients -> Polls] BY DEF Inv, Typed
<1>2. scan[c].startedAt \in 0..now BY DEF FreshInv, SeesOlder
<1>3. CASE Pending(i, latest) = {}
  <2>1. /\ cache'.upTo = latest /\ cachedAt' = scan[c].startedAt
        /\ \A d \in Clients : poll'[d] = "scanning" => d # c /\ poll[d] = "scanning"
        /\ \A d \in Clients : d # c => scan'[d] = scan[d]
    BY <1>1, <1>3 DEF Advance, Cache, Settle
  <2>2. \A d \in Clients : poll'[d] = "scanning" => SeesOlder(scan[d])' BY <2>1 DEF FreshInv, SeesOlder
  <2>3. NoneOlder(chain', cache'.upTo, cachedAt') BY <2>1
  <2> QED BY <1>2, <2>1, <2>2, <2>3 DEF FreshInv
<1>4. CASE Pending(i, latest) # {}
  <2> DEFINE s == scan'[c]
  <2>1. UNCHANGED <<cache, cachedAt, poll>> /\ s.latest = latest /\ s.startedAt = scan[c].startedAt
        /\ \A d \in Clients : d # c => scan'[d] = scan[d]
    <3> DEFINE j == Min(Pending(i, latest))
               start == IF Queries[j] = "bonds" THEN 0 ELSE entries'[Queries[j]].last + 1
    <3>1. UNCHANGED <<cache, cachedAt, poll>>
          /\ scan' = [scan EXCEPT ![c] = [@ EXCEPT !.step = j, !.latest = latest, !.attempt = 0, !.start = start]]
      BY <1>4 DEF Advance
    <3> HIDE DEF j, start
    <3>2. s = [scan[c] EXCEPT !.step = j, !.latest = latest, !.attempt = 0, !.start = start]
      BY <1>1, <3>1
    <3>3. scan[c] \in Scans BY <1>1
    <3>4. s.latest = latest /\ s.startedAt = scan[c].startedAt BY <3>2, <3>3 DEF Scans
    <3> QED BY <1>1, <3>1, <3>4
  <2> HIDE DEF s
  <2>2. SeesOlder(scan[c])' BY <1>2, <2>1 DEF SeesOlder, s
  <2>3. \A d \in Clients : poll'[d] = "scanning" => SeesOlder(scan[d])' BY <2>1, <2>2 DEF FreshInv, SeesOlder, s
  <2> QED BY <2>1, <2>3 DEF FreshInv
<1> QED BY <1>3, <1>4

(* The steps of a scan: the chain it read ends at the block it started from. *)
LEMMA CallReturnsFresh == ASSUME Inv, FreshInv, NEW c \in Clients, CallReturns(c) PROVE FreshInv'
<1>1. poll[c] = "scanning" /\ chain' = chain /\ now' = now BY DEF CallReturns, BlockNumber, ReadBonds, ReadChunk
<1>2. scan \in [Clients -> Scans] /\ scan[c] \in Scans /\ chain \in Seq(Blocks) BY DEF Inv, Typed
<1>3. SeesOlder(scan[c]) BY <1>1 DEF FreshInv
<1>4. CASE BlockNumber(c)
  <2>1. Advance(c, 0, Len(chain)) BY <1>4 DEF BlockNumber
  <2>2. NoneOlder(chain, Len(chain), scan[c].startedAt) /\ Len(chain) \in Nat BY <1>2 DEF NoneOlder
  <2> QED BY <1>1, <2>1, <2>2, AdvanceFresh
<1>5. CASE Advance(c, scan[c].step, scan[c].latest) /\ scan[c].step > 0
  <2>1. scan[c].step \in Nat /\ scan[c].latest \in Nat BY <1>2 DEF Scans
  <2> QED BY <1>1, <1>3, <1>5, <2>1, AdvanceFresh DEF SeesOlder
<1>6. CASE ReadChunk(c) /\ ChunkEnd(c) < scan[c].latest
  <2> DEFINE end == ChunkEnd(c)
             q == [scan[c] EXCEPT !.start = end + 1]
             s == [q EXCEPT !.attempt = 0]
  <2>1. UNCHANGED <<cache, cachedAt, inFlight, poll>> /\ scan' = [scan EXCEPT ![c] = s]
    BY <1>2, <1>6 DEF ReadChunk
  <2>2. s.step = scan[c].step /\ s.latest = scan[c].latest /\ s.startedAt = scan[c].startedAt
    <3> HIDE DEF end
    <3> QED BY <1>2 DEF Scans
  <2> HIDE DEF s
  <2>3. scan'[c] = s /\ \A d \in Clients : d # c => scan'[d] = scan[d] BY <1>2, <2>1
  <2>4. \A d \in Clients : poll'[d] = "scanning" => SeesOlder(scan[d])'
    BY <1>1, <1>3, <2>1, <2>2, <2>3 DEF FreshInv, SeesOlder
  <2> QED BY <1>1, <2>1, <2>4 DEF FreshInv
<1>7. CASE ReadBonds(c) \/ (ReadChunk(c) /\ ~(ChunkEnd(c) < scan[c].latest))
  <2>1. Advance(c, scan[c].step, scan[c].latest) /\ scan[c].step > 0 BY <1>7 DEF ReadBonds, ReadChunk
  <2> QED BY <2>1, <1>5
<1> QED BY <1>4, <1>6, <1>7 DEF CallReturns

(* A block is mined now. *)
LEMMA MinedFresh ==
  ASSUME Inv, FreshInv, NEW event, Mined(event), UNCHANGED <<now, server>>
  PROVE  FreshInv'
<1>1. chain' = Append(chain, [event |-> event, at |-> now]) /\ chain \in Seq(Blocks) BY DEF Mined, Inv, Typed
<1>2. /\ Len(chain') = Len(chain) + 1 /\ Len(chain) \in Nat
      /\ \A n \in 1..Len(chain') : IF n = Len(chain') THEN chain'[n].at = now
                                  ELSE chain'[n] = chain[n] /\ n \in 1..Len(chain)
  BY <1>1
<1>3. \A n \in 1..Len(chain') : chain'[n].at \in 0..now BY <1>2 DEF FreshInv
<1>4. \A upTo, t : t \in Int /\ t <= now /\ NoneOlder(chain, upTo, t) => NoneOlder(chain', upTo, t)
  <2> SUFFICES ASSUME NEW upTo, NEW t \in Int, t <= now, NoneOlder(chain, upTo, t),
                      NEW n \in 1..Len(chain'), n > upTo
               PROVE  chain'[n].at >= t
    BY DEF NoneOlder
  <2> QED BY <1>2 DEF NoneOlder, FreshInv
<1>5. cache # NoStats => NoneOlder(chain', cache.upTo, cachedAt) BY <1>4 DEF FreshInv
<1>6. \A c \in Clients : poll[c] = "scanning" => SeesOlder(scan[c])' BY <1>4 DEF FreshInv, SeesOlder, server
<1> QED BY <1>3, <1>5, <1>6 DEF FreshInv, server

(* The other steps. *)
LEMMA OtherFresh ==
  ASSUME Inv, FreshInv,
         \/ UNCHANGED vars \/ Bust \/ TriggerFails \/ Tick
         \/ \E c \in Clients : Poll(c) \/ PollCached(c) \/ CallFails(c)
  PROVE  FreshInv'
<1>1. scan \in [Clients -> Scans] /\ poll \in [Clients -> Polls] /\ now \in Nat
      /\ \A c \in Clients : scan[c].startedAt \in Int
  BY DEF Inv, Typed, Scans, FreshInv
<1>2. ASSUME UNCHANGED <<now, chain, cache, cachedAt>>,
             \A d \in Clients : poll'[d] = "scanning" => SeesOlder(scan'[d])
      PROVE  FreshInv'
  BY <1>2 DEF FreshInv, SeesOlder
<1>3. ASSUME NEW c \in Clients, Poll(c) PROVE FreshInv'
  <2> DEFINE s == [NoScan EXCEPT !.startedAt = now]
  <2>1. s.startedAt = now /\ s.step = 0 BY DEF NoScan
  <2> HIDE DEF s
  <2>2. SeesOlder(s) BY <1>1, <2>1 DEF SeesOlder
  <2>3. \/ poll' = [poll EXCEPT ![c] = "scanning"] /\ scan' = [scan EXCEPT ![c] = s]
        \/ poll' = [poll EXCEPT ![c] = "waiting"] /\ scan' = scan
    BY <1>3 DEF Poll, Begin, s
  <2>4. \A d \in Clients : poll'[d] = "scanning" => SeesOlder(scan'[d]) BY <1>1, <2>2, <2>3 DEF FreshInv
  <2> QED BY <1>2, <1>3, <2>4 DEF Poll
<1>4. ASSUME NEW c \in Clients, CallFails(c) PROVE FreshInv'
  <2> DEFINE s == [scan[c] EXCEPT !.attempt = @ + 1]
  <2>1. s.startedAt = scan[c].startedAt /\ s.step = scan[c].step /\ s.latest = scan[c].latest BY <1>1 DEF Scans
  <2> HIDE DEF s
  <2>2. \/ poll' = poll /\ scan' = [scan EXCEPT ![c] = s]
        \/ /\ poll' = [d \in Clients |-> IF d = c \/ poll[d] = "waiting" THEN "idle" ELSE poll[d]]
           /\ scan' = [scan EXCEPT ![c] = NoScan]
    BY <1>1, <1>4 DEF CallFails, Settle, s
  <2>3. poll[c] = "scanning" => SeesOlder(s) BY <2>1 DEF FreshInv, SeesOlder
  <2>4. \A d \in Clients : poll'[d] = "scanning" => SeesOlder(scan'[d]) BY <1>1, <2>2, <2>3 DEF FreshInv
  <2> QED BY <1>2, <1>4, <2>4 DEF CallFails
<1>5. CASE UNCHANGED vars \/ (\E c \in Clients : PollCached(c)) \/ TriggerFails
  <2>1. UNCHANGED <<now, chain, cache, cachedAt, poll, scan>> BY <1>5 DEF vars, server, PollCached, TriggerFails
  <2> QED BY <1>2, <2>1 DEF FreshInv
<1>6. CASE Bust
  <2>1. UNCHANGED <<now, chain, cache, poll, scan>> /\ cachedAt' = -CacheTtl BY <1>6 DEF Bust
  <2>2. CacheTtl \in Nat BY ChainStatsAssumption DEF ChainStatsAssumption
  <2>3. \A c \in Clients : poll'[c] = "scanning" => SeesOlder(scan[c])' BY <2>1 DEF FreshInv, SeesOlder
  <2>4. NoneOlder(chain', cache'.upTo, cachedAt') BY <2>1, <2>2 DEF NoneOlder, FreshInv
  <2> QED BY <1>1, <2>1, <2>2, <2>3, <2>4 DEF FreshInv
<1>7. CASE Tick
  <2>1. UNCHANGED <<chain, cache, cachedAt, poll, scan>> /\ now' = now + 1 BY <1>7 DEF Tick, server
  <2>2. \A c \in Clients : poll'[c] = "scanning" => SeesOlder(scan[c])' BY <1>1, <2>1 DEF FreshInv, SeesOlder
  <2> QED BY <1>1, <2>1, <2>2 DEF FreshInv
<1> QED BY <1>3, <1>4, <1>5, <1>6, <1>7

(* CacheIsFresh for any chain, time to live, requests and failures: what the  *)
(* cache serves holds every block older than its time to live, however long   *)
(* the scan took and whoever busts the cache meanwhile (getChainStats).       *)
THEOREM Freshness == Spec => []CacheIsFresh
<1>1. Init => FreshInv
  <2>1. CacheTtl \in Nat BY ChainStatsAssumption DEF ChainStatsAssumption
  <2> QED BY <2>1 DEF Init, FreshInv
<1>2. Inv /\ FreshInv /\ [Next]_vars => FreshInv'
  <2> SUFFICES ASSUME Inv, FreshInv, [Next]_vars PROVE FreshInv' OBVIOUS
  <2>1. CASE TriggerSlash BY <2>1, MinedFresh DEF TriggerSlash
  <2>2. CASE Mine BY <2>2, MinedFresh DEF Mine
  <2> QED BY <2>1, <2>2, CallReturnsFresh, OtherFresh DEF Next
<1>3. Inv /\ FreshInv => CacheIsFresh
  <2> SUFFICES ASSUME Inv, FreshInv, Fresh, NEW n \in 1..Len(chain), chain[n].at <= now - CacheTtl, ~(n <= cache.upTo)
               PROVE  FALSE
    BY DEF CacheIsFresh
  <2>1. CacheTtl \in Nat BY ChainStatsAssumption DEF ChainStatsAssumption
  <2>2. cache # NoStats /\ now - cachedAt < CacheTtl BY DEF Fresh
  <2>3. cache.upTo \in Nat /\ NoneOlder(chain, cache.upTo, cachedAt) BY <2>2 DEF Inv, ExactCache, FreshInv
  <2>4. chain[n].at \in Int /\ chain[n].at >= cachedAt BY <2>3 DEF NoneOlder, FreshInv
  <2> QED BY <2>1, <2>2, <2>4 DEF FreshInv
<1> QED BY <1>1, <1>2, <1>3, LogsAreExact, PTL DEF Spec

-----------------------------------------------------------------------------
(* The premium analyses.  What the server holds is the end of what was        *)
(* inserted; what it holds for a job is what the job's script asked for,      *)
(* unless somebody asked again.                                               *)

Analyses == [job: AnalysisIds, hash: Nat, at: Nat, good: BOOLEAN]
Pcs == {"start", "post", "submit", "fetch", "readBond", "complete", "reject", "slash", "done", "slashed", "dead"}
Statuses == {"none", "Funded", "Submitted", "Completed", "Rejected"}
Verdicts == {"none", "hard", "stale", "ok"}
Scripts == [pc: Pcs, fault: BOOLEAN, hash: Nat, seen: Analyses \cup {NoAnalysis}, verdict: Verdicts]
Escrows == [status: Statuses, deliverable: Nat]

PremiumTyped ==
  /\ premiumClock \in 0..MaxPremiumTime
  /\ posts \in 0..MaxPosts
  /\ bonded \in BOOLEAN
  /\ replaced \in SUBSET PremiumIds
  /\ premiumAnalyses \in Seq(Analyses)
  /\ inserted \in Seq(AnalysisIds)
  /\ script \in [PremiumIds -> Scripts]
  /\ escrow \in [PremiumIds -> Escrows]

(* Sequence s holds the last ids of sequence t, and no more than it may. *)
EndsAlike(s, t) ==
  /\ Len(s) <= Len(t) /\ Len(s) <= MaxAnalyses
  /\ Len(t) - Len(s) > 0 => Len(s) = MaxAnalyses
  /\ \A i \in 1..Len(s) : s[i].job = t[Len(t) - Len(s) + i]

MapIsTheEnd == EndsAlike(premiumAnalyses, inserted)

MapIsAsAsked ==
  \A i \in 1..Len(premiumAnalyses) : \A j \in PremiumIds \ replaced :
     premiumAnalyses[i].job = j /\ script[j].hash # 0 =>
        premiumAnalyses[i].hash = script[j].hash /\ premiumAnalyses[i].good = ~script[j].fault

Submitted == {"fetch", "readBond", "complete", "reject", "slash", "done", "slashed"}

(* Of one run: r is the script, e the escrow, again whether somebody asked again. *)
JustRun(j, r, e, again) ==
  /\ r.pc \in Submitted => e.deliverable = r.hash /\ r.hash # 0
  /\ r.pc = "submit" => r.hash # 0
  /\ r.pc \notin Submitted \ {"fetch"} => r.verdict = "none"
  /\ r.verdict = "ok" => r.seen.hash = r.hash /\ r.seen.job = j /\ r.seen.good
  /\ r.verdict = "hard" => r.fault \/ again
  /\ r.pc = "complete" => r.verdict = "ok"
  /\ e.status = "Completed" => r.pc = "done" /\ r.verdict = "ok"

RunsAreJust == \A j \in PremiumIds : JustRun(j, script[j], escrow[j], j \in replaced)

(* The inductive invariant of the premium analyses. *)
PremiumInv == PremiumTyped /\ MapIsTheEnd /\ MapIsAsAsked /\ RunsAreJust

(* Storing an analysis: every place holds it or what it held of another id. *)
LEMMA StoredEffect ==
  ASSUME premiumAnalyses \in Seq(Analyses), NEW a \in Analyses
  PROVE  /\ Stored(a) \in Seq(Analyses)
         /\ \A i \in 1..Len(Stored(a)) :
              \/ Stored(a)[i] = a
              \/ \E n \in 1..Len(premiumAnalyses) :
                    Stored(a)[i] = premiumAnalyses[n] /\ premiumAnalyses[n].job # a.job
<1> DEFINE s == premiumAnalyses
<1>1. CASE a.job \in StoredIds
  <2> DEFINE t == [i \in DOMAIN s |-> IF s[i].job = a.job THEN a ELSE s[i]]
  <2>1. Stored(a) = t BY <1>1 DEF Stored
  <2>2. t \in Seq(Analyses) /\ Len(t) = Len(s)
    <3>1. Len(s) \in Nat /\ DOMAIN s = 1..Len(s) /\ \A i \in 1..Len(s) : s[i] \in Analyses OBVIOUS
    <3>2. t \in [1..Len(s) -> Analyses] BY <3>1
    <3> QED BY <3>1, <3>2
  <2>3. \A i \in 1..Len(s) : t[i] = a \/ (t[i] = s[i] /\ s[i].job # a.job)
    <3>1. DOMAIN s = 1..Len(s) OBVIOUS
    <3> QED BY <3>1
  <2> HIDE DEF t, s
  <2>4. \A i \in 1..Len(t) : t[i] = a \/ (\E n \in 1..Len(s) : t[i] = s[n] /\ s[n].job # a.job)
    BY <2>2, <2>3
  <2> QED BY <2>1, <2>2, <2>4 DEF s
<1>2. CASE a.job \notin StoredIds
  <2>1. \A n \in 1..Len(s) : s[n].job # a.job BY <1>2 DEF StoredIds
  <2> DEFINE kept == IF Len(s) >= MaxAnalyses THEN Tail(s) ELSE s
  <2>2. Stored(a) = Append(kept, a) BY <1>2 DEF Stored
  <2>3. kept \in Seq(Analyses) /\ \A i \in 1..Len(kept) : \E n \in 1..Len(s) : kept[i] = s[n]
    <3>1. CASE Len(s) >= MaxAnalyses
      <4>1. s # <<>> BY <3>1, PremiumAssumption DEF PremiumAssumption
      <4>2. Tail(s) \in Seq(Analyses) /\ Len(Tail(s)) = Len(s) - 1 /\ \A i \in 1..Len(s) - 1 : Tail(s)[i] = s[i + 1]
        BY <4>1
      <4> QED BY <4>2, <3>1
    <3>2. CASE ~(Len(s) >= MaxAnalyses) BY <3>2
    <3> QED BY <3>1, <3>2
  <2> HIDE DEF kept
  <2>4. Append(kept, a) \in Seq(Analyses) /\ Len(Append(kept, a)) = Len(kept) + 1
        /\ Append(kept, a)[Len(kept) + 1] = a /\ \A i \in 1..Len(kept) : Append(kept, a)[i] = kept[i]
    BY <2>3
  <2>5. ASSUME NEW i \in 1..Len(kept) + 1
        PROVE  \/ Append(kept, a)[i] = a
               \/ \E n \in 1..Len(s) : Append(kept, a)[i] = s[n] /\ s[n].job # a.job
    <3>1. CASE i = Len(kept) + 1 BY <3>1, <2>4
    <3>2. CASE i # Len(kept) + 1
      <4>1. Len(kept) \in Nat BY <2>3
      <4>2. i \in 1..Len(kept) BY <3>2, <4>1
      <4>3. PICK n \in 1..Len(s) : kept[i] = s[n] BY <4>2, <2>3
      <4>4. Append(kept, a)[i] = s[n] BY <4>2, <4>3, <2>4
      <4> QED BY <4>4, <2>1
    <3> QED BY <3>1, <3>2
  <2> QED
    <3> HIDE DEF s
    <3>1. Len(Append(kept, a)) = Len(kept) + 1 BY <2>4
    <3>2. \A i \in 1..Len(Append(kept, a)) :
            \/ Append(kept, a)[i] = a
            \/ \E n \in 1..Len(s) : Append(kept, a)[i] = s[n] /\ s[n].job # a.job
      BY <3>1, <2>5
    <3> QED BY <2>2, <2>4, <3>2 DEF s
<1> QED BY <1>1, <1>2

(* Storing keeps the map the end of what was inserted. *)
LEMMA StoredKeepsTheEnd ==
  ASSUME premiumAnalyses \in Seq(Analyses), inserted \in Seq(AnalysisIds), MapIsTheEnd, NEW a \in Analyses
  PROVE  EndsAlike(Stored(a), IF a.job \in StoredIds THEN inserted ELSE Append(inserted, a.job))
<1> DEFINE s == premiumAnalyses
<1>0. Len(s) \in Nat /\ Len(inserted) \in Nat OBVIOUS
<1>1. CASE a.job \in StoredIds
  <2> DEFINE t == [i \in DOMAIN s |-> IF s[i].job = a.job THEN a ELSE s[i]]
  <2>1. Stored(a) = t BY <1>1 DEF Stored
  <2>2. Len(t) = Len(s) /\ \A i \in 1..Len(s) : t[i].job = s[i].job
    <3>1. DOMAIN t = 1..Len(s) OBVIOUS
    <3> QED BY <3>1, <1>0
  <2> HIDE DEF t
  <2> QED BY <1>1, <2>1, <2>2 DEF MapIsTheEnd, EndsAlike
<1>2. CASE a.job \notin StoredIds
  <2> DEFINE kept == IF Len(s) >= MaxAnalyses THEN Tail(s) ELSE s
             u == Append(inserted, a.job)
  <2>1. Stored(a) = Append(kept, a) BY <1>2 DEF Stored
  <2>2. a.job \in AnalysisIds BY DEF Analyses
  <2>3. Len(u) = Len(inserted) + 1 /\ u[Len(inserted) + 1] = a.job
        /\ \A i \in 1..Len(inserted) : u[i] = inserted[i]
    BY <2>2
  <2>4. CASE Len(s) >= MaxAnalyses
    <3>1. Len(s) = MaxAnalyses /\ Len(s) > 0
      BY <2>4, <1>0, PremiumAssumption DEF PremiumAssumption, MapIsTheEnd, EndsAlike
    <3>2. kept \in Seq(Analyses) /\ Len(kept) = Len(s) - 1 /\ \A i \in 1..Len(s) - 1 : kept[i] = s[i + 1]
      BY <3>1, <2>4, s # <<>>
    <3> HIDE DEF kept, u
    <3>3. Len(Append(kept, a)) = Len(s) /\ Append(kept, a)[Len(s)] = a
          /\ \A i \in 1..Len(s) - 1 : Append(kept, a)[i] = s[i + 1]
      BY <3>1, <3>2, <1>0
    <3>4. \A i \in 1..Len(s) : Append(kept, a)[i].job = u[Len(inserted) + 1 - Len(s) + i]
      <4> SUFFICES ASSUME NEW i \in 1..Len(s) PROVE Append(kept, a)[i].job = u[Len(inserted) + 1 - Len(s) + i]
        OBVIOUS
      <4>1. CASE i = Len(s) BY <4>1, <3>3, <2>3, <1>0
      <4>2. CASE i # Len(s)
        <5>1. i \in 1..Len(s) - 1 /\ i + 1 \in 1..Len(s) BY <4>2, <1>0
        <5>2. s[i + 1].job = inserted[Len(inserted) - Len(s) + (i + 1)] BY <5>1 DEF MapIsTheEnd, EndsAlike
        <5>3. Len(inserted) - Len(s) + (i + 1) \in 1..Len(inserted)
          BY <5>1, <1>0 DEF MapIsTheEnd, EndsAlike
        <5>4. Len(inserted) - Len(s) + (i + 1) = Len(inserted) + 1 - Len(s) + i BY <5>1, <1>0
        <5> QED BY <5>1, <5>2, <5>3, <5>4, <3>3, <2>3
      <4> QED BY <4>1, <4>2
    <3> HIDE DEF MapIsTheEnd
    <3>5. EndsAlike(Append(kept, a), u)
      <4> DEFINE v == Append(kept, a)
      <4>1. Len(s) <= Len(inserted) BY DEF MapIsTheEnd, EndsAlike
      <4>2. Len(v) = Len(s) /\ \A i \in 1..Len(v) : v[i].job = u[Len(inserted) + 1 - Len(s) + i] BY <3>3, <3>4
      <4> HIDE DEF v
      <4>3. \A i \in 1..Len(v) : v[i].job = u[Len(u) - Len(v) + i] BY <4>2, <2>3, <1>0
      <4>4. EndsAlike(v, u) BY <4>1, <4>2, <4>3, <3>1, <2>3, <1>0 DEF EndsAlike
      <4> QED BY <4>4 DEF v
    <3> QED BY <3>5, <2>1, <1>2 DEF u
  <2>5. CASE ~(Len(s) >= MaxAnalyses)
    <3>1. kept = s /\ Len(s) < MaxAnalyses BY <2>5, <1>0, PremiumAssumption DEF PremiumAssumption
    <3>2. Len(inserted) = Len(s) BY <3>1, <1>0, PremiumAssumption DEF MapIsTheEnd, EndsAlike, PremiumAssumption
    <3>3. Len(Append(s, a)) = Len(s) + 1 /\ Append(s, a)[Len(s) + 1] = a
          /\ \A i \in 1..Len(s) : Append(s, a)[i] = s[i]
      OBVIOUS
    <3>4. \A i \in 1..Len(s) : s[i].job = inserted[i] BY <3>2, <1>0 DEF MapIsTheEnd, EndsAlike
    <3> HIDE DEF u
    <3>5. \A i \in 1..Len(s) + 1 : Append(s, a)[i].job = u[i]
      BY <3>2, <3>3, <3>4, <2>3, <1>0
    <3>6. EndsAlike(Append(s, a), u)
      BY <3>1, <3>2, <3>3, <3>5, <2>3, <1>0, PremiumAssumption DEF EndsAlike, PremiumAssumption
    <3> QED BY <3>1, <3>6, <2>1, <1>2 DEF u
  <2> QED BY <2>4, <2>5
<1> QED BY <1>1, <1>2

(* One POST, whoever makes it. *)
LEMMA PostEffect ==
  ASSUME PremiumInv, NEW id \in AnalysisIds, NEW good \in BOOLEAN, PostAnalysis(id, good)
  PROVE  /\ posts' \in 0..MaxPosts /\ posts' = posts + 1 /\ posts' # 0
         /\ premiumAnalyses' \in Seq(Analyses) /\ inserted' \in Seq(AnalysisIds)
         /\ MapIsTheEnd'
         /\ \A i \in 1..Len(premiumAnalyses') :
              \/ premiumAnalyses'[i].job = id /\ premiumAnalyses'[i].hash = posts'
                 /\ premiumAnalyses'[i].good = good
              \/ \E n \in 1..Len(premiumAnalyses) :
                    premiumAnalyses'[i] = premiumAnalyses[n] /\ premiumAnalyses[n].job # id
<1> DEFINE a == [job |-> id, hash |-> posts', at |-> premiumClock, good |-> good]
<1>1. posts' = posts + 1 /\ posts' \in 0..MaxPosts /\ posts' # 0
  BY PremiumAssumption DEF PostAnalysis, PremiumInv, PremiumTyped, PremiumAssumption
<1>2. a \in Analyses /\ a.job = id /\ a.hash = posts' /\ a.good = good
  BY <1>1, PremiumAssumption DEF Analyses, PremiumInv, PremiumTyped, PremiumAssumption
<1>3. premiumAnalyses' = Stored(a) /\ inserted' = IF id \in StoredIds THEN inserted ELSE Append(inserted, id)
  BY DEF PostAnalysis
<1> HIDE DEF a
<1>4. premiumAnalyses \in Seq(Analyses) /\ inserted \in Seq(AnalysisIds) /\ MapIsTheEnd
  BY DEF PremiumInv, PremiumTyped
<1>5. premiumAnalyses' \in Seq(Analyses) BY <1>2, <1>3, <1>4, StoredEffect
<1>6. inserted' \in Seq(AnalysisIds) BY <1>3, <1>4
<1>7. EndsAlike(premiumAnalyses', inserted') BY <1>2, <1>3, <1>4, StoredKeepsTheEnd
<1>8. \A i \in 1..Len(Stored(a)) :
        \/ Stored(a)[i] = a
        \/ \E n \in 1..Len(premiumAnalyses) : Stored(a)[i] = premiumAnalyses[n] /\ premiumAnalyses[n].job # a.job
  BY <1>2, <1>4, StoredEffect
<1> QED BY <1>1, <1>2, <1>3, <1>5, <1>6, <1>7, <1>8 DEF MapIsTheEnd

(* A step of the script of j that leaves the map alone and asks for nothing. *)
LEMMA ScriptStep ==
  ASSUME PremiumInv, UNCHANGED <<premiumClock, oracleMap>>, NEW j \in PremiumIds,
         NEW r \in Scripts, NEW e \in Escrows, bonded' \in BOOLEAN,
         script' = [script EXCEPT ![j] = r], escrow' = [escrow EXCEPT ![j] = e],
         r.hash = 0 \/ (r.hash = script[j].hash /\ r.fault = script[j].fault),
         JustRun(j, r, e, j \in replaced)
  PROVE  PremiumInv'
<1>1. script \in [PremiumIds -> Scripts] /\ escrow \in [PremiumIds -> Escrows]
  BY DEF PremiumInv, PremiumTyped
<1>2. script'[j] = r /\ escrow'[j] = e
      /\ \A i \in PremiumIds : i # j => script'[i] = script[i] /\ escrow'[i] = escrow[i]
  BY <1>1
<1>3. script' \in [PremiumIds -> Scripts] /\ escrow' \in [PremiumIds -> Escrows] BY <1>1
<1>4. PremiumTyped' BY <1>3 DEF PremiumInv, PremiumTyped, oracleMap
<1>5. MapIsTheEnd' BY DEF PremiumInv, MapIsTheEnd, oracleMap
<1>6. MapIsAsAsked' BY <1>2 DEF PremiumInv, MapIsAsAsked, oracleMap
<1>7. RunsAreJust' BY <1>2 DEF PremiumInv, RunsAreJust, oracleMap
<1> QED BY <1>4, <1>5, <1>6, <1>7 DEF PremiumInv

(* Where a run goes, and how. *)
LEMMA Moving ==
  ASSUME PremiumInv, NEW j \in PremiumIds, NEW from, NEW to \in Pcs, Goes(j, from, to)
  PROVE  \E r \in Scripts :
            /\ script' = [script EXCEPT ![j] = r] /\ script[j].pc = from /\ r.pc = to
            /\ r.fault = script[j].fault /\ r.hash = script[j].hash
            /\ r.seen = script[j].seen /\ r.verdict = script[j].verdict
<1>1. script \in [PremiumIds -> Scripts] BY DEF PremiumInv, PremiumTyped
<1>2. [script[j] EXCEPT !.pc = to] \in Scripts BY <1>1 DEF Scripts
<1> QED BY <1>1, <1>2 DEF Goes, Scripts

(* Where a job goes, and how. *)
LEMMA Escrowing ==
  ASSUME PremiumInv, NEW j \in PremiumIds, NEW from, NEW to \in Statuses, Escrow(j, from, to)
  PROVE  \E e \in Escrows : escrow' = [escrow EXCEPT ![j] = e] /\ escrow[j].status = from
            /\ e.status = to /\ e.deliverable = escrow[j].deliverable
<1>1. escrow \in [PremiumIds -> Escrows] BY DEF PremiumInv, PremiumTyped
<1>2. [escrow[j] EXCEPT !.status = to] \in Escrows BY <1>1 DEF Escrows
<1> QED BY <1>1, <1>2 DEF Escrow, Escrows

(* A step that leaves the escrow alone sets it to what it is. *)
LEMMA EscrowStays ==
  ASSUME PremiumInv, NEW j \in PremiumIds, escrow' = escrow
  PROVE  escrow[j] \in Escrows /\ escrow' = [escrow EXCEPT ![j] = escrow[j]]
BY DEF PremiumInv, PremiumTyped

(* Funding touches neither the map nor the run's verdict. *)
LEMMA FundJobStep == ASSUME PremiumInv, NEW j \in PremiumIds, FundJob(j) PROVE PremiumInv'
<1> DEFINE to == "post"
<1>1. to \in Pcs /\ Goes(j, "start", to) /\ UNCHANGED <<premiumClock, oracleMap>> BY DEF FundJob, Pcs
<1>2. JustRun(j, script[j], escrow[j], j \in replaced) /\ bonded' \in BOOLEAN
  BY DEF PremiumInv, PremiumTyped, RunsAreJust, FundJob
<1>3. PICK r \in Scripts :
        /\ script' = [script EXCEPT ![j] = r] /\ script[j].pc = "start" /\ r.pc = to
        /\ r.fault = script[j].fault /\ r.hash = script[j].hash
        /\ r.seen = script[j].seen /\ r.verdict = script[j].verdict
  BY <1>1, Moving
<1>4. PICK e \in Escrows :
        /\ escrow' = [escrow EXCEPT ![j] = e] /\ escrow[j].status = "none" /\ e.status = "Funded"
        /\ e.deliverable = escrow[j].deliverable
  BY Escrowing DEF FundJob, Statuses
<1>5. JustRun(j, r, e, j \in replaced) BY <1>2, <1>3, <1>4 DEF JustRun, Submitted
<1> QED BY <1>1, <1>2, <1>3, <1>4, <1>5, ScriptStep

(* Only a verdict that is fine leads to completion. *)
LEMMA ReadBondStep == ASSUME PremiumInv, NEW j \in PremiumIds, ReadBond(j) PROVE PremiumInv'
<1> DEFINE to == IF script[j].verdict = "ok" /\ bonded THEN "complete" ELSE "reject"
<1>1. to \in Pcs /\ Goes(j, "readBond", to) /\ UNCHANGED <<premiumClock, oracleMap>> BY DEF ReadBond, Pcs
<1>2. JustRun(j, script[j], escrow[j], j \in replaced) /\ bonded' \in BOOLEAN
  BY DEF PremiumInv, PremiumTyped, RunsAreJust, ReadBond
<1>3. PICK r \in Scripts :
        /\ script' = [script EXCEPT ![j] = r] /\ script[j].pc = "readBond" /\ r.pc = to
        /\ r.fault = script[j].fault /\ r.hash = script[j].hash
        /\ r.seen = script[j].seen /\ r.verdict = script[j].verdict
  BY <1>1, Moving
<1>4. escrow' = [escrow EXCEPT ![j] = escrow[j]] /\ escrow[j] \in Escrows BY EscrowStays DEF ReadBond
<1>5. JustRun(j, r, escrow[j], j \in replaced) BY <1>2, <1>3 DEF JustRun, Submitted
<1> QED BY <1>1, <1>2, <1>3, <1>4, <1>5, ScriptStep

(* A job that completes was found fine. *)
LEMMA CompleteStep == ASSUME PremiumInv, NEW j \in PremiumIds, Complete(j) PROVE PremiumInv'
<1> DEFINE to == "done"
<1>1. to \in Pcs /\ Goes(j, "complete", to) /\ UNCHANGED <<premiumClock, oracleMap>> BY DEF Complete, Pcs
<1>2. JustRun(j, script[j], escrow[j], j \in replaced) /\ bonded' \in BOOLEAN
  BY DEF PremiumInv, PremiumTyped, RunsAreJust, Complete
<1>3. PICK r \in Scripts :
        /\ script' = [script EXCEPT ![j] = r] /\ script[j].pc = "complete" /\ r.pc = to
        /\ r.fault = script[j].fault /\ r.hash = script[j].hash
        /\ r.seen = script[j].seen /\ r.verdict = script[j].verdict
  BY <1>1, Moving
<1>4. PICK e \in Escrows :
        /\ escrow' = [escrow EXCEPT ![j] = e] /\ escrow[j].status = "Submitted" /\ e.status = "Completed"
        /\ e.deliverable = escrow[j].deliverable
  BY Escrowing DEF Complete, Statuses
<1>5. JustRun(j, r, e, j \in replaced) BY <1>2, <1>3, <1>4 DEF JustRun, Submitted
<1> QED BY <1>1, <1>2, <1>3, <1>4, <1>5, ScriptStep

(* A rejected job never completes. *)
LEMMA RejectStep == ASSUME PremiumInv, NEW j \in PremiumIds, Reject(j) PROVE PremiumInv'
<1> DEFINE to == IF script[j].verdict = "hard" THEN "slash" ELSE "done"
<1>1. to \in Pcs /\ Goes(j, "reject", to) /\ UNCHANGED <<premiumClock, oracleMap>> BY DEF Reject, Pcs
<1>2. JustRun(j, script[j], escrow[j], j \in replaced) /\ bonded' \in BOOLEAN
  BY DEF PremiumInv, PremiumTyped, RunsAreJust, Reject
<1>3. PICK r \in Scripts :
        /\ script' = [script EXCEPT ![j] = r] /\ script[j].pc = "reject" /\ r.pc = to
        /\ r.fault = script[j].fault /\ r.hash = script[j].hash
        /\ r.seen = script[j].seen /\ r.verdict = script[j].verdict
  BY <1>1, Moving
<1>4. PICK e \in Escrows :
        /\ escrow' = [escrow EXCEPT ![j] = e] /\ escrow[j].status = "Submitted" /\ e.status = "Rejected"
        /\ e.deliverable = escrow[j].deliverable
  BY Escrowing DEF Reject, Statuses
<1>5. JustRun(j, r, e, j \in replaced) BY <1>2, <1>3, <1>4 DEF JustRun, Submitted
<1> QED BY <1>1, <1>2, <1>3, <1>4, <1>5, ScriptStep

(* The slash after a rejection, which may take the whole bond. *)
LEMMA SlashOracleStep == ASSUME PremiumInv, NEW j \in PremiumIds, SlashOracle(j) PROVE PremiumInv'
<1> DEFINE to == "slashed"
<1>1. to \in Pcs /\ Goes(j, "slash", to) /\ UNCHANGED <<premiumClock, oracleMap>> BY DEF SlashOracle, Pcs
<1>2. JustRun(j, script[j], escrow[j], j \in replaced) /\ bonded' \in BOOLEAN
  BY DEF PremiumInv, PremiumTyped, RunsAreJust, SlashOracle
<1>3. PICK r \in Scripts :
        /\ script' = [script EXCEPT ![j] = r] /\ script[j].pc = "slash" /\ r.pc = to
        /\ r.fault = script[j].fault /\ r.hash = script[j].hash
        /\ r.seen = script[j].seen /\ r.verdict = script[j].verdict
  BY <1>1, Moving
<1>4. escrow' = [escrow EXCEPT ![j] = escrow[j]] /\ escrow[j] \in Escrows BY EscrowStays DEF SlashOracle
<1>5. JustRun(j, r, escrow[j], j \in replaced) BY <1>2, <1>3 DEF JustRun, Submitted
<1> QED BY <1>1, <1>2, <1>3, <1>4, <1>5, ScriptStep

(* The deliverable is the hash the server answered. *)
LEMMA SubmitStep == ASSUME PremiumInv, NEW j \in PremiumIds, Submit(j) PROVE PremiumInv'
<1>1. Goes(j, "submit", "fetch") /\ UNCHANGED <<premiumClock, oracleMap>>
      /\ escrow[j].status = "Funded"
      /\ escrow' = [escrow EXCEPT ![j] = [status |-> "Submitted", deliverable |-> script[j].hash]]
  BY DEF Submit
<1>2. JustRun(j, script[j], escrow[j], j \in replaced) /\ bonded' \in BOOLEAN /\ script[j] \in Scripts
  BY DEF PremiumInv, PremiumTyped, RunsAreJust, Submit
<1>3. PICK r \in Scripts :
        /\ script' = [script EXCEPT ![j] = r] /\ script[j].pc = "submit" /\ r.pc = "fetch"
        /\ r.fault = script[j].fault /\ r.hash = script[j].hash
        /\ r.seen = script[j].seen /\ r.verdict = script[j].verdict
  BY <1>1, Moving DEF Pcs
<1> DEFINE e == [status |-> "Submitted", deliverable |-> script[j].hash]
<1>4. e \in Escrows /\ e.status = "Submitted" /\ e.deliverable = script[j].hash BY <1>2 DEF Escrows, Scripts, Statuses
<1> HIDE DEF e
<1>5. JustRun(j, r, e, j \in replaced) BY <1>2, <1>3, <1>4 DEF JustRun, Submitted
<1>6. escrow' = [escrow EXCEPT ![j] = e] BY <1>1 DEF e
<1> QED BY <1>1, <1>2, <1>3, <1>4, <1>5, <1>6, ScriptStep

(* What the script reads back is what it asked for, or somebody asked again. *)
LEMMA FetchAnalysisStep == ASSUME PremiumInv, NEW j \in PremiumIds, FetchAnalysis(j) PROVE PremiumInv'
<1>1. script[j] \in Scripts /\ PremiumTyped /\ MapIsAsAsked /\ JustRun(j, script[j], escrow[j], j \in replaced)
  BY DEF PremiumInv, PremiumTyped, RunsAreJust
<1>2. script[j].pc = "fetch" /\ UNCHANGED <<premiumClock, oracleMap, escrow, bonded>> BY DEF FetchAnalysis
<1>3. PICK a \in Served(j) :
        script' = [script EXCEPT ![j] = [@ EXCEPT !.pc = "readBond", !.seen = a, !.verdict = Verdict(j, a)]]
  BY DEF FetchAnalysis
<1>4. PICK n \in 1..Len(premiumAnalyses) : a = premiumAnalyses[n] /\ premiumAnalyses[n].job = j
  BY <1>1 DEF Served, PremiumTyped
<1>5. a \in Analyses /\ a.job = j BY <1>1, <1>4 DEF PremiumTyped
<1>6. script[j].hash # 0 /\ escrow[j].deliverable = script[j].hash /\ escrow[j].status # "Completed"
  BY <1>1, <1>2 DEF JustRun, Submitted
<1>7. j \notin replaced => a.hash = script[j].hash /\ a.good = ~script[j].fault
  BY <1>1, <1>4, <1>6 DEF MapIsAsAsked
<1> DEFINE v == Verdict(j, a)
<1>8. v \in Verdicts /\ (v = "ok" => a.hash = script[j].hash /\ a.good)
      /\ (v = "hard" => a.hash # script[j].hash \/ ~a.good)
  BY DEF Verdict, Verdicts
<1>9. v = "hard" => script[j].fault \/ j \in replaced
  <2> HIDE DEF v
  <2>1. script[j].fault \in BOOLEAN /\ a.good \in BOOLEAN BY <1>1, <1>5 DEF Scripts, Analyses
  <2> QED BY <1>7, <1>8, <2>1
<1> HIDE DEF v
<1> DEFINE r == [script[j] EXCEPT !.pc = "readBond", !.seen = a, !.verdict = v]
<1>10. /\ r \in Scripts /\ r.pc = "readBond" /\ r.seen = a /\ r.verdict = v
       /\ r.hash = script[j].hash /\ r.fault = script[j].fault
  BY <1>1, <1>5, <1>8 DEF Scripts, Pcs
<1>11. script' = [script EXCEPT ![j] = r] BY <1>1, <1>3 DEF v, PremiumTyped
<1> HIDE DEF r
<1>12. JustRun(j, r, escrow[j], j \in replaced) BY <1>5, <1>6, <1>8, <1>9, <1>10 DEF JustRun, Submitted
<1>13. escrow' = [escrow EXCEPT ![j] = escrow[j]] /\ escrow[j] \in Escrows BY <1>2, EscrowStays
<1>14. bonded' \in BOOLEAN BY <1>1, <1>2 DEF PremiumTyped
<1> QED BY <1>2, <1>10, <1>11, <1>12, <1>13, <1>14, ScriptStep

(* A dead run has asked for nothing. *)
LEMMA ScriptDiesStep == ASSUME PremiumInv, NEW j \in PremiumIds, ScriptDies(j) PROVE PremiumInv'
<1>1. script' = [script EXCEPT ![j] = DeadScript] /\ UNCHANGED <<premiumClock, oracleMap, escrow, bonded>>
      /\ script[j].pc # "done"
  BY DEF ScriptDies
<1>2. DeadScript \in Scripts /\ DeadScript.pc = "dead" /\ DeadScript.hash = 0 /\ DeadScript.verdict = "none"
  BY DEF DeadScript, NewScript, Scripts, Pcs, Verdicts
<1>3. JustRun(j, script[j], escrow[j], j \in replaced) /\ bonded' \in BOOLEAN
  BY <1>1 DEF PremiumInv, PremiumTyped, RunsAreJust
<1>4. JustRun(j, DeadScript, escrow[j], j \in replaced) BY <1>1, <1>2, <1>3 DEF JustRun, Submitted
<1>5. escrow' = [escrow EXCEPT ![j] = escrow[j]] /\ escrow[j] \in Escrows BY <1>1, EscrowStays
<1> QED BY <1>1, <1>2, <1>3, <1>4, <1>5, ScriptStep

(* The script's own POST: what the map holds for its job is what it asked for. *)
LEMMA RequestAnalysisStep == ASSUME PremiumInv, NEW j \in PremiumIds, RequestAnalysis(j) PROVE PremiumInv'
<1>1. script[j] \in Scripts /\ PremiumTyped /\ MapIsAsAsked /\ RunsAreJust BY DEF PremiumInv, PremiumTyped
<1>2. /\ script[j].pc = "post" /\ PostAnalysis(j, ~script[j].fault)
      /\ script' = [script EXCEPT ![j].pc = "submit", ![j].hash = posts']
      /\ UNCHANGED <<premiumClock, escrow, bonded, replaced>>
  BY DEF RequestAnalysis
<1>3. j \in AnalysisIds /\ (~script[j].fault) \in BOOLEAN BY <1>1 DEF AnalysisIds, Scripts
<1>4. /\ posts' \in 0..MaxPosts /\ posts' # 0
      /\ premiumAnalyses' \in Seq(Analyses) /\ inserted' \in Seq(AnalysisIds)
      /\ MapIsTheEnd'
      /\ \A i \in 1..Len(premiumAnalyses') :
           \/ premiumAnalyses'[i].job = j /\ premiumAnalyses'[i].hash = posts'
              /\ premiumAnalyses'[i].good = ~script[j].fault
           \/ \E n \in 1..Len(premiumAnalyses) :
                 premiumAnalyses'[i] = premiumAnalyses[n] /\ premiumAnalyses[n].job # j
  BY <1>2, <1>3, PostEffect
<1> DEFINE h == posts'
           r == [script[j] EXCEPT !.pc = "submit", !.hash = h]
<1>5. h \in Nat BY <1>4, PremiumAssumption DEF PremiumAssumption
<1>6. script' = [script EXCEPT ![j] = r] BY <1>1, <1>2 DEF PremiumTyped
<1> HIDE DEF h
<1>7. /\ r \in Scripts /\ r.pc = "submit" /\ r.hash = h /\ r.fault = script[j].fault
      /\ r.verdict = script[j].verdict
  BY <1>1, <1>5 DEF Scripts, Pcs
<1> HIDE DEF r
<1>8. script' \in [PremiumIds -> Scripts] /\ script'[j] = r /\ \A i \in PremiumIds : i # j => script'[i] = script[i]
  BY <1>1, <1>6, <1>7 DEF PremiumTyped
<1>9. PremiumTyped' BY <1>1, <1>2, <1>4, <1>8 DEF PremiumTyped
<1>10. MapIsAsAsked'
  <2> SUFFICES ASSUME NEW i \in 1..Len(premiumAnalyses'), NEW k \in PremiumIds \ replaced,
                      premiumAnalyses'[i].job = k, script'[k].hash # 0
               PROVE  premiumAnalyses'[i].hash = script'[k].hash /\ premiumAnalyses'[i].good = ~script'[k].fault
    BY <1>2 DEF MapIsAsAsked
  <2>1. CASE k = j BY <2>1, <1>4, <1>7, <1>8 DEF h
  <2>2. CASE k # j
    <3>1. PICK n \in 1..Len(premiumAnalyses) : premiumAnalyses'[i] = premiumAnalyses[n] BY <2>2, <1>4
    <3> QED BY <3>1, <2>2, <1>1, <1>8 DEF MapIsAsAsked
  <2> QED BY <2>1, <2>2
<1>11. RunsAreJust'
  <2>1. JustRun(j, r, escrow[j], j \in replaced)
    <3>1. JustRun(j, script[j], escrow[j], j \in replaced) BY <1>1 DEF RunsAreJust
    <3>2. h # 0 BY <1>4 DEF h
    <3> QED BY <3>1, <3>2, <1>2, <1>7 DEF JustRun, Submitted
  <2> QED BY <2>1, <1>1, <1>2, <1>8 DEF RunsAreJust
<1> QED BY <1>4, <1>9, <1>10, <1>11 DEF PremiumInv

(* A stranger's POST for the job of a sale is what "replaced" remembers. *)
LEMMA StrangerPostsStep ==
  ASSUME PremiumInv, NEW id \in AnalysisIds, NEW good \in BOOLEAN, StrangerPosts(id, good)
  PROVE  PremiumInv'
<1>1. PremiumTyped /\ MapIsAsAsked /\ RunsAreJust BY DEF PremiumInv
<1>2. /\ PostAnalysis(id, good) /\ UNCHANGED <<premiumClock, escrow, script, bonded>>
      /\ replaced' = IF id \in PremiumIds /\ script[id].hash # 0 THEN replaced \cup {id} ELSE replaced
  BY DEF StrangerPosts
<1>3. /\ posts' \in 0..MaxPosts
      /\ premiumAnalyses' \in Seq(Analyses) /\ inserted' \in Seq(AnalysisIds)
      /\ MapIsTheEnd'
      /\ \A i \in 1..Len(premiumAnalyses') :
           \/ premiumAnalyses'[i].job = id
           \/ \E n \in 1..Len(premiumAnalyses) :
                 premiumAnalyses'[i] = premiumAnalyses[n] /\ premiumAnalyses[n].job # id
  BY <1>2, PostEffect
<1>4. replaced' \in SUBSET PremiumIds /\ replaced \subseteq replaced'
      /\ (id \in PremiumIds /\ script[id].hash # 0 => id \in replaced')
  BY <1>1, <1>2 DEF PremiumTyped
<1>5. PremiumTyped' BY <1>1, <1>2, <1>3, <1>4 DEF PremiumTyped
<1>6. MapIsAsAsked'
  <2> SUFFICES ASSUME NEW i \in 1..Len(premiumAnalyses'), NEW k \in PremiumIds \ replaced',
                      premiumAnalyses'[i].job = k, script[k].hash # 0
               PROVE  premiumAnalyses'[i].hash = script[k].hash /\ premiumAnalyses'[i].good = ~script[k].fault
    BY <1>2 DEF MapIsAsAsked
  <2>1. k # id BY <1>4
  <2>2. PICK n \in 1..Len(premiumAnalyses) : premiumAnalyses'[i] = premiumAnalyses[n] BY <2>1, <1>3
  <2> QED BY <2>2, <1>1, <1>4 DEF MapIsAsAsked
<1>7. RunsAreJust' BY <1>1, <1>2, <1>4 DEF RunsAreJust, JustRun
<1> QED BY <1>3, <1>5, <1>6, <1>7 DEF PremiumInv

(* Restarts, changes of the bond, and time. *)
LEMMA PremiumOthersStep == ASSUME PremiumInv, RestartOracle \/ BondChanges \/ PremiumTick PROVE PremiumInv'
<1>1. CASE RestartOracle
  <2>1. premiumAnalyses' = <<>> /\ inserted' = <<>>
        /\ UNCHANGED <<premiumClock, posts, escrow, script, bonded, replaced>>
    BY <1>1 DEF RestartOracle
  <2>2. PremiumTyped' BY <2>1 DEF PremiumInv, PremiumTyped
  <2>3. MapIsTheEnd' /\ MapIsAsAsked'
    BY <2>1, PremiumAssumption DEF MapIsTheEnd, MapIsAsAsked, EndsAlike, PremiumAssumption
  <2>4. RunsAreJust' BY <2>1 DEF PremiumInv, RunsAreJust
  <2> QED BY <2>2, <2>3, <2>4 DEF PremiumInv
<1>2. CASE BondChanges \/ PremiumTick
  <2>1. UNCHANGED <<oracleMap, escrow, script>> BY <1>2 DEF BondChanges, PremiumTick
  <2>2. premiumClock' \in 0..MaxPremiumTime /\ bonded' \in BOOLEAN
    <3>1. premiumClock \in 0..MaxPremiumTime /\ bonded \in BOOLEAN BY DEF PremiumInv, PremiumTyped
    <3>2. CASE BondChanges BY <3>1, <3>2 DEF BondChanges
    <3>3. CASE PremiumTick BY <3>1, <3>3, PremiumAssumption DEF PremiumTick, PremiumAssumption
    <3> QED BY <1>2, <3>2, <3>3
  <2>3. PremiumTyped' BY <2>1, <2>2 DEF PremiumInv, PremiumTyped, oracleMap
  <2>4. MapIsTheEnd' /\ MapIsAsAsked' /\ RunsAreJust'
    BY <2>1 DEF PremiumInv, MapIsTheEnd, MapIsAsAsked, RunsAreJust, oracleMap
  <2> QED BY <2>3, <2>4 DEF PremiumInv
<1> QED BY <1>1, <1>2

(* Before anything is asked. *)
LEMMA PremiumInitStep == ASSUME PremiumInit PROVE PremiumInv
<1>1. PICK fault \in [PremiumIds -> BOOLEAN] : script = [j \in PremiumIds |-> NewScript(fault[j])]
  BY DEF PremiumInit
<1>2. \A f \in BOOLEAN : /\ NewScript(f) \in Scripts /\ NewScript(f).pc = "start"
                        /\ NewScript(f).verdict = "none" /\ NewScript(f).hash = 0
  BY DEF NewScript, Scripts, Pcs, Verdicts
<1>3. \A j \in PremiumIds : script[j].pc = "start" /\ script[j].verdict = "none" /\ script[j].hash = 0
  <2> HIDE DEF NewScript
  <2> QED BY <1>1, <1>2
<1>4. escrow \in [PremiumIds -> Escrows] /\ \A j \in PremiumIds : escrow[j].status = "none"
  BY DEF PremiumInit, Escrows, Statuses
<1>5. script \in [PremiumIds -> Scripts] BY <1>1, <1>2
<1>6. PremiumTyped
  BY <1>4, <1>5, PremiumAssumption DEF PremiumInit, PremiumTyped, PremiumAssumption
<1>7. MapIsTheEnd /\ MapIsAsAsked
  BY PremiumAssumption DEF PremiumInit, MapIsTheEnd, MapIsAsAsked, EndsAlike, PremiumAssumption
<1>8. RunsAreJust BY <1>3, <1>4 DEF RunsAreJust, JustRun, Submitted
<1> QED BY <1>6, <1>7, <1>8 DEF PremiumInv

(* The invariant of the premium analyses holds in every reachable state. *)
THEOREM PremiumInvHolds == PremiumSpec => []PremiumInv
<1>1. PremiumInit => PremiumInv BY PremiumInitStep
<1>2. PremiumInv /\ [PremiumNext]_premiumVars => PremiumInv'
  <2> SUFFICES ASSUME PremiumInv, [PremiumNext]_premiumVars PROVE PremiumInv' OBVIOUS
  <2>1. CASE UNCHANGED premiumVars
    BY <2>1 DEF premiumVars, PremiumInv, PremiumTyped, MapIsTheEnd, MapIsAsAsked, RunsAreJust
  <2>2. ASSUME NEW j \in PremiumIds, PremiumScript(j) PROVE PremiumInv'
    BY <2>2, FundJobStep, RequestAnalysisStep, SubmitStep, FetchAnalysisStep, ReadBondStep,
       CompleteStep, RejectStep, SlashOracleStep, ScriptDiesStep DEF PremiumScript
  <2> QED BY <2>1, <2>2, StrangerPostsStep, PremiumOthersStep DEF PremiumNext
<1> QED BY <1>1, <1>2, PTL DEF PremiumSpec

(* SalesAreJust for any number of jobs, strangers, POSTs, evictions and       *)
(* restarts: the escrow pays only for the analysis it was promised, and a     *)
(* hard breach has a cause (demo-erc8183-job.js, GET /premium-analysis).      *)
THEOREM SalesJust == PremiumSpec => []SalesAreJust
<1>1. PremiumInv => SalesAreJust
  <2> SUFFICES ASSUME PremiumInv, NEW j \in PremiumIds
               PROVE  /\ escrow[j].status = "Completed" =>
                           /\ script[j].seen.hash = escrow[j].deliverable
                           /\ script[j].seen.job = j /\ script[j].seen.good
                      /\ script[j].verdict = "hard" => script[j].fault \/ j \in replaced
    BY DEF SalesAreJust
  <2> QED BY DEF PremiumInv, RunsAreJust, JustRun, Submitted
<1> QED BY <1>1, PremiumInvHolds, PTL

(* RecentAnalysesAreServed for a map of any size: an id that is stored again  *)
(* evicts nobody (setPremiumAnalysis).                                        *)
THEOREM RecentServed == PremiumSpec => []RecentAnalysesAreServed
<1>1. PremiumInv => RecentAnalysesAreServed
  <2> SUFFICES ASSUME PremiumInv, NEW i \in DOMAIN inserted, Len(inserted) - i < MaxAnalyses
               PROVE  inserted[i] \in StoredIds
    BY DEF RecentAnalysesAreServed
  <2> DEFINE s == premiumAnalyses
  <2>1. i \in 1..Len(inserted) /\ Len(inserted) \in Nat /\ Len(s) \in Nat /\ DOMAIN s = 1..Len(s)
    BY DEF PremiumInv, PremiumTyped
  <2>2. i - (Len(inserted) - Len(s)) \in 1..Len(s)
    <3>1. Len(s) <= Len(inserted) /\ (Len(inserted) - Len(s) > 0 => Len(s) = MaxAnalyses)
      BY DEF PremiumInv, MapIsTheEnd, EndsAlike
    <3>2. MaxAnalyses \in Nat BY PremiumAssumption DEF PremiumAssumption
    <3> DEFINE n == Len(inserted)
               m == Len(s)
    <3>3. n \in Nat /\ m \in Nat /\ i \in 1..n /\ m <= n /\ (n - m > 0 => m = MaxAnalyses) /\ n - i < MaxAnalyses
      BY <2>1, <3>1
    <3> HIDE DEF n, m
    <3>4. i - (n - m) \in 1..m BY <3>2, <3>3
    <3> QED BY <3>4 DEF n, m
  <2>3. s[i - (Len(inserted) - Len(s))].job
        = inserted[Len(inserted) - Len(s) + (i - (Len(inserted) - Len(s)))]
    BY <2>2 DEF PremiumInv, MapIsTheEnd, EndsAlike
  <2>4. Len(inserted) - Len(s) + (i - (Len(inserted) - Len(s))) = i BY <2>1
  <2> QED BY <2>1, <2>2, <2>3, <2>4 DEF StoredIds
<1> QED BY <1>1, PremiumInvHolds, PTL

-----------------------------------------------------------------------------
(* The acquisition server and its form.                                       *)

JobStatuses == {"none", "evaluating", "settling", "gone"} \cup Final
RequestStates == {"idle", "sent", "accepted", "refused", "over"}
Jobs == [status: JobStatuses, judged: 0..TrackCount, fitting: 0..TrackCount]
Shows == [job: 0..MaxRequests, status: JobStatuses]
Answers == [job: Requests, status: {"evaluating", "settling", "gone"} \cup Final]

(* The type invariant in the parts the actions touch. *)
ServerTyped ==
  /\ acqClock \in 0..MaxAcquisitionTime
  /\ hits \in [count: 0..RateMax, start: 0..acqClock]
  /\ admittedAt \in [Requests -> -1..acqClock]
JobsTyped ==
  /\ request \in [Requests -> RequestStates]
  /\ job \in [Requests -> Jobs]
FormTyped ==
  /\ shown \in Shows
  /\ pollRef \in 0..MaxRequests
  /\ intervals \in SUBSET Requests
  /\ answers \in SUBSET Answers

(* No more tracks fit than were judged, and only jobs that began are polled. *)
JobsAreSane ==
  \A k \in Requests :
     /\ job[k].fitting <= job[k].judged
     /\ request[k] = "accepted" \/ k \in intervals => job[k].status # "none"
     /\ request[k] \in {"idle", "sent"} => admittedAt[k] = -1

(* The inductive invariant of jobs and form. *)
FormInv == ServerTyped /\ JobsTyped /\ FormTyped /\ JobsAreSane /\ NoIntervalIsLeaked

(* The constants are numbers, as the arithmetic below needs. *)
LEMMA AcquisitionNumbers ==
  /\ TrackCount \in Nat /\ RateMax \in Nat /\ RateMax > 0 /\ RateWindow \in Nat /\ RateWindow > 0
  /\ MaxRequests \in Nat /\ MaxAcquisitionTime \in Nat /\ Requests = 1..MaxRequests
BY AcquisitionAssumption DEF AcquisitionAssumption, Requests

(* An acceptance, and the ration it counts on. *)
LEMMA AdmitForm == ASSUME FormInv, NEW k \in Requests, Admit(k) PROVE FormInv'
<1>1. ServerTyped /\ JobsTyped /\ FormTyped /\ JobsAreSane /\ NoIntervalIsLeaked BY DEF FormInv
<1>2. /\ WindowOver \/ Allowed
      /\ hits' = IF WindowOver THEN [count |-> 1, start |-> acqClock] ELSE [hits EXCEPT !.count = @ + 1]
      /\ admittedAt' = [admittedAt EXCEPT ![k] = acqClock]
      /\ request' = [request EXCEPT ![k] = "accepted"]
      /\ job' = [job EXCEPT ![k].status = "evaluating"]
      /\ UNCHANGED <<acqClock, form>>
  BY DEF Admit
<1>3. hits' \in [count: 0..RateMax, start: 0..acqClock]
  <2>1. CASE WindowOver BY <2>1, <1>1, <1>2, AcquisitionNumbers DEF ServerTyped
  <2>2. CASE ~WindowOver BY <2>2, <1>1, <1>2, AcquisitionNumbers DEF ServerTyped, Allowed
  <2> QED BY <2>1, <2>2
<1>4. admittedAt' \in [Requests -> -1..acqClock] BY <1>1, <1>2, AcquisitionNumbers DEF ServerTyped
<1>5. ServerTyped' BY <1>1, <1>2, <1>3, <1>4 DEF ServerTyped
<1>6. JobsTyped' BY <1>1, <1>2 DEF JobsTyped, RequestStates, Jobs, JobStatuses
<1>7. FormTyped' /\ NoIntervalIsLeaked' BY <1>1, <1>2 DEF FormTyped, form, NoIntervalIsLeaked
<1>8. JobsAreSane' BY <1>1, <1>2 DEF JobsAreSane, JobsTyped, ServerTyped, form, Jobs
<1> QED BY <1>5, <1>6, <1>7, <1>8 DEF FormInv

(* A step that leaves the ration and the form's polling alone. *)
LEMMA JobStep ==
  ASSUME FormInv, UNCHANGED <<acqClock, hits, admittedAt, form>>, JobsTyped',
         \A k \in Requests : /\ job'[k].fitting <= job'[k].judged
                             /\ job'[k].status = "none" => job[k].status = "none"
                             /\ request'[k] = "accepted" => request[k] = "accepted"
                             /\ request'[k] \in {"idle", "sent"} => request[k] \in {"idle", "sent"}
  PROVE  FormInv'
BY DEF FormInv, ServerTyped, FormTyped, JobsAreSane, NoIntervalIsLeaked, form

(* The steps of runJob. *)
LEMMA RunJobForm == ASSUME FormInv, NEW k \in Requests, RunJob(k) PROVE FormInv'
<1>1. JobsTyped /\ JobsAreSane BY DEF FormInv
<1>2. ASSUME NEW from, NEW to \in JobStatuses \ {"none"}, JobGoes(k, from, to) PROVE FormInv'
  <2>1. job' = [job EXCEPT ![k].status = to] /\ UNCHANGED <<acqClock, hits, request, form, admittedAt>>
    BY <1>2 DEF JobGoes
  <2>2. JobsTyped' BY <2>1, <1>1 DEF JobsTyped, Jobs
  <2>3. \A i \in Requests : /\ job'[i].fitting <= job'[i].judged
                            /\ job'[i].status = "none" => job[i].status = "none"
    BY <2>1, <1>1 DEF JobsTyped, Jobs, JobsAreSane
  <2> QED BY <2>1, <2>2, <2>3, JobStep
<1>3. CASE EvaluateFit(k)
  <2>1. PICK fits \in {0, 1} : job' = [job EXCEPT ![k].judged = @ + 1, ![k].fitting = @ + fits]
    BY <1>3 DEF EvaluateFit
  <2>2. job[k].judged < TrackCount /\ UNCHANGED <<acqClock, hits, request, form, admittedAt>>
    BY <1>3 DEF EvaluateFit
  <2>3. job[k] \in Jobs /\ job[k].fitting <= job[k].judged BY <1>1 DEF JobsTyped, JobsAreSane
  <2> DEFINE j == [job[k] EXCEPT !.judged = @ + 1, !.fitting = @ + fits]
  <2>4. j \in Jobs /\ j.fitting <= j.judged /\ j.status = job[k].status
    <3>1. job[k].judged + 1 \in 0..TrackCount /\ job[k].fitting + fits \in 0..TrackCount
          /\ job[k].fitting + fits <= job[k].judged + 1
      BY <2>2, <2>3, AcquisitionNumbers DEF Jobs
    <3>2. j.judged = job[k].judged + 1 /\ j.fitting = job[k].fitting + fits /\ j.status = job[k].status
      BY <2>3 DEF Jobs
    <3>3. j \in Jobs BY <2>3, <3>1 DEF Jobs
    <3> QED BY <3>1, <3>2, <3>3
  <2>5. job' = [job EXCEPT ![k] = j] BY <2>1, <1>1 DEF JobsTyped
  <2> HIDE DEF j
  <2>6. JobsTyped' BY <2>2, <2>4, <2>5, <1>1 DEF JobsTyped
  <2>7. \A i \in Requests : /\ job'[i].fitting <= job'[i].judged
                            /\ job'[i].status = "none" => job[i].status = "none"
    BY <2>4, <2>5, <1>1 DEF JobsTyped, JobsAreSane
  <2> QED BY <2>2, <2>6, <2>7, JobStep
<1>4. CASE SelectTracks(k) BY <1>4, <1>2 DEF SelectTracks, JobStatuses, Final
<1>5. CASE SettleSelection(k) BY <1>5, <1>2 DEF SettleSelection, JobStatuses, Final
<1>6. CASE JobFails(k) BY <1>6, <1>2 DEF JobFails, JobStatuses, Final
<1> QED BY <1>3, <1>4, <1>5, <1>6 DEF RunJob

(* Refusals and errors end a request. *)
LEMMA RequestEndsForm == ASSUME FormInv, NEW k \in Requests, Refuse(k) \/ ReadError(k) PROVE FormInv'
<1>1. JobsTyped /\ JobsAreSane BY DEF FormInv
<1>2. UNCHANGED <<acqClock, hits, job, form, admittedAt>> BY DEF Refuse, ReadError
<1>3. PICK r \in {"refused", "over"} : request' = [request EXCEPT ![k] = r] BY DEF Refuse, ReadError
<1>4. JobsTyped' BY <1>1, <1>2, <1>3 DEF JobsTyped, RequestStates
<1>5. \A i \in Requests : /\ job'[i].fitting <= job'[i].judged
                          /\ job'[i].status = "none" => job[i].status = "none"
                          /\ request'[i] = "accepted" => request[i] = "accepted"
                          /\ request'[i] \in {"idle", "sent"} => request[i] \in {"idle", "sent"}
  BY <1>1, <1>2, <1>3 DEF JobsTyped, JobsAreSane
<1> QED BY <1>2, <1>4, <1>5, JobStep

(* A click starts no interval. *)
LEMMA ClickForm == ASSUME FormInv, NEW k \in Requests, ClickSubmit(k) PROVE FormInv'
<1>1. /\ request[k] = "idle" /\ shown' = Nothing /\ request' = [request EXCEPT ![k] = "sent"]
      /\ UNCHANGED <<acqClock, hits, job, pollRef, intervals, answers, admittedAt>>
  BY DEF ClickSubmit
<1>2. Nothing \in Shows BY AcquisitionNumbers DEF Nothing, Shows, JobStatuses
<1>3. ServerTyped' BY <1>1 DEF FormInv, ServerTyped
<1>4. JobsTyped' BY <1>1 DEF FormInv, JobsTyped, RequestStates
<1>5. FormTyped' /\ NoIntervalIsLeaked' BY <1>1, <1>2 DEF FormInv, FormTyped, NoIntervalIsLeaked
<1>6. JobsAreSane' BY <1>1 DEF FormInv, JobsAreSane, JobsTyped
<1> QED BY <1>3, <1>4, <1>5, <1>6 DEF FormInv

(* An acceptance that is read restarts the one interval. *)
LEMMA ReadAcceptedForm == ASSUME FormInv, NEW k \in Requests, ReadAccepted(k) PROVE FormInv'
<1>1. /\ request[k] = "accepted" /\ request' = [request EXCEPT ![k] = "over"]
      /\ shown' = [job |-> k, status |-> "evaluating"]
      /\ intervals' = (intervals \ {pollRef}) \cup {k} /\ pollRef' = k
      /\ UNCHANGED <<acqClock, hits, job, answers, admittedAt>>
  BY DEF ReadAccepted, RestartInterval, Stopped
<1>2. k \in 0..MaxRequests /\ [job |-> k, status |-> "evaluating"] \in Shows
  BY AcquisitionNumbers DEF Shows, JobStatuses
<1>3. ServerTyped' BY <1>1 DEF FormInv, ServerTyped
<1>4. JobsTyped' BY <1>1 DEF FormInv, JobsTyped, RequestStates
<1>5. FormTyped' BY <1>1, <1>2 DEF FormInv, FormTyped
<1>6. NoIntervalIsLeaked' BY <1>1 DEF FormInv, NoIntervalIsLeaked
<1>7. JobsAreSane' BY <1>1 DEF FormInv, JobsAreSane, JobsTyped
<1> QED BY <1>3, <1>4, <1>5, <1>6, <1>7 DEF FormInv

(* Polls and their answers. *)
LEMMA PollForm == ASSUME FormInv, NEW k \in Requests, PollJob(k) PROVE FormInv'
<1>1. /\ k \in intervals /\ answers' = answers \cup {[job |-> k, status |-> job[k].status]}
      /\ UNCHANGED <<acqClock, hits, request, job, shown, pollRef, intervals, admittedAt>>
  BY DEF PollJob
<1>2. job[k].status \in JobStatuses /\ job[k].status # "none" BY <1>1 DEF FormInv, JobsTyped, Jobs, JobsAreSane
<1>3. [job |-> k, status |-> job[k].status] \in Answers BY <1>2 DEF Answers, JobStatuses, Final
<1>4. FormTyped' BY <1>1, <1>3 DEF FormInv, FormTyped
<1> QED BY <1>1, <1>4 DEF FormInv, ServerTyped, JobsTyped, JobsAreSane, NoIntervalIsLeaked

(* An answer that is read, or lost, leaves at most the interval it found. *)
LEMMA AnswerForm == ASSUME FormInv, NEW a \in answers, ReadAnswer(a) \/ LoseAnswer(a) PROVE FormInv'
<1>1. /\ answers' = answers \ {a} /\ shown' \in {a, shown}
      /\ \/ intervals' = intervals \ {pollRef} /\ pollRef' = 0
         \/ UNCHANGED <<pollRef, intervals>>
      /\ UNCHANGED <<acqClock, hits, request, job, admittedAt>>
  BY DEF ReadAnswer, LoseAnswer, Stopped
<1>2. a \in Shows BY AcquisitionNumbers DEF FormInv, FormTyped, Answers, Shows, JobStatuses
<1>3. intervals' \subseteq intervals /\ NoIntervalIsLeaked' BY <1>1 DEF FormInv, NoIntervalIsLeaked
<1>4. FormTyped' BY <1>1, <1>2, <1>3, AcquisitionNumbers DEF FormInv, FormTyped
<1>5. JobsAreSane' BY <1>1, <1>3 DEF FormInv, JobsAreSane
<1> QED BY <1>1, <1>3, <1>4, <1>5 DEF FormInv, ServerTyped, JobsTyped

(* Time, and the restart that forgets jobs and rations. *)
LEMMA OthersForm == ASSUME FormInv, RestartAcquisition \/ AcquisitionTick PROVE FormInv'
<1>1. CASE AcquisitionTick
  <2>1. acqClock' = acqClock + 1 /\ acqClock < MaxAcquisitionTime /\ UNCHANGED <<hits, request, job, form, admittedAt>>
    BY <1>1 DEF AcquisitionTick
  <2>2. ServerTyped' BY <2>1, AcquisitionNumbers DEF FormInv, ServerTyped
  <2> QED BY <2>1, <2>2 DEF FormInv, JobsTyped, FormTyped, JobsAreSane, NoIntervalIsLeaked, form
<1>2. CASE RestartAcquisition
  <2>1. /\ hits' = NoHits /\ admittedAt' = [k \in Requests |-> -1]
        /\ job' = [k \in Requests |-> IF job[k] = NoJob THEN NoJob ELSE [NoJob EXCEPT !.status = "gone"]]
        /\ UNCHANGED <<acqClock, request, form>>
    BY <1>2 DEF RestartAcquisition
  <2>2. ServerTyped'
    BY <2>1, AcquisitionNumbers DEF FormInv, ServerTyped, NoHits
  <2>3. \A k \in Requests : /\ job'[k] \in Jobs /\ job'[k].fitting <= job'[k].judged
                            /\ job[k].status # "none" => job'[k].status # "none"
    BY <2>1, AcquisitionNumbers DEF NoJob, Jobs, JobStatuses
  <2>4. JobsTyped'
    <3>1. job' \in [Requests -> Jobs] BY <2>1, <2>3
    <3> QED BY <3>1, <2>1 DEF FormInv, JobsTyped
  <2>5. FormTyped' /\ NoIntervalIsLeaked' BY <2>1 DEF FormInv, FormTyped, form, NoIntervalIsLeaked
  <2>6. JobsAreSane' BY <2>1, <2>3 DEF FormInv, JobsAreSane, form
  <2> QED BY <2>2, <2>4, <2>5, <2>6 DEF FormInv
<1> QED BY <1>1, <1>2

(* Before the first click. *)
LEMMA InitForm == ASSUME AcquisitionInit PROVE FormInv
<1>1. ServerTyped BY AcquisitionNumbers DEF AcquisitionInit, ServerTyped, NoHits
<1>2. JobsTyped BY AcquisitionNumbers DEF AcquisitionInit, JobsTyped, RequestStates, Jobs, JobStatuses, NoJob
<1>3. FormTyped BY AcquisitionNumbers DEF AcquisitionInit, FormTyped, Shows, JobStatuses, Nothing
<1>4. JobsAreSane BY AcquisitionNumbers DEF AcquisitionInit, JobsAreSane, NoJob
<1> QED BY <1>1, <1>2, <1>3, <1>4 DEF AcquisitionInit, FormInv, NoIntervalIsLeaked

(* The form's invariant is inductive. *)
LEMMA FormInvNext == ASSUME FormInv, [AcquisitionNext]_acquisitionVars PROVE FormInv'
<1>1. CASE UNCHANGED acquisitionVars
  BY <1>1 DEF acquisitionVars, FormInv, ServerTyped, JobsTyped, FormTyped, JobsAreSane, NoIntervalIsLeaked
<1>2. ASSUME NEW k \in Requests,
             \/ EvaluateFit(k) \/ SelectTracks(k) \/ SettleSelection(k) \/ JobFails(k)
      PROVE  FormInv'
  BY <1>2, RunJobForm DEF RunJob
<1> QED BY <1>1, <1>2, AdmitForm, RequestEndsForm, ClickForm, ReadAcceptedForm, PollForm, AnswerForm, OthersForm
    DEF AcquisitionNext

(* Jobs, rations and what the form shows stay of their types, and no more     *)
(* tracks fit than the catalog has (evaluateFit, selectTracks).               *)
THEOREM AcquisitionTypeCorrect == AcquisitionSpec => []AcquisitionTypeOK
<1>1. FormInv => AcquisitionTypeOK
  BY DEF FormInv, ServerTyped, JobsTyped, FormTyped, AcquisitionTypeOK, RequestStates, Jobs, JobStatuses, Shows, Answers
<1>2. AcquisitionInit => FormInv BY InitForm
<1>3. FormInv /\ [AcquisitionNext]_acquisitionVars => FormInv' BY FormInvNext
<1> QED BY <1>1, <1>2, <1>3, PTL DEF AcquisitionSpec

(* NoIntervalIsLeaked for any number of clicks and answers in flight          *)
(* (stopPolling in AcquisitionForm.jsx).                                      *)
THEOREM NoLeak == AcquisitionSpec => []NoIntervalIsLeaked
<1>1. FormInv => NoIntervalIsLeaked BY DEF FormInv
<1>2. AcquisitionInit => FormInv BY InitForm
<1>3. FormInv /\ [AcquisitionNext]_acquisitionVars => FormInv' BY FormInvNext
<1> QED BY <1>1, <1>2, <1>3, PTL DEF AcquisitionSpec

-----------------------------------------------------------------------------
(* The ration.  A stretch as long as a window meets two windows at most: all  *)
(* of one and, of the one before, less than all, since it cannot reach back   *)
(* to that window's first request.                                            *)

Since(f, t)  == {k \in Requests : f[k] >= t}
Before(f, s) == {k \in Requests : f[k] >= 0 /\ f[k] > s - RateWindow /\ f[k] < s}
Within(f, t) == {k \in Requests : f[k] \in t..(t + RateWindow - 1)}

RationInv ==
  /\ hits = NoHits => \A k \in Requests : admittedAt[k] = -1
  /\ hits # NoHits => /\ Cardinality(Since(admittedAt, hits.start)) <= hits.count
                      /\ \E k \in Requests : admittedAt[k] = hits.start
                      /\ \A k \in Requests : admittedAt[k] < hits.start + RateWindow
                      /\ Cardinality(Before(admittedAt, hits.start)) <= RateMax - 1
  /\ RequestsAreRationed

(* Sets of requests are finite, and smaller ones have no more members. *)
LEMMA RequestSets ==
  /\ \A S \in SUBSET Requests : IsFiniteSet(S) /\ Cardinality(S) \in Nat
  /\ \A S, T \in SUBSET Requests : S \subseteq T => Cardinality(S) <= Cardinality(T)
  /\ \A S, T \in SUBSET Requests : Cardinality(S \cup T) <= Cardinality(S) + Cardinality(T)
  /\ \A S \in SUBSET Requests : \A k \in Requests :
        Cardinality(S \cup {k}) <= Cardinality(S) + 1 /\ (k \in S => Cardinality(S \ {k}) = Cardinality(S) - 1)
  /\ \A k \in Requests : Cardinality({k}) = 1
  /\ Cardinality({}) = 0
<1>1. IsFiniteSet(Requests) BY AcquisitionNumbers, FS_Interval
<1>2. \A S \in SUBSET Requests : IsFiniteSet(S) BY <1>1, FS_Subset
<1>3. \A S \in SUBSET Requests : Cardinality(S) \in Nat BY <1>2, FS_CardinalityType
<1>4. \A S, T \in SUBSET Requests : S \subseteq T => Cardinality(S) <= Cardinality(T) BY <1>2, FS_Subset
<1>5. \A S, T \in SUBSET Requests : Cardinality(S \cup T) <= Cardinality(S) + Cardinality(T)
  <2> SUFFICES ASSUME NEW S \in SUBSET Requests, NEW T \in SUBSET Requests
               PROVE  Cardinality(S \cup T) <= Cardinality(S) + Cardinality(T)
    OBVIOUS
  <2>1. Cardinality(S \cup T) = Cardinality(S) + Cardinality(T) - Cardinality(S \cap T) BY <1>2, FS_Union
  <2>2. Cardinality(S \cap T) \in Nat /\ Cardinality(S) \in Nat /\ Cardinality(T) \in Nat BY <1>3
  <2> QED BY <2>1, <2>2
<1>6. \A S \in SUBSET Requests : \A k \in Requests :
        Cardinality(S \cup {k}) <= Cardinality(S) + 1 /\ (k \in S => Cardinality(S \ {k}) = Cardinality(S) - 1)
  <2> SUFFICES ASSUME NEW S \in SUBSET Requests, NEW k \in Requests
               PROVE  /\ Cardinality(S \cup {k}) <= Cardinality(S) + 1
                      /\ k \in S => Cardinality(S \ {k}) = Cardinality(S) - 1
    OBVIOUS
  <2>1. IsFiniteSet(S) /\ Cardinality(S) \in Nat BY <1>2, <1>3
  <2>2. Cardinality(S \cup {k}) = IF k \in S THEN Cardinality(S) ELSE Cardinality(S) + 1
    BY <2>1, FS_AddElement
  <2>3. Cardinality(S \ {k}) = IF k \in S THEN Cardinality(S) - 1 ELSE Cardinality(S)
    BY <2>1, FS_RemoveElement
  <2> QED BY <2>1, <2>2, <2>3
<1> QED BY <1>2, <1>3, <1>4, <1>5, <1>6, FS_Singleton, FS_EmptySet

(* Letting a request pass keeps the ration. *)
LEMMA AdmitRation == ASSUME FormInv, RationInv, NEW k \in Requests, Admit(k) PROVE RationInv'
<1> DEFINE f == admittedAt
           c == acqClock
           g == admittedAt'
<1>1. /\ WindowOver \/ Allowed
      /\ hits' = IF WindowOver THEN [count |-> 1, start |-> c] ELSE [hits EXCEPT !.count = @ + 1]
      /\ g = [f EXCEPT ![k] = c] /\ acqClock' = acqClock /\ request[k] = "sent"
  BY DEF Admit
<1>2. /\ c \in Nat /\ hits \in [count: 0..RateMax, start: 0..c] /\ f \in [Requests -> -1..c] /\ f[k] = -1
  BY <1>1, AcquisitionNumbers DEF FormInv, ServerTyped, JobsAreSane
<1>3. g[k] = c /\ (\A i \in Requests : i # k => g[i] = f[i]) /\ \A i \in Requests : f[i] \in -1..c
  BY <1>1, <1>2
<1>4. hits.count \in 0..RateMax /\ hits.start \in 0..c BY <1>2
<1>5. \A e, t : Since(e, t) \in SUBSET Requests /\ Before(e, t) \in SUBSET Requests /\ Within(e, t) \in SUBSET Requests
  BY DEF Since, Before, Within
<1>6. \A t \in 0..MaxAcquisitionTime : Cardinality(Within(f, t)) <= 2 * RateMax - 1
  BY DEF RationInv, RequestsAreRationed, Within
<1>7. ASSUME NEW t \in 0..MaxAcquisitionTime, c \notin t..(t + RateWindow - 1)
      PROVE  Cardinality(Within(g, t)) <= 2 * RateMax - 1
  <2>1. Within(g, t) \subseteq Within(f, t) BY <1>3, <1>7 DEF Within
  <2>2. Cardinality(Within(g, t)) <= Cardinality(Within(f, t)) /\ Cardinality(Within(g, t)) \in Nat
        /\ Cardinality(Within(f, t)) \in Nat
    BY <2>1, <1>5, RequestSets
  <2>3. Cardinality(Within(f, t)) <= 2 * RateMax - 1 BY <1>6
  <2> QED BY <2>2, <2>3, AcquisitionNumbers
<1>8. c \in Nat /\ f[k] = -1 BY <1>2
<1>10. RateWindow \in Nat /\ RateWindow >= 1 /\ RateMax \in Nat /\ RateMax >= 1 BY AcquisitionNumbers
<1>9. CASE hits = NoHits
  <2>1. WindowOver /\ \A i \in Requests : f[i] = -1 BY <1>9 DEF RationInv, WindowOver
  <2>2. hits'.start = c /\ hits'.count = 1 /\ hits' # NoHits BY <1>1, <2>1 DEF NoHits
  <2>3. Since(g, c) \subseteq {k} /\ Before(g, c) = {} BY <2>1, <1>8, <1>3 DEF Since, Before
  <2>4. \A t \in 0..MaxAcquisitionTime : Within(g, t) \subseteq {k} BY <2>1, <1>3 DEF Within
  <2>5. Cardinality(Since(g, c)) <= 1 /\ Cardinality(Before(g, c)) = 0 BY <2>3, <1>5, RequestSets
  <2>6. \A t \in 0..MaxAcquisitionTime : Cardinality(Within(g, t)) <= 2 * RateMax - 1
    <3> SUFFICES ASSUME NEW t \in 0..MaxAcquisitionTime PROVE Cardinality(Within(g, t)) <= 2 * RateMax - 1
      OBVIOUS
    <3>1. Cardinality(Within(g, t)) <= 1 /\ Cardinality(Within(g, t)) \in Nat BY <2>4, <1>5, RequestSets
    <3> QED BY <3>1, AcquisitionNumbers
  <2>7. RequestsAreRationed' BY <2>6 DEF RequestsAreRationed, Within
  <2>8. \A i \in Requests : g[i] < c + RateWindow BY <2>1, <1>8, <1>3, AcquisitionNumbers
  <2>9. Cardinality(Before(g, c)) <= RateMax - 1 BY <2>5, AcquisitionNumbers
  <2> QED BY <2>2, <2>5, <2>7, <2>8, <2>9, <1>3 DEF RationInv
<1>11. CASE hits # NoHits
  <2> DEFINE s == hits.start
  <2>1. /\ Cardinality(Since(f, s)) <= hits.count /\ Cardinality(Before(f, s)) <= RateMax - 1
        /\ \E i \in Requests : f[i] = s
        /\ \A i \in Requests : f[i] < s + RateWindow
    BY <1>11 DEF RationInv
  <2>2. PICK first \in Requests : f[first] = s BY <2>1
  <2>6. s \in Int /\ s <= c /\ hits.count \in Int BY <1>4, <1>8
  <2>7. \A i \in Requests : f[i] \in Int /\ f[i] <= c /\ f[i] >= -1 BY <1>3, <1>8
  <2>3. \A e, t : Cardinality(Since(e, t)) \in Nat /\ Cardinality(Before(e, t)) \in Nat /\ Cardinality(Within(e, t)) \in Nat
    BY <1>5, RequestSets
  <2>4. CASE WindowOver
    <3>1. hits'.start = c /\ hits'.count = 1 /\ hits' # NoHits /\ c - s >= RateWindow
      BY <1>1, <1>11, <2>4 DEF NoHits, WindowOver
    <3> DEFINE R == Since(f, s) \ {first}
    <3>2. R \in SUBSET Requests /\ first \in Since(f, s) BY <1>5, <2>2, <1>3, <1>4 DEF Since
    <3>3. Cardinality(R) <= RateMax - 1 /\ Cardinality(R) \in Nat
      <4>1. Cardinality(R) = Cardinality(Since(f, s)) - 1 BY <3>2, <1>5, RequestSets
      <4>2. Cardinality(R) \in Nat BY <3>2, RequestSets
      <4> HIDE DEF R
      <4> QED BY <4>1, <4>2, <2>1, <2>3, <1>4, <1>10
    <3>4. \A i \in Requests : f[i] < c /\ (f[i] > s => i \in R)
      <4> SUFFICES ASSUME NEW i \in Requests PROVE f[i] < c /\ (f[i] > s => i \in R) OBVIOUS
      <4>1. f[i] \in Int /\ f[i] < s + RateWindow BY <2>1, <2>7
      <4>2. f[i] < c BY <4>1, <3>1, <2>6, <1>8, <1>10
      <4>3. f[i] > s => i # first /\ f[i] >= s BY <4>1, <2>2, <2>6
      <4> QED BY <4>2, <4>3 DEF Since
    <3> HIDE DEF R
    <3>5. Since(g, c) \subseteq {k} BY <1>8, <1>3, <3>4 DEF Since
    <3>6. Before(g, c) \subseteq R
      <4> SUFFICES ASSUME NEW i \in Before(g, c) PROVE i \in R OBVIOUS
      <4>1. i \in Requests /\ g[i] < c /\ g[i] > c - RateWindow BY DEF Before
      <4>2. i # k BY <4>1, <1>3, <1>8
      <4>3. g[i] = f[i] /\ f[i] \in Int BY <4>1, <4>2, <1>3, <2>7
      <4>4. f[i] > s BY <4>1, <4>3, <3>1, <2>6, <1>8, <1>10
      <4> QED BY <4>1, <4>4, <3>4
    <3>7. Cardinality(Since(g, c)) <= 1 BY <3>5, <1>5, RequestSets
    <3>8. Cardinality(Before(g, c)) <= RateMax - 1
      <4>1. Cardinality(Before(g, c)) <= Cardinality(R) BY <3>2, <3>6, <1>5, RequestSets
      <4> QED BY <4>1, <3>3, <2>3, <1>10
    <3>9. ASSUME NEW t \in 0..MaxAcquisitionTime, c \in t..(t + RateWindow - 1)
          PROVE  Cardinality(Within(g, t)) <= 2 * RateMax - 1
      <4>1. t > s /\ \A i \in Requests : f[i] \in t..(t + RateWindow - 1) => f[i] > s
        <5>1. t \in Int /\ c < t + RateWindow BY <3>9, <1>8, <1>10
        <5>2. t > s BY <5>1, <3>1, <2>6, <1>8, <1>10
        <5> QED BY <5>1, <5>2, <2>6, <2>7, <1>10
      <4>2. Within(g, t) \subseteq R \cup {k} BY <4>1, <1>3, <3>4 DEF Within
      <4>3. Cardinality(Within(g, t)) <= Cardinality(R \cup {k}) BY <3>2, <4>2, <1>5, RequestSets
      <4>4. Cardinality(R \cup {k}) <= Cardinality(R) + 1 /\ Cardinality(R \cup {k}) \in Nat
        BY <3>2, RequestSets
      <4> QED BY <4>3, <4>4, <3>3, <2>3, <1>10
    <3>10. RequestsAreRationed' BY <1>7, <3>9 DEF RequestsAreRationed, Within
    <3>11. \A i \in Requests : g[i] < c + RateWindow BY <1>8, <1>3, <3>4, <1>10
    <3> QED BY <3>1, <3>7, <3>8, <3>10, <3>11, <1>3 DEF RationInv
  <2>5. CASE ~WindowOver
    <3>1. /\ hits.count < RateMax /\ c - s < RateWindow
          /\ hits'.count = hits.count + 1 /\ hits'.start = s
      <4>1. hits.count < RateMax /\ ~(c - s >= RateWindow) BY <1>1, <2>5, <1>11 DEF Allowed, WindowOver
      <4>2. hits' = [hits EXCEPT !.count = @ + 1] BY <1>1, <2>5
      <4>3. hits'.count = hits.count + 1 /\ hits'.start = s BY <4>2, <1>2
      <4> QED BY <4>1, <4>3, <2>6, <1>8, <1>10
    <3>2. hits' # NoHits BY <3>1, <1>4, <1>10 DEF NoHits
    <3>3. Since(g, s) \subseteq Since(f, s) \cup {k} /\ Before(g, s) \subseteq Before(f, s)
      BY <1>8, <1>3, <1>4 DEF Since, Before
    <3>4. Cardinality(Since(g, s)) <= hits.count + 1
      <4>1. Cardinality(Since(g, s)) <= Cardinality(Since(f, s) \cup {k}) BY <3>3, <1>5, RequestSets
      <4>2. Cardinality(Since(f, s) \cup {k}) <= Cardinality(Since(f, s)) + 1
            /\ Cardinality(Since(f, s) \cup {k}) \in Nat
        BY <1>5, RequestSets
      <4> QED BY <4>1, <4>2, <2>1, <2>3, <1>4
    <3>5. Cardinality(Before(g, s)) <= RateMax - 1
      <4>1. Cardinality(Before(g, s)) <= Cardinality(Before(f, s)) BY <3>3, <1>5, RequestSets
      <4> QED BY <4>1, <2>1, <2>3, <1>10
    <3>6. ASSUME NEW t \in 0..MaxAcquisitionTime, c \in t..(t + RateWindow - 1)
          PROVE  Cardinality(Within(g, t)) <= 2 * RateMax - 1
      <4> DEFINE U == Before(f, s) \cup Since(f, s)
      <4>1. t > s - RateWindow /\ t >= 0 BY <3>6, <1>4, <1>8, <1>10
      <4>2. \A i \in Requests : f[i] \in t..(t + RateWindow - 1) => i \in U
        <5> SUFFICES ASSUME NEW i \in Requests, f[i] \in t..(t + RateWindow - 1) PROVE i \in U OBVIOUS
        <5>1. f[i] >= 0 /\ f[i] > s - RateWindow /\ f[i] \in Int BY <4>1, <1>3, <1>4, <1>10
        <5>2. f[i] >= s \/ f[i] < s BY <5>1, <1>4
        <5> QED BY <5>1, <5>2 DEF Before, Since
      <4>3. U \in SUBSET Requests BY <1>5
      <4>4. Within(g, t) \subseteq U \cup {k} BY <4>2, <1>3 DEF Within
      <4>5. Cardinality(U) <= Cardinality(Before(f, s)) + Cardinality(Since(f, s)) /\ Cardinality(U) \in Nat
        BY <1>5, RequestSets
      <4> HIDE DEF U
      <4>6. Cardinality(Within(g, t)) <= Cardinality(U \cup {k}) BY <4>3, <4>4, <1>5, RequestSets
      <4>7. Cardinality(U \cup {k}) <= Cardinality(U) + 1 /\ Cardinality(U \cup {k}) \in Nat
        BY <4>3, RequestSets
      <4>8. Cardinality(U \cup {k}) <= (RateMax - 1) + (RateMax - 1) + 1
        <5>1. Cardinality(Since(f, s)) <= RateMax - 1 BY <2>1, <2>3, <3>1, <1>4, <1>10
        <5>2. Cardinality(U) <= (RateMax - 1) + (RateMax - 1)
          BY <4>5, <5>1, <2>1, <2>3, <1>10
        <5> QED BY <4>5, <4>7, <5>2, <1>10
      <4>9. Cardinality(Within(g, t)) \in Nat BY <2>3
      <4> QED BY <4>6, <4>7, <4>8, <4>9, <1>10
    <3>7. RequestsAreRationed' BY <1>7, <3>6 DEF RequestsAreRationed, Within
    <3>8. g[first] = s \/ g[k] = s
      BY <2>2, <1>8, <1>3, <1>4
    <3>9. \A i \in Requests : g[i] < s + RateWindow
      <4>1. c < s + RateWindow BY <3>1, <2>6, <1>8, <1>10
      <4> QED BY <4>1, <1>3, <2>1
    <3> QED BY <3>1, <3>2, <3>4, <3>5, <3>7, <3>8, <3>9, <2>2 DEF RationInv
  <2> QED BY <2>4, <2>5
<1> QED BY <1>9, <1>11

(* Nothing else lets a request pass. *)
LEMMA OtherRation ==
  ASSUME RationInv, FormInv, UNCHANGED <<hits, admittedAt>> \/ RestartAcquisition
  PROVE  RationInv'
<1>1. CASE UNCHANGED <<hits, admittedAt>> BY <1>1 DEF RationInv, RequestsAreRationed, Since, Before
<1>2. CASE RestartAcquisition
  <2>1. hits' = NoHits /\ \A k \in Requests : admittedAt'[k] = -1 BY <1>2 DEF RestartAcquisition
  <2>2. \A t \in 0..MaxAcquisitionTime : {k \in Requests : admittedAt'[k] \in t..(t + RateWindow - 1)} = {}
    BY <2>1
  <2>3. RequestsAreRationed'
    <3>1. \A t \in 0..MaxAcquisitionTime :
            Cardinality({k \in Requests : admittedAt'[k] \in t..(t + RateWindow - 1)}) = 0
      BY <2>2, RequestSets
    <3> QED BY <3>1, AcquisitionNumbers DEF RequestsAreRationed
  <2> QED BY <2>1, <2>3 DEF RationInv
<1> QED BY <1>1, <1>2

(* RequestsAreRationed for any ration, window, clock and number of clicks: a  *)
(* fixed window of RateMax requests lets fewer than twice as many pass in any *)
(* stretch of its length (checkRateLimit).                                    *)
THEOREM Rationed == AcquisitionSpec => []RequestsAreRationed
<1> DEFINE I == FormInv /\ RationInv
<1>1. AcquisitionInit => I
  <2> SUFFICES ASSUME AcquisitionInit PROVE RationInv BY InitForm
  <2>1. hits = NoHits /\ \A k \in Requests : admittedAt[k] = -1 BY DEF AcquisitionInit
  <2>2. \A t \in 0..MaxAcquisitionTime : {k \in Requests : admittedAt[k] \in t..(t + RateWindow - 1)} = {}
    BY <2>1
  <2>3. RequestsAreRationed
    <3>1. \A t \in 0..MaxAcquisitionTime :
            Cardinality({k \in Requests : admittedAt[k] \in t..(t + RateWindow - 1)}) = 0
      BY <2>2, RequestSets
    <3> QED BY <3>1, AcquisitionNumbers DEF RequestsAreRationed
  <2> QED BY <2>1, <2>3 DEF RationInv
<1>2. I /\ [AcquisitionNext]_acquisitionVars => I'
  <2> SUFFICES ASSUME I, [AcquisitionNext]_acquisitionVars PROVE RationInv' BY FormInvNext
  <2>1. ASSUME NEW k \in Requests, ~Admit(k),
               \/ Admit(k) \/ Refuse(k) \/ EvaluateFit(k) \/ SelectTracks(k) \/ SettleSelection(k) \/ JobFails(k)
               \/ ClickSubmit(k) \/ ReadAccepted(k) \/ ReadError(k) \/ PollJob(k)
        PROVE  UNCHANGED <<hits, admittedAt>>
    BY <2>1 DEF Refuse, EvaluateFit, SelectTracks, SettleSelection, JobFails, JobGoes, ClickSubmit, ReadAccepted,
                ReadError, PollJob
  <2>2. ASSUME NEW a \in answers, ReadAnswer(a) \/ LoseAnswer(a) PROVE UNCHANGED <<hits, admittedAt>>
    BY <2>2 DEF ReadAnswer, LoseAnswer
  <2>3. AcquisitionTick \/ UNCHANGED acquisitionVars => UNCHANGED <<hits, admittedAt>>
    BY DEF AcquisitionTick, acquisitionVars
  <2> QED BY <2>1, <2>2, <2>3, AdmitRation, OtherRation DEF AcquisitionNext
<1>3. I => RequestsAreRationed BY DEF RationInv
<1> QED BY <1>1, <1>2, <1>3, PTL DEF AcquisitionSpec
=============================================================================
