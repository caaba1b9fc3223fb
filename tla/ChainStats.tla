----------------------------- MODULE ChainStats -----------------------------
(***************************************************************************)
(* The chain statistics of the oracle server: GET /api/chain-stats is       *)
(* answered from a cache with a time to live, from a scan that is already   *)
(* in flight, or by a new scan.  A scan is a chain of awaited RPC calls     *)
(* that extend per-event logs kept across scans; any call may fail, and a   *)
(* call that fails too often aborts the scan half way.  Meanwhile blocks    *)
(* are mined and the trigger cycle slashes and busts the cache.             *)
(*                                                                         *)
(* An operator that no other definition uses is a mutant of the first used  *)
(* definition after it.                                                    *)
(***************************************************************************)
EXTENDS Integers, Sequences, FiniteSets, FiniteSetsExt

CONSTANTS
    Clients,            \* requests to /api/chain-stats that may be open at once
    Queries,            \* what a scan reads, in order: event names and "bonds"
    ChunkSize,          \* ARC_LOG_CHUNK_SIZE
    CacheTtl,           \* CACHE_TTL_MS in ticks
    MaxRetries,         \* MAX_RETRIES of withBackoff
    NoOne,              \* no scan in flight
    MaxBlocks,          \* bound: blocks mined
    MaxTime             \* bound: last value of the clock

Events == {Queries[i] : i \in DOMAIN Queries} \ {"bonds"}

ASSUME ChainStatsAssumption ==
    /\ Queries \in Seq(STRING) /\ Queries # <<>>
    /\ ChunkSize \in Nat \ {0} /\ CacheTtl \in Nat \ {0}
    /\ MaxRetries \in Nat /\ MaxBlocks \in Nat /\ MaxTime \in Nat
    /\ NoOne \notin Clients

VARIABLES
    now,
    chain,              \* blocks since DEPLOY_BLOCK: the event in each, when mined
    entries,            \* chunkLogCache: events held and lastScannedBlock, per event
    cache, cachedAt,    \* chainStatsCache, chainStatsCachedAt
    inFlight,           \* chainStatsInFlight: the request whose scan it is
    poll,               \* per request: "idle", "scanning" or "waiting"
    scan,               \* per request: the locals of its scan
    trigger             \* triggerCycle: block of the slash it has yet to show, or 0

server == <<entries, cache, cachedAt, inFlight, poll, scan>>
vars == <<now, chain, server, trigger>>

NoScan  == [step |-> 0, latest |-> 0, start |-> 0, startedAt |-> 0, attempt |-> 0]
NoStats == [upTo |-> 0, totals |-> <<>>]

\* Events of this name in the blocks from first to last.
Logs(event, first, last) == Cardinality({n \in first..last : chain[n].event = event})

-----------------------------------------------------------------------------
\* getChainStats.

Fresh == cache # NoStats /\ now - cachedAt < CacheTtl

Begin(c) ==
    /\ inFlight' = c
    /\ poll' = [poll EXCEPT ![c] = "scanning"]
    /\ scan' = [scan EXCEPT ![c] = [NoScan EXCEPT !.startedAt = now]]

PollAlone(c) ==
    /\ poll[c] = "idle"
    /\ ~Fresh
    /\ Begin(c)
    /\ UNCHANGED <<now, chain, entries, cache, cachedAt, trigger>>
Poll(c) ==
    /\ poll[c] = "idle"
    /\ ~Fresh
    /\ IF inFlight = NoOne THEN Begin(c)
       ELSE poll' = [poll EXCEPT ![c] = "waiting"] /\ UNCHANGED <<inFlight, scan>>
    /\ UNCHANGED <<now, chain, entries, cache, cachedAt, trigger>>

\* Answered at once; what is served is the cache.
PollCached(c) == poll[c] = "idle" /\ Fresh /\ UNCHANGED vars

-----------------------------------------------------------------------------
\* scanChainStats, one step per awaited call that returns.

\* The promise of the scan settles: its owner and all who wait are answered.
Settle(c) ==
    /\ poll' = [d \in Clients |-> IF d = c \/ poll[d] = "waiting" THEN "idle" ELSE poll[d]]
    /\ inFlight' = NoOne
    /\ scan' = [scan EXCEPT ![c] = NoScan]

\* The queries after step i that have something to ask: a log that reaches
\* latest already returns without a call.
Pending(i, latest) ==
    {j \in DOMAIN Queries : j > i /\ (Queries[j] = "bonds" \/ entries'[Queries[j]].last < latest)}

CacheAtEnd(c, latest) ==
    /\ cache' = [upTo |-> latest, totals |-> [e \in Events |-> entries'[e].held]]
    /\ cachedAt' = now
Cache(c, latest) ==
    /\ cache' = [upTo |-> latest, totals |-> [e \in Events |-> entries'[e].held]]
    /\ cachedAt' = scan[c].startedAt

\* Step i is over: the next query that needs a call, or the end of the scan.
Advance(c, i, latest) ==
    IF Pending(i, latest) = {} THEN Cache(c, latest) /\ Settle(c)
    ELSE LET j == Min(Pending(i, latest)) IN
         /\ scan' = [scan EXCEPT ![c] = [@ EXCEPT !.step = j, !.latest = latest, !.attempt = 0,
                       !.start = IF Queries[j] = "bonds" THEN 0 ELSE entries'[Queries[j]].last + 1]]
         /\ UNCHANGED <<cache, cachedAt, inFlight, poll>>

BlockNumber(c) ==
    /\ poll[c] = "scanning" /\ scan[c].step = 0
    /\ UNCHANGED entries
    /\ Advance(c, 0, Len(chain))
    /\ UNCHANGED <<now, chain, trigger>>

ReadBonds(c) ==
    /\ poll[c] = "scanning" /\ scan[c].step > 0 /\ Queries[scan[c].step] = "bonds"
    /\ UNCHANGED entries
    /\ Advance(c, scan[c].step, scan[c].latest)
    /\ UNCHANGED <<now, chain, trigger>>

ChunkOf(c) == Queries[scan[c].step]
ChunkEnd(c) == Min({scan[c].start + ChunkSize - 1, scan[c].latest})

\* One chunk of paginatedLogs: the events and lastScannedBlock grow
\* together, and the loop goes on from its own start.
ReadChunk(c) ==
    /\ poll[c] = "scanning" /\ scan[c].step > 0 /\ ChunkOf(c) # "bonds"
    /\ entries' = [entries EXCEPT ![ChunkOf(c)] =
          [held |-> @.held + Logs(ChunkOf(c), scan[c].start, ChunkEnd(c)), last |-> ChunkEnd(c)]]
    /\ IF ChunkEnd(c) < scan[c].latest
       THEN /\ scan' = [scan EXCEPT ![c].start = ChunkEnd(c) + 1, ![c].attempt = 0]
            /\ UNCHANGED <<cache, cachedAt, inFlight, poll>>
       ELSE Advance(c, scan[c].step, scan[c].latest)
    /\ UNCHANGED <<now, chain, trigger>>

\* withBackoff: a call that fails is tried again, MaxRetries times; then it
\* throws, and the scan with it, leaving the entries as far as they came.
RetryForever(c) ==
    /\ poll[c] = "scanning"
    /\ scan' = [scan EXCEPT ![c].attempt = (@ + 1) % (MaxRetries + 1)]
    /\ UNCHANGED <<now, chain, entries, cache, cachedAt, inFlight, poll, trigger>>
CallFails(c) ==
    /\ poll[c] = "scanning"
    /\ IF scan[c].attempt < MaxRetries
       THEN scan' = [scan EXCEPT ![c].attempt = @ + 1] /\ UNCHANGED <<inFlight, poll>>
       ELSE Settle(c)
    /\ UNCHANGED <<now, chain, entries, cache, cachedAt, trigger>>

-----------------------------------------------------------------------------
\* triggerCycle, as far as the statistics go: a slash is mined, the oracle
\* is recharged, and the cache is busted unless a later step throws.

Mined(event) ==
    /\ Len(chain) < MaxBlocks
    /\ chain' = Append(chain, [event |-> event, at |-> now])

TriggerSlash ==
    /\ trigger = 0
    /\ Mined("AgentSlashed")
    /\ trigger' = Len(chain')
    /\ UNCHANGED <<now, server>>

Bust ==
    /\ trigger # 0
    /\ cachedAt' = -CacheTtl
    /\ trigger' = 0
    /\ UNCHANGED <<now, chain, entries, cache, inFlight, poll, scan>>

TriggerFails ==
    /\ trigger # 0
    /\ trigger' = 0
    /\ UNCHANGED <<now, chain, server>>

\* Everybody else's transactions, and time.
Mine ==
    /\ \E event \in Events \cup {"other"} : Mined(event)
    /\ UNCHANGED <<now, server, trigger>>

Tick ==
    /\ now < MaxTime
    /\ now' = now + 1
    /\ UNCHANGED <<chain, server, trigger>>

-----------------------------------------------------------------------------
Init ==
    /\ now = 0
    /\ chain = <<>>
    /\ entries = [e \in Events |-> [held |-> 0, last |-> 0]]
    /\ cache = NoStats
    /\ cachedAt = -CacheTtl
    /\ inFlight = NoOne
    /\ poll = [c \in Clients |-> "idle"]
    /\ scan = [c \in Clients |-> NoScan]
    /\ trigger = 0

CallReturns(c) == BlockNumber(c) \/ ReadBonds(c) \/ ReadChunk(c)

Next ==
    \/ \E c \in Clients : Poll(c) \/ PollCached(c) \/ CallReturns(c) \/ CallFails(c)
    \/ TriggerSlash \/ Bust \/ TriggerFails \/ Mine \/ Tick

Spec == Init /\ [][Next]_vars

\* Every call returns or fails in the end.
Fairness == \A c \in Clients : WF_vars(CallReturns(c) \/ CallFails(c))

FairSpec == Spec /\ Fairness

-----------------------------------------------------------------------------
\* Properties.

TypeOK ==
    /\ now \in 0..MaxTime
    /\ Len(chain) <= MaxBlocks
    /\ entries \in [Events -> [held: 0..MaxBlocks, last: 0..MaxBlocks]]
    /\ cache = NoStats \/ cache \in [upTo: 0..Len(chain), totals: [Events -> 0..Len(chain)]]
    /\ cachedAt \in {-CacheTtl} \cup 0..now
    /\ inFlight \in Clients \cup {NoOne}
    /\ poll \in [Clients -> {"idle", "scanning", "waiting"}]
    /\ scan \in [Clients -> [step: 0..Len(Queries), latest: 0..Len(chain), start: 0..Len(chain),
                             startedAt: 0..now, attempt: 0..MaxRetries]]
    /\ trigger \in 0..Len(chain)

\* Whatever calls failed, scans aborted and requests came together, the
\* totals are those of the chain up to the block they name: no event is
\* counted twice and none is skipped for good (paginatedLogs, the in-flight
\* promise of getChainStats).
TotalsAreExact ==
    cache # NoStats => \A e \in Events : cache.totals[e] = Logs(e, 1, cache.upTo)

\* What the cache serves contains every block older than the time to live,
\* however long the scan that filled it took (getChainStats).
CacheIsFresh ==
    Fresh => \A n \in 1..Len(chain) : chain[n].at <= now - CacheTtl => n <= cache.upTo

\* Every request is answered, with statistics or an error, even when the RPC
\* node refuses every call from some point on (withBackoff, finally).
PollsAreAnswered == \A c \in Clients : poll[c] # "idle" ~> poll[c] = "idle"
=============================================================================
