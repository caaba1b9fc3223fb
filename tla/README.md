# ArcID: specifications, model checking and proofs

TLA+ modules of the ArcID system (bonded TEE agents on the Arc chain, the
consumer that adjudicates and slashes them, and the payment contracts around
them), the TLC configurations that check small instances, and TLAPS proofs of
the most important properties for every value of the constants.

Paths are relative to the repository. `PROJECT.json` is the machine-readable
index: components, runs, the lines every definition models, hazards, mutants
(a plausible bug per property, which makes its run fail), findings, theorems.

1. Inventory · 2. Modules · 3. Runs · 4. Fairness · 5. Proofs · 6. What is only
model-checked · 7. What is not modelled · 8. Disagreements met · 9. Plan

## 1. Inventory

| Part | State it keeps | Operations | Talks to |
|---|---|---|---|
| `contracts/ArcIDBond.sol` | bonds, breach epochs, blacklist, settled verdicts, disputes, schedule, slasher, adapter | postBond, slash, recordSettlement, fileIndictment, resolveDispute, finalizeExpiredDispute, withdrawBond, seven setters | collateral ERC-20, registry, reputation adapter |
| `contracts/ArcIDRegistryV2.sol`, `DCAPVerifier.sol` | agentIdBySigner | registerAgent (one way) | read by postBond |
| `contracts/ERC8004ReputationAdapter.sol` | agent ids, bond address | reportSlash, reportSettlement, setters | called by the bond in try/catch |
| `contracts/ConsumerSessionKeyGuard.sol` | session key, payout, cap, expiry | grant, revoke, guardedSlash, guardedRecordSettlement | holds the slasher role of the bond |
| `contracts/TrainingPool.sol`, `CompensationClaim.sol`, `ArtistRegistry.sol` | pools; Merkle roots, funds, claims; tracks | createPool, distribute, withdraw; submitAllocation, claim; registerTrack | each other, ingestor |
| `contracts/ExploitBounty.sol`, `bounty/` | bounties, the verifier; requests of the server, a rate limiter | registerTarget, submitVerdict, withdrawBounty, setAuthorizedVerifier; run the exploit, from the server or the command line, send the verdict | collateral, a local chain |
| `contracts/RightsClaimBond.sol` | two-sided claims | fileClaim, challengeClaim, finalizeUnchallenged, resolveChallenge, setDisputeWindow | read by the ingestor |
| `consumer/src` | two ledger files, breaker flag, audit files | runCycle: fetch, verify, adjudicate, gate, slash or settle, report | oracle HTTP, bond, guard, Gateway |
| `oracle/src` | fault mode, verdict ring, counters, premium map, cooldown, statistics cache | serve a price, take verdicts, premium analyses, triggerCycle, demo-pay, chain statistics | chain, consumer |
| `ingestor/src` | none between requests | ingest: check corpus, split, Merkle tree, attest | TrainingPool, ArtistRegistry |
| `acquisition/` | jobs of the server, a rate limiter | POST and GET of a job, evaluateFit, selectTracks, settleSelection | TrainingPool, ingestor, CompensationClaim |
| `frontend/src/components/AcquisitionForm.jsx` | the job shown, an interval | submit, poll, stopPolling | the acquisition server |
| `scripts/*.js`, `scripts/cli/*.js` | `deployments/*.json`, keys in `.env` and `acquisition/.env` | deploy, wire, register, fund, grant, mint identities; sell one premium analysis through an ERC-8183 job | every contract, the oracle |
| other `frontend/` cards, `spike/`, fixtures, mocks | none of their own | views, experiments, tests | the HTTP routes |

How the parts interact. Contract functions run as one transaction each and
call each other inside it (`CompensationClaim.submitAllocation` pulls from the
pool, the guard calls the bond, the bond calls the adapter in try/catch). All
off-chain parts are Node processes: one handler runs until its next `await`,
other requests, other processes and the chain go on in between. The consumer
keeps its memory in files that it loads, holds over awaits, and writes back
whole; the oracle server keeps its memory in variables that a restart loses.
Two processes sign with the consumer's key: the consumer, and the oracle
server's trigger cycle. The operator's scripts meet the rest only through the
chain, the key files and the deployment files, which a script writes last.

What is hard in it, and what makes each part correct:

| Part | Hard behaviour | Correct when |
|---|---|---|
| Bond | a bond drained, withdrawn and re-posted while disputes against it are pending; the schedule retuned between preview and execution; rounding on small bonds; the cliff's off-by-one | collateral is always exactly backed; no transaction takes more than its cap short of an escalation; escalation is earned, final and not avoidable; a dispute is executed at most once and closes |
| Guard | sessions overwritten, expired or revoked with calls in flight | slashed money only reaches granted payouts; no slash outside a session |
| Breach half of a cycle | the gate decides from reads that are stale when the transaction is mined; the trigger cycle slashes in between | the route is the contract's own; what is reported is what happened |
| Settlement half of a cycle | a crash or a lost answer between payment, record and file write; torn files | an interaction is paid once, rolling spend stays below the caps, feedback is not repeated when known to have landed |
| Pools and claims | ids read before they are assigned, jobs on one wallet, withdrawal while the enclave attests, remainders of the split | every pool's money is accounted for to the last unit; every open share has a valid proof and is funded |
| Chain statistics | scans that share logs, fail half way, outlive the cache they fill | no event is counted twice or lost; the cache is as fresh as it claims; every request is answered |
| Price exchange | faults, slow answers and registry reads that fail in a mechanical check whose attestation is cached; a model whose fields need not agree; verdicts posted from two places, across restarts | nobody is slashed, indicted or paid without cause; Tier 1 misses nothing; the feed agrees with its counters |
| Bounty, rights claims | verdict, withdrawal, challenge and resolution in any order; claims read one after the other | every bounty and bond leaves its contract once, to the right account; what the gate let through stays licensed |
| Premium analyses | a bounded map that anyone may write to and a restart empties, between the hash a job promises and the payload its evaluator reads | only what was promised is paid for; a hard breach has a cause; the latest analyses stay available |
| Acquisition server and form | a window of a rate limiter; an interval that does not wait for its own answers, clicks while a POST is in flight | the ration holds for any stretch of time; the form never loses an interval; every job ends |
| Scripts | a death between two transactions, or between a transaction and the file; scripts run again, mixed, on parts that were redeployed | files stay true of the chain; what they call ready works; money goes to keys somebody holds |

## 2. Modules

Every module says in its header what it abstracts. An operator no other
definition uses is a mutant of the definition after it.

### ArcIDBond, BondEscrow, ArcIDBondHistory (the core)

One action per external function of `ArcIDBond.sol`; all of them are
`nonReentrant`, so each is one step with every internal call it makes.
`ExecuteSlash` is `_executeSlash` and is shared by `Slash` and, through
`ExecuteSlashOrVoid`, by the two ways to close a dispute. Both breach classes,
the cap arithmetic (with its floor of one unit), the epoch reset that writes
only the breached class's counter, and the escalation that drains and bars are
as in the code. `Transfer` is the ERC-20; `ReportFeedback` the adapter inside
try/catch, which may also fail. `RegisterAgent` is the registry as the bond
sees it, `Tick` the block timestamp. A dispute is filed only when its deadline
lies within the clock's bound, so that the end of time is not a way to miss it.

`BondEscrow` is what the contract promises about money: per-agent collateral,
wallets, the pot, the barred agents; deposit, full refund, award, and drain
with a bar. `ArcIDBond!Escrow` is the refinement mapping and
`ImplementsEscrow` the property.

`ArcIDBondHistory` adds a log of the breaches that were really executed, one
entry with class, time and hash per slash or approved dispute, so that
escalations, and the feedback given for breaches, can be compared with events
instead of with the counter that decides them. A void or a rejection logs
nothing.

### SessionKeyGuard, SlashPipeline

`SessionKeyGuard` extends `ArcIDBond` with the guard: a session, its four
functions, and a history of granted payouts. `SlashPipeline` puts the
processes around both: a consumer loop step by step (adjudicate, read
threshold, read preview, check the bond, decide how to send, check the
session, send or file, report), the trigger cycle (check, read balance, post, slash, recharge),
whoever holds a session key, the owners, agents and the clock. Choices:

- the first four checks of `gateSlash` have no effect but to end the cycle, so
  only verdicts that pass them start one; `DEV_MODE` slashes touch nothing and
  are left out;
- one loop may use the guard or not from cycle to cycle, as after a restart
  with another `SESSION_GUARD_ADDRESS`;
- a dispute route under the guard ends the cycle: the code throws there;
- the gas reserve of the trigger cycle is not part of the model's balance, and
  its cooldown is why there is one trigger cycle at a time;
- no other holder of the slasher role acts: only the consumer's key, the
  trigger cycle (same key) and session keys.

### ConsumerCycle

The settlement and feedback half of `runCycle`. `Settle` starts
`executeSettlement` (dedupe, breaker, copy of the ledger); `Pay`,
`RecordOnChain`, `SaveSettlement` are its awaits; `SaveTrip` and
`SaveSimulated` its early exits; `BeginReport`, `SavePending`, `SendFeedback`,
`SaveOutcome` are `reportToERC8004`; `Start` runs `checkForOrphanedWrites`;
`Resume` is `breaker.js`. `CrashAtAwait` is possible at every await and
`CrashInLedgerSave` in the middle of `writeFileSync`: the torn file then loads
as `{}`. `Pay` may move funds and lose the answer. `paid`, `lost` and
`unknown` are history variables: what really left the wallet, and which of it
no ledger will know. The breaker counts settlements only (fetches of a price
are paid outside of it), and so does the model. The slash itself is one action
here and a whole module above. Nothing locks the ledgers; with two processes
the module is the code's too, but no run has two (§6, §8).

### TrainingCompensation, MerkleTree

`TrainingPool`, `CompensationClaim`, `ArtistRegistry`, the ingestion enclave
and the settlement jobs of the acquisition server in one module, because what
matters is what happens between their steps: a job reads its pool id, creates
its pool, asks the enclave, submits the allocation and claims share by share,
while another job on the same wallet, another company, the artists and the
owner act. `MerkleTree` is `merkle.js` and the OpenZeppelin verifier over
hashes that are injective records, with sorted pairs as sets and the promoted
odd node. The registry reads of one request are one step; the optional
`RightsClaimBond` gate is off, its default; any failing call ends a job and
leaves the chain as it is.

### ChainStats

`getChainStats`, `scanChainStats`, `paginatedLogs` and `withBackoff`, one step
per awaited call that returns or fails, over blocks that each hold at most one
event. The values read from bonds and the volumes are abstracted to counts of
events, the bond reads of one scan to one call. Backoff delays and pacing are
left out (a retry may come at any time), the RPC node does not lag behind
itself, and a restart, which loses everything, is `Init` again.

### PriceExchange

The other half of the oracle server and of the consumer's cycle: the 402
handshake and the admission of the caller (`Request`, `ServePrice`,
`RefusePrice`), the answer as the fault modes spoil it (`Respond`), the age and
the mechanical checks with the attestation that a process reads once
(`Receive`, `Verify`), the adjudicator, which may say anything or fail
(`Adjudicate`, whose fields nothing ties to each other), what the verdict leads
to (`Act`: the checks of `gateSlash` that can fail, the routes, the settlement),
and the verdict's way into the feed (`PostVerdict`), beside the trigger cycles
that write to the same ring and counters (`EndTrigger`), `demo-pay`, fault
changes, restarts of either side and registrations. Each await is a step.
`POST /api/verdicts` asks nobody who he is and takes any truthy verdict, with or
without a tier, so `StrangerPosts` posts such records too (`MaxPosted` of them in
an instance); `Count` counts what it knows and passes over the rest, `Post` is
the handler.
Amounts paid, call totals and the last consumer are left out. What an act then
does to bond and payment is the modules above.

### PremiumJobs

The map of premium analyses with its POST and GET, and the script that sells
one of them through the ERC-8183 escrow, await by await: fund, request, submit
the hash, fetch as evaluator, read the bond, complete, or reject and slash. The
POST route is open, so `StrangerPosts` has any id signed again; the map evicts
and a restart empties it; the script may die at every await. The escrow
contract is not in the repository: of it the model has the statuses through
which the script takes a job. `replaced` remembers for which sales somebody had
the analysis made again.

### Acquisition

The acquisition server and the form that drives it. `Admit` and `Refuse` are
the POST handler with `checkRateLimit`; `EvaluateFit`, `SelectTracks`,
`SettleSelection`, `JobFails` are `runJob`; then the clicks, the answer to the
POST, the interval, the poll answers that arrive late, never or out of order.
A request and its job share a number. What the settlement does on chain is
`TrainingCompensation`.

### Deployments

Every script that deploys, wires, registers or writes a key or a file, one
transaction a step, with the contracts as records of what their constructors
were given, the account they authorise, and who is registered, staked or
credited in them. `Begin` starts a script when none runs; `Crash` ends one
anywhere, and since a script keeps its place nowhere it starts again from the
top. `files` are the deployment files, `env` the keys in the two environment
files, `funded` the generated wallets that got money. Commands that are one
transaction (`Register`, `PostBond`, `SetAuthorizedSlasher`, ...) are one
action; the last takes any address, a guard's included, as the script does, and
acts on the bond `standalone.json` names when it runs. Amounts, allowances and the mocks of local networks are left out.

### CollateralToken, ExploitBounty, RightsClaimBond, CollateralEscrows

`CollateralToken` is the token and the clock; the two contracts extend it and
`CollateralEscrows` runs them side by side for the same people.
`ExploitBounty` has the four functions of the contract and the submissions,
from the server (`Submit`) or the command line (`HarnessMain`): the exploit
runs on a local chain that nobody else sees, so it is one step with the start
(`RunExploit`), and the verdict is sent later (`SubmitOnChain`), after whatever
other submissions and the owner did. The server's rate limit only refuses
submissions and is left out; the limiter itself is checked in `Acquisition`,
which has the same code.
`RightsClaimBond` has the five functions of the contract, the track registry
under it, and the gate of the ingestion enclave, which reads the claims of a
corpus one by one. What each account holds is stated from the records:
`BountiesHeld`, `BountyGain`, `BondsHeld`, `ClaimGain`.

## 3. Runs

Amounts, times and names are small; a "basis point" of the bond instances is a
tenth, so that shares round to zero on small bonds and do not on larger ones.

| Run | Instance | Asks |
|---|---|---|
| `bond_history` | 1 agent with funds 9 that posts 1 or 7, 1 consumer, 1 slasher, 2 hashes, an adapter that may be set, removed or fail, 2 disputes, epoch 2, time 5, both cliffs at 2 breaches; 964 000 states | `Solvency`, `ImplementsEscrow`, `BlacklistIsFinal`, `EscalationHasBreaches`, `EnoughBreachesEscalate`, `PreviewIsExact`, `WindowIsAnchored`, `FeedbackIsBacked` |
| `bond_stale` | as `bond_history`, 1 hash, no adapter | violated: `EscalationIsEarnedInWindow` |
| `bond_cliff` | as `bond_stale` | violated: `BarsArePastThreshold` |
| `bond_callers` | owner: 1 agent with funds 7, 2 slashers, an adapter, every setter with values the code accepts and values it refuses, 1 dispute, epoch 2, time 3. Pipeline: 1 oracle with funds 2, a loop, the trigger cycle, 1 key, 3 payees of which 1 may be granted, 1 dispute, epoch 1, time 2. 1 066 000 states | `LossIsCapped`, `DisputeTermsAreFixed`, `DisputesClose` under retuning at any moment; `RouteMirrorsContract`, `ProceedsReachGrantedPayouts`, `NoSlashOutsideSession`; each in both |
| `rail_settlement` | rail: 2 jobs, 2 companies, 3 artists, corpora of 3 and of 2 tracks, pools of 5, 2 pools. Settlement: 1 process, 2 interactions, caps of 1 per minute and 2 per hour, 3 payments, time 3. 709 000 states | `PoolsAreBacked`, `AllocationIsExact`, `ClaimsAreFunded`, `JobsKeepToTheirPools`; `SpendIsCapped`, `PaidOncePerInteraction`, `OnlyResumeClearsBreaker` |
| `cycle_record` | the settlement of `rail_settlement` | violated: `EachSettlementIsRecorded` |
| `price` | 1 consumer started with or without the stale fault, age 0, feed of 2, 1 record of a stranger, cooldown 1, 2 cycles, time 1; 1 103 000 states | `VerdictsAreEarned`, `FeedMatchesCounters` |
| `escrows` | 2 people with 1 token each, 2 bounties, 2 invariants, 2 tracks, 1 submission at a time, time 1; 1 460 000 states | `BalancesAreExplained`, `LicensedTracksAreBonded` |
| `scripts_feedback` | scripts: 2 agents, 4 wallets to generate, 2 tracks, 8 contracts, 4 script runs of which 1 dies. Feedback: 1 process, 1 settlement and 1 breach reason, 2 feedback transactions each. 396 000 states | `FilesDescribeTheChain`, `WiredWalletsCanAct`, `BondsFitTheirParts`, `KeysAreLostOnlyByCrashOrRerun`, `IdentitiesAreAccounted`; `FeedbackRepeatsOnlyWhenUnknown`, `PendingIsResolved` |
| `deployment_rerun` | the scripts of `scripts_feedback` | violated: `CatalogReusesItsKeys` |
| `requests` | statistics: 2 requests, one event before and one after the bond reads, chunks of 1, 2 blocks, time to live 2, 1 retry, time 2; premium: 1 sale, 2 other ids, map of 2, 3 POSTs, age 0, time 1; acquisition: 2 clicks, 2 answers in flight, 1 request per window of 2, 2 tracks of which 1 can be paid, time 2; 368 000 states | `TotalsAreExact`, `CacheIsFresh`, `PollsAreAnswered`; `SalesAreJust`, `RecentAnalysesAreServed`; `RequestsAreRationed`, `NoIntervalIsLeaked`, `AcceptedJobsEnd` |
| `premium_open` | as `requests` | violated: `EvaluatorGetsWhatWasSubmitted` |

Several runs hold more than one instance. Parts that have no state in common
cannot meet, so `rail_settlement`, `scripts_feedback` and `requests` pick one of
them in the initial state (`serving`) and leave the others at rest; a behaviour
is that of the one part, and every property is checked on all of them.
`bond_callers` picks in the same way (`calling`) between two sets of constants
of one bond: under the pipeline's a dispute is due at once and cliffs are near,
under the owner's an amount crosses the challenge threshold while the schedule
changes; `INSTANCE ArcIDBond WITH` gives the actions their second inputs.

Three runs look longer at some states than at others, by a constraint in their
MC module that says which:

- `ObservedBriefly` (`bond_history`): states with an adapter, an entry in the
  registry or the second hash are followed to time 2 and with one dispute. What asks for more time and disputes does not
  look at the adapter, and one hash is all the log needs to tell breaches apart
  by time.
- `RegisteredEarly` (`rail_settlement`): all tracks but the one two artists may
  claim are registered before the first job or pool. A track that appears while
  jobs work is that one.
- `StrangersMeetAPlainConsumer` (`price`): after a stranger's post the consumer
  runs without faults or flags and for one cycle. The feed asks for no faults,
  since the model may say anything.

Why the bounds are enough for the questions:

- One agent suffices for the bond: no function reads another agent's record,
  and the only state agents share is the escrow account, whose balance moves
  exactly with the agent's own collateral. That is the theorem
  `BondImplementsEscrow`, for any number of agents.
- Two bonds per agent (posts of 1 and 7 out of 9), two disputes and two and a
  half epochs reach: re-posting with a dispute pending against the old bond,
  two disputes of which the first drains the bond, a breach on either side of
  an epoch boundary, a bond of a single unit, whose share rounds to zero.
- The owner of `bond_callers` is about one dispute and any schedule; 2 slashers
  are needed to rotate the role away from whoever filed it.
- Two hashes and two slashes before the drain tell the entry of a dispute that
  is voided from the entries of what was slashed before it (`FeedbackIsBacked`).
- Three consumers in the pipeline: the wallet, a granted payout, one that is
  neither. Lifetime 0 makes the boundary second of a session a state of its own.
- Caps of 1 and 2 with three payments make each window fill, pass its edge and
  fill again; two interactions separate "the same again" from "another one".
- A corpus of three has an odd layer in its tree and an artist with two tracks;
  5 leaves a remainder for both corpora; two pools let a job meet a stranger's.
- Two requests are all that differ for the statistics: the one that scans and
  one that waits or comes later; two blocks and chunks of one give a scan that
  is interrupted between chunks and resumed with a longer chain.
- One consumer in `price`: consumers share only the feed, and the trigger
  cycles and a stranger's record already write to it between a consumer's
  steps. A feed of 2 overflows; a cooldown of 1 lets a second trigger start while
  the first runs; with age 0 a tick in transit is an answer too late, and the
  stale fault one tick off.
- A map of two with three ids evicts, and an id stored again is not an insertion.
  Two clicks are enough for an answer of the old job to reach the form of the
  new one; one request per window and two clicks fill it.
- Four script runs are a stack, a part on it, the part or the stack
  again, and one script more; the generated wallets suffice for every script
  that makes some, twice. One death at any step of any of them.
- Two bounties in `escrows`, so that a payment too many would have a pool to
  come from; two tracks, so that the gate has an earlier answer to rely on; one
  token each makes people choose, and others act meanwhile. One submission at a
  time is enough: it holds its verdict while the contract moves on, and a second
  one holds nothing that the first does not.

Deadlock is checked in every run but those with the scripts or with the three
request handlers. Time, payments, pools and disputes are
capped; the processes can always take a step that is not capped (a setter, a
restart, a poll), so a deadlock would be real. Those two may stop: the operator
is done, the form has had its clicks.

`PROJECT.json` names a mutant for each property, a plausible bug that makes its
run fail: an operator that no other definition uses is one of them.

## 4. Fairness

- `bond_callers` (`CallersFairness`): weak fairness of `Tick` (blocks keep being mined) and of
  `FinalizeExpiredDispute`, which is permissionless: the consumer who is owed
  the money can call it. Neither the owner nor the slasher is fair.
- `scripts_feedback` (`CycleFairness`): weak fairness of `SendFeedback` and `SaveOutcome` (an await
  ends, the handler goes on) and of `Start` (the process is started again, as
  by its supervisor). A crash is never fair and never excluded.
- `requests`, statistics: each RPC call returns or fails. Nothing says that it
  succeeds: `PollsAreAnswered` holds with a node that refuses every call.
- `requests`, acquisition: weak fairness of the next step of each job
  (`AcquisitionFairness`): a call of the model or of the chain returns or
  throws. Neither the form nor the network is fair, and a restart may come.

## 5. Proofs

Seven modules hold theorems and `SumTheorems` the facts about sums they share;
TLAPS checks them down to the last leaf, for every value of the constants that
the assumptions allow: every set of agents, consumers, keys and tracks, every
schedule the setters accept, every number of requests, jobs, script runs and
deaths.

| Module | Is about |
|---|---|
| `BondProofs` | `ArcIDBond`, `ArcIDBondHistory`, `SlashPipeline` |
| `ConsumerCycleProofs` | `ConsumerCycle` |
| `TrainingCompensationProofs` | `TrainingCompensation`, `MerkleTree` |
| `CollateralEscrowsProofs` | `CollateralEscrows` and the two contracts in it |
| `DeploymentsProofs` | `Deployments` |
| `PriceExchangeProofs` | `PriceExchange` |
| `RequestsProofs` | `ChainStats`, `PremiumJobs`, `Acquisition` |
| `SumTheorems` | sums over finite sets |

Every safety property a passing run checks is the conclusion of a theorem; what
TLC alone says is in §6.

Assumptions: `BondAssumption` (agents finite and apart from consumers and the
contract; epoch length and denominator positive; inputs natural numbers; the
initial schedule one the constructor accepts), `GuardAssumption` (the guard may
hold the slasher role; no key, payout is address(0)), `PipelineAssumption` (the
consumer's key is not the guard), `ConsumerAssumption` (services and hashes
finite, the price positive), `RailAssumption` (the
roles of the rail are different accounts, corpora are non-empty and amounts
positive), `TokenAssumption`, `BountyAssumption`, `ClaimsAssumption` and
`EscrowsAssumption` (address(0) is nobody's wallet, the contracts are two,
corpora are sequences of tracks, bonds and windows positive),
`DeploymentAssumption` (wallets of different kinds and contract addresses are
apart), `ChainStatsAssumption` (chunks and time to live positive),
`ExchangeAssumption` (ages are natural numbers, the stale fault is past the
limit, flags are faults or none), `PremiumAssumption` and
`AcquisitionAssumption` (map, ration, window, price and budget positive). TLC
evaluates all of them in the runs.

**SumTheorems.** A sum over a set is a recursive function in the community
modules, and the library's induction theorems take an operator, which no
installed prover instantiates. `LeastSet` goes round that: the finite subsets
of a set are well-founded, so a set of counterexamples has a minimal member.
With the good sets as a set instead of an operator this becomes `SetInduction`
and, for numbers, `UpTo`. They give what an account needs: one summand added,
removed or changed (`SumAdd`, `SumRemove`, `SumChange`), disjoint parts
(`SumDisjoint`), bounds (`SumAtLeast`, `SumMonotone`, `SumOfPart`).

**ArcIDBond.** The inductive invariant is

Inv == TypeOK /\ ClosedIffEmpty /\ BlacklistIsFinal /\ IdsAreFresh

`TypeOK` alone is not inductive: amounts stay naturals because a slash takes
between one unit and the whole bond (`SlashAmountBounds`), and it takes at
least one because an active bond is never empty (`ClosedIffEmpty`). A
blacklisted agent stays closed because neither posting nor a pending dispute
revives the drained record. Dispute terms are fixed because the next id holds
no dispute (`IdsAreFresh`). `ExecuteSlashEffect` sums up what an executed slash
does, for whichever route executes it, and `CollateralSteps` reduces every
step to posting, withdrawing, an executed slash, or nothing. `Solvency` is
inductive beside `Inv`: each of those changes one bond and the escrow account
by the same amount (`HeldMoves`, from `SumChange`), and no account is
overdrawn because one bond is at most the sum (`HeldIsCovered`). The refinement
`BondImplementsEscrow` takes each step of the contract to a step of
`BondEscrow` or a stutter.

**The breach log.** Counters against logged breaches needs both directions: a
count is at most the breaches of the agent's life (`CountsAreLogged`), and the
breaches since the window's start are at most the count (`WindowIsCounted`).
The second is inductive only with `LogTyped`, which says that no breach lies at
or after the window's end, so that none of them is in the next window.
`CountsEscalate` and `BarsAreLogged` carry the threshold to the blacklist. The
count of the other class, which a new window leaves alone, is why the first
direction counts a lifetime and not a window (`bond_stale` shows that it
cannot). The history runs with the schedule it was deployed with.
`FeedbackIsBacked` is inductive on this log: only an executed breach adds an
entry of its class and hash, it is logged in the same step, and the log only
grows.

**SlashPipeline.** `RoutingInv` says that a dispute names a payee (the
consumer's wallet or a granted address), that a live session pays a granted
address, and that nobody else has been paid. It needs no arithmetic and no
part of the bond's invariant: each lemma shows that one group of callers moves
money only between agents, the escrow and payees, and that breach counts
change only with a session, with the consumer's own key, or with a dispute.
`RoutesAreAdmitted` shows that only `ReadPreview` leads from the preview to the
check (`LoopAdvances`), so that the route is the one of the figures of that
state, and compares it with the guards of `slash` and `fileIndictment`.

| Theorem | Says |
|---|---|
| `TypeCorrect` | every reachable state is well typed |
| `ClosedBondsAreEmpty` | a bond is closed exactly when it is empty |
| `EscrowIsSolvent` | the escrow holds exactly the sum of all bonds, nobody is overdrawn |
| `BlacklistingIsPermanent` | a barred agent never has collateral again |
| `FeedbackHasACause` | a breach entry of the registry is backed by a breach of that class executed against that agent for that hash |
| `LossesAreCapped` | short of escalation, at most a class share of what remains |
| `WindowsAreAnchored` | windows restart only once elapsed, counts never fall inside one |
| `PreviewsAreExact` | `previewSlash` announces exactly what `slash` does |
| `LargeSlashesAreDisputable` | a semantic slash above the threshold is instant only when it escalates |
| `DisputeTermsHold` | a dispute is filed once, keeps its terms, is closed once |
| `BondImplementsEscrow` | every transaction is a step of `BondEscrow` or a stutter |
| `BarsHaveBreaches` | a barred agent has a threshold of executed breaches of one class |
| `BreachesBar` | a threshold of breaches in one window bars |
| `RoutesAreAdmitted` | the route the gate picks is one the contract admits |
| `ProceedsAreRouted` | slashed collateral reaches only the consumer's wallet or a granted payout |
| `SessionsBoundSlashes` | with the guard as slasher and no live session, only closing an earlier dispute counts a breach |

**ConsumerCycle.** All four theorems assume one process at a time
(`OneProcess`), as the ledgers do: each process writes its own copy of a file
back, and with two of them a tripped breaker is lost and feedback repeated.
`Inv` says that a tripped breaker finds nobody between loading the ledger and
saving it (`BreakerStops`), that a process writing feedback holds the ledger as
it is on disk with its own hash unconfirmed (`CopyIsFile`), and that every
feedback entry is confirmed, about to be, or counted as unknown
(`FeedbackIsAccounted`). `SpendInv` is about the money: while a process settles,
its copy is the file and its key is not in it (`HoldsCopy`); a payment that was
not lost is held by the process or stands in the ledger at its time or later
(`PaymentsStand`), so a window sees it at least as long as the wallet does; and
the rolling spend together with the payment a process may still make is within
each cap (`Fits`), which is the check made before the first await. A torn ledger
moves everything it held to what was lost.

| Theorem | Says |
|---|---|
| `FeedbackIsCounted` | feedback for a hash repeats only when the first may have landed unconfirmed |
| `BreakerHolds` | nothing is paid while the breaker is tripped, only the operator clears it |
| `SpendStaysCapped` | each rolling window sees at most its cap and what the ledger lost |
| `PaymentsAreDeduped` | an interaction is paid once, and once more per lost payment |

**TrainingCompensation.** Three invariants, one on top of the other.
`MoneyInv` is each contract by itself: an existing pool holds its amount or is
closed, and never both distributed and withdrawn (`PoolKept`); the pool contract
holds the sum of the pools and the claim contract at least the sum of what it
owes, because `submitAllocation` books a debt and pulls the pool in one
transaction, while the owner may send it more.
`RailInv` adds the jobs. Two of them use one wallet, and the pool id is read
before `createPool` is mined. What keeps them apart is the nonce: while the
`createPool` of a job can still go through, no transaction of the wallet has
come in since the id was read, so the pools made meanwhile are other companies'
(`Aims`). Hence a job works on its own pool or on a stranger's, never on one of
the server's other jobs.
`ShareInv` follows an allocation to its job: two jobs that made a pool have read
different ids, since the later nonce was read after the earlier pool (`Apart`,
`Later`); a response names every artist once and is worth its pool while that
is open (`Holds`, `Priced`); and every allocation is some job's response, of
which the claimed and the open shares make the total (`Backed`). Two jobs cannot
answer for one pool, so the leaves the root was made of are the ones the shares
are claimed with.
The algorithms are proved for all inputs. `AllocationAddsUp`: tracks get equal
shares, the remainder goes one unit each to the first, and grouping by artist
loses none, so the enclave's own check never fires; the groups are the artists of
the corpus, one share each (`OneSharePerArtist`: an artist's share is the one at
his first track). `ProofsVerify`: a layer of n
nodes is followed by one of (n + 1) \div 2, so the tree ends (`StackShrinks`);
hashing a node with its sibling gives the node above it, or the node itself is
promoted (`ParentOf`); and folding the siblings climbs from
any leaf to the root, also where leaves are equal.

| Theorem | Says |
|---|---|
| `TypeIsCorrect` | every reachable state is well typed, no balance is negative |
| `PoolContractIsBacked` | the pool contract holds exactly the open pools |
| `ClaimContractIsFunded` | the claim contract can pay every open share |
| `JobsWorkOnTheirPools` | no job works on a pool of another job |
| `AllocationAddsUp` | the leaves of an allocation add up to the amount; no two are of one artist, and their artists are those of the corpus |
| `ProofsVerify` | `getProof` makes a proof that `MerkleProof.verify` accepts, for every leaf |
| `AllocationsAreExact` | claimed and open shares make the pool, every open share has a valid proof |

**CollateralEscrows.** `LicensesStand`: every track the licensing gate has let
through stands on an upheld claim of the artist who will be paid. The invariant
adds that only a track's artist has a claim on it (`ClaimsAreArtists`) and that
the gate's list of artists is the registry's (`GateKnowsArtists`); `GateStands`
and `ClaimMoves` say which steps cannot disturb that, and every action is shown
to be one of them. `TokensAreAccountedFor` adds `MoneyInv`: a target's reward is
what it was funded with or nothing (`PoolsZeroed`), and a claim's challenger is
known exactly when it is challenged (`ClaimsKept`), so each step changes the
account and one summand of what explains it by the same amount.

| Theorem | Says |
|---|---|
| `LicensesStand` | what the gate let through stands on an upheld claim of its artist |
| `TokensAreAccountedFor` | both contracts hold the open rewards and bonds, every wallet what it won or lost |

**Deployments.** The base of everything is `Inv`, with which files tell the
truth (`FilesAreTrue`): it adds to the types that what the running script has
collected is true of the chain too (`RunFits`), that a script about to deploy
has collected nothing that would name the new contract's parts wrongly, and that
constructor arguments are of the kinds the constructors take. A step either
deploys nothing, and then every set of addresses stays true (`SameShape`), or
deploys one contract on addresses its script has read from a true file or made
itself. On top of it:
`IdentityInv` counts tokens against wallets that have one, deaths and `--force`;
`PartsInv` says that a script past its first reads has all the addresses it
needs and that constructor arguments lie below the contract (so a part is never
its own whole), and `BondsInv` that stakers of each bond are members of its
registry; that no script hands the slasher role to a contract that forwards
elsewhere follows step by step, since a guard is built, and made slasher, by one
run on one bond, and `SetAuthorizedSlasher` is the one step it says nothing of;
`WiredInv` follows the two scripts that generate a wallet label by label: what
is registered, wired and saved by then, and that the contract they wire is not
yet the one in the file, so that a death leaves the file true;
`KeysInv` counts funded wallets whose key is nowhere against deaths and
overwritten keys.

| Theorem | Says |
|---|---|
| `TypeCorrect` | contracts, files, keys and identities stay of their types |
| `FilesAreTrue` | no file pairs a contract with one it was not built on |
| `IdentitiesAccounted` | a second identity only by `--force` or a death, adapters map owners |
| `BondsKeepTheirParts` | stakers are known to the registry; a slasher a script sets is an account or forwards to that bond, unless it was set by hand |
| `WiredWalletsAct` | the wallets the files name are authorised, registered and held |
| `KeyLossIsBounded` | at most one funded key lost per death or overwritten key |

**ChainStats.** `Totals`: the totals of a cached answer are exactly the events
up to the block it names. The invariant `Inv` says that the cached logs are
exact up to the block they end at (`ExactLogs`), that at most one request scans
and that its half-read chunk extends those logs (`OneScan`, `GoodScan`), and
that the cached answer is exact (`ExactCache`); `LogsAreExact` proves it.
`Freshness` adds `FreshInv`: every block that a scan, or the cache it fills,
does not cover was mined no earlier than the scan started, and the cache is
dated by that start.

**PriceExchange.** `VerdictsEarned`: a breach of Tier 1 has a cause in the
response or in the registry the process saw, and nothing is slashed or indicted
for a price that passed. The invariant is one of each consumer by itself: the
response shows what its fault does to it (`Honest`), the job fits the label the
process is at (`Fits`), and an attestation once read as missing was missing when
the process started, since registration is permanent. `OneConsumer` and `OneJob`
reduce each action to the consumer it moves. `FeedIsCounted`: posting a verdict
and ending a trigger cycle are the only steps that record, and `PushStep` shows
that counting and pushing keep the ring at the last of what was counted:
`ShownAppend` and `ShownTail` say how often an entry of a kind is shown
afterwards. Nothing is assumed of a record that is posted but that it is one of
`Entries`, which a consumer's is by `Fits` and a stranger's by the action.

**Premium analyses.** `PremiumInv`: the map is the end of what was inserted
(`MapIsTheEnd`), which gives `RecentServed` for a map of any size; what it holds
for a job is what the job's script asked for unless somebody asked again
(`MapIsAsAsked`); and each run of the script is where its hash, verdict and
escrow status allow (`RunsAreJust`), which gives `SalesJust`.

**Acquisition.** `NoLeak` and `AcquisitionTypeCorrect` come from one invariant
about the form and the jobs. `Rationed` is the argument of two windows: the
requests admitted in the current window are as many as the counter says
(`RationInv`), any stretch of a window's length meets at most two windows, and
the first request of the later one is a window's length after the first of the
earlier, so the stretch misses one of them.

| Theorem | Says |
|---|---|
| `Totals` | `TotalsAreExact` for any chain, chunk size, retries, requests and failures |
| `Freshness` | `CacheIsFresh` for the same, and any time to live |
| `VerdictsEarned` | `VerdictsAreEarned` for any consumers, ages, delays, faults and restarts |
| `FeedIsCounted` | `FeedMatchesCounters` for any ring size, consumers, strangers' posts, overlapping triggers and restarts |
| `SalesJust` | `SalesAreJust`: the escrow pays for what was promised, a hard breach has a cause |
| `RecentServed` | `RecentAnalysesAreServed` for a map of any size |
| `Rationed` | `RequestsAreRationed`: fewer than twice the ration in any stretch of a window's length |
| `NoLeak` | `NoIntervalIsLeaked` for any number of clicks and answers |
| `AcquisitionTypeCorrect` | rations, jobs and what the form shows stay of their types |

## 6. What is only model-checked

- Liveness (`DisputesClose`, `PendingIsResolved`, `PollsAreAnswered`,
  `AcceptedJobsEnd`): TLAPS does not reason about fairness and ENABLED.
- Two consumer processes: the theorems of `ConsumerCycle` are about one, and so
  are its runs, because the code does not hold with two (§8).
- That each property can fail at all, and that the interesting states are
  reached: the mutants and the runs say it, a proof does not.

## 7. What is not modelled

- The escrow contract of ERC-8183, which is not in the repository: expiry and
  the refund it allows. The allowance race of two script runs on one wallet.
- TDX quotes, signatures, hashes: cryptography without state. Where a check of
  one guards a state change (registered enclave, registered signer), the guard
  is there.
- The language model and prices: any verdict may follow any response.
- Audit and failure logs: appended, never read back. Totals of calls and
  volume: data that no decision reads.
- A collateral token that returns false instead of reverting: not deployed.
- The cards of the frontend, demo scripts, fixtures and mocks: views and clients
  of operations that the modules already let the same role perform at any time.
- The licensing gate inside `TrainingCompensation`: it is checked beside the
  claims it reads (`RightsClaimBond`), and is off by default in the rail.
- Two operators at once, and edits of the key and deployment files by hand.

## 8. Disagreements met

With a run whose counterexample shows them:

- `bond_stale`: on an expired epoch `_executeSlash` stores only the breached
  class's counter; the other class carries its old count into the new window
  and may escalate on it (`ArcIDBond.sol:466` against `:119`).
- `cycle_record`: a clean verdict hashes to the same value every time and the
  contract takes each hash once, so only the first clean settlement of a
  deployment is recorded (`settlement.js:192` against `:12`).
- `bond_cliff`: `ArcIDBond.sol:42-45` and `:49-52` let the breach after the
  threshold escalate (5 cost about 5%, the 6th the rest); the code escalates on
  the one that reaches it (`:481`), which is what `EnoughBreachesEscalate` says
  of it.
- `deployment_rerun`: `setup_acquisition_catalog.js:2`, `:75`, `:90` promise keys
  reused from `acquisition/.env`, but look them up in the root `.env` and write
  `acquisition/.env`: a second run writes new keys over funded ones, and the
  catalog then names an artist who does not own the tracks.
  `KeysAreLostOnlyByCrashOrRerun` counts that loss among its causes.
- `premium_open`: `oracle/src/index.js:265-267` promises the exact payload whose
  hash was submitted; POST is open, a second one for the job id replaces it, and
  the evaluator of `demo-erc8183-job.js:199-243` then rejects and slashes an
  honest oracle. `SalesAreJust` says that this, or a fault asked for, is the only
  way.

Met while reading and modelling, without a run:

- `nextPoolId()` is read before `createPool` is mined and another company may
  take the id (`demo-training-compensation.js:135`, `settle.js:49`).
- The bond is read before the slash, the amount comes from its receipt; another
  slash in between makes the off-chain percentage differ from the adapter's,
  which it is said to equal (`slasher.js:139`).
- A scan in flight when the trigger cycle busts the cache fills it with
  statistics from before the slash (`oracle/src/chain.js:448`).
- `deterministicVerifier.js:29-30`: attestation_current means registered "right
  now"; the code (`:61-70`) reads the registry once per process and keeps a
  negative answer too. `VerdictsAreEarned` speaks of the process's start.
- `deploy_exploit_bounty.js` writes the verifier's key only after it has wired
  the wallet; a death between loses the key of an authorised, funded wallet
  (`deploy_training_compensation.js` writes first).
- `deploy_usyc.js`: after minting through the Teller, the amount is formatted
  from the transaction's response, which throws and is caught: no bond is posted
  there even when the deployer is on the allowlist.
- `deploy_bond_v2.js` ends with "re-bond with bond:post", which reads
  `standalone.json` and so posts on the old bond.
- `deploy.js` makes a mock registry on a live network when
  `ARCID_REGISTRY_ADDRESS` is not set.
- `rights_claim_bond.json` and the catalog go stale when the rail is deployed
  again; nothing tells the services that read both.
- `AcquisitionForm.jsx:48`: an answer that arrives after a terminal one shows
  the job as running with polling stopped; a terminal answer of an older job
  stops the interval of the newer; while the POST is in flight the button works
  and a second click buys twice; after a restart the 404 has no status, and the
  form goes on running.
- `ingestor/src/config.js:10` listens on 3002, the default of the bounty server
  (`README.md:169`); `acquisition/server.js` looks for the ingestor on 3006.
- `GET /api/verdict/:hash` returns the latest of the records that share a hash,
  and clean verdicts share one.
- `oracle/src/index.js:44` says the fault mode "overrides ?fault="; the query
  comes first (`:482`).
- `oracle/src/index.js:490` and `:398` both add to the volume: each paid call
  of a consumer that posts its verdict is counted twice.
- In production an active fault mode answers 403 after the Gateway middleware
  has settled the payment (`oracle/src/index.js:481-487`).
- `README.md:288` calls the 24h window rolling; it is fixed, anchored at the
  first breach (`ArcIDBond.sol:575`).
- `ArcIDBond.sol:80` says a breach that would escalate is never disputable; a
  dispute filed before may escalate when it is executed (`:805`).
- `ArcIDBond.sol:70` and `:720` let the owner resolve before the deadline; the
  owner may also dismiss after it, in a race with the finalizer (`:764`).
- `consumer/src/index.js:252` promises feedback only for an event on chain; a
  settlement whose `recordSettlement` was refused is reported too (`:270`).
- `erc8004.js:84` calls "orphaned" terminal; a later cycle with the same hash
  reopens it (`:154`).
- A second consumer process on one `LOG_DIR` writes its older copy of the
  ledger back and clears a breaker tripped meanwhile (`settlement.js:335` against
  `:41-43`). `OnlyResumeClearsBreaker` is about one process.
- `set-authorized-slasher.js:61` sets any address as slasher of the bond
  `standalone.json` names by now, and nothing asks whether a guard was built on
  that bond; `deploy_session_guard.js:62-64` and `README.md:1253-1254` tell the
  operator of an inert guard to set it so. With the stack redeployed in between,
  the new bond's slasher only calls the old one. `BondsFitTheirParts` says that no
  other step does this.
- `oracle/src/chain.js:433` recharges the oracle "to enable next cycle"; the
  third hard breach of an epoch bars it from posting again.
- `ExploitBounty.submitVerdict` checks `claimed` and not `withdrawn`
  (`ExploitBounty.sol:174`): a target may end up both, the verdict then paying
  nothing although `:53` reads `claimed` as paid out. `TrainingPool.sol:156`
  and `test/ExploitBounty.test.js:287` speak of a mutual exclusion.
- `oracle/src/index.js:396` counts every breach verdict as a slash, and so does
  `consumer/src/index.js:353`: gated, simulated and merely indicted ones too.
- `consumer/src/index.js:256`: a process that dies between a confirmed slash and
  its pending marker leaves no trace that feedback is missing.
- `consumer/src/oracle.js:84`: with the Gateway every fetch of a price is itself
  a payment, which no cap of the breaker sees.
- `ExploitBounty.sol:16` says the harness deploys the target's bytecode; it
  deploys the repository's own vault fixture (`bounty/harness.js:188`).

## 9. Plan

Done: every component of the list above with its runs, and a theorem for every
safety property they check. What would come next:

1. `SlashPipeline` as an implementation of the bond: its steps are steps of
   `ArcIDBond` or a recharge between wallets, so that `Solvency` and the type
   invariant carry over to the composed system.
2. Each bounty leaves its contract at most once; a pool's shares are each paid
   at most once, as theorems of their own.
3. The licensing gate inside `TrainingCompensation`, in place of the assumption
   that it is off, once the rail's instance is small enough.
4. Two consumer processes with a stale ledger in one instance.

Runs are few and large: one per distinct question. Handlers that share nothing
share an instance.
