-------------------------- MODULE TrainingCompensation --------------------------
(***************************************************************************)
(* The training compensation rail: ArtistRegistry, TrainingPool and         *)
(* CompensationClaim on chain, the ingestion enclave, and the settlement    *)
(* jobs of the acquisition server, which share one company wallet.  A job   *)
(* is a chain of awaited calls, and other jobs, companies and artists act   *)
(* between any two of them.  A call that reverts, times out or loses its    *)
(* answer ends the job.                                                     *)
(*                                                                         *)
(* An operator that no other definition uses is a mutant of the definition  *)
(* right after it.                                                          *)
(***************************************************************************)
EXTENDS Integers, Sequences, FiniteSets, MerkleTree

CONSTANTS
    Jobs,               \* settlement jobs of the acquisition server
    Company,            \* the server's wallet, shared by its jobs
    Outsiders,          \* other companies that create pools
    Artists,
    Fingerprints,       \* fingerprintHash values
    Registrations,      \* inputs of registerTrack: <<artist, fingerprint>>
    Corpora,            \* corpora a company may commit to: sequences of those
    Amounts,            \* amounts a pool is funded with
    InitialFunds,       \* token balance of every company
    Owner,              \* deployer of the two contracts
    Ingestor,           \* wallet of the enclave, registered in ArcIDRegistryV2
    PoolContract, ClaimContract,
    Nobody,             \* address(0)
    MaxPools            \* bound: pools ever created

Companies == {Company} \cup Outsiders
Accounts  == Companies \cup Artists \cup {Owner, PoolContract, ClaimContract}
PoolIds   == 1..MaxPools

ASSUME RailAssumption ==
    /\ Company \notin Outsiders
    /\ Nobody \notin Artists \cup Companies
    /\ PoolContract \notin Companies \cup Artists \cup {Owner, ClaimContract}
    /\ ClaimContract \notin Companies \cup Artists \cup {Owner}
    /\ \A corpus \in Corpora : corpus \in Seq(Fingerprints) /\ corpus # <<>>
    /\ Registrations \subseteq Artists \X Fingerprints
    /\ Amounts \subseteq Nat \ {0}
    /\ InitialFunds \in Nat /\ MaxPools \in Nat

VARIABLES
    tracks,                 \* ArtistRegistry: the artist of a fingerprint
    balance,                \* token balances
    allowance,              \* what the server's wallet lets the pool contract take
    nonce,                  \* next transaction of the server's wallet
    pools, nextPoolId, authorizedDistributor,           \* TrainingPool
    allocations, claimed, authorizedIngestor,           \* CompensationClaim
    pc, job                 \* per job: where it is, what it has read

token    == <<balance, allowance>>
poolVars == <<pools, nextPoolId>>
claimVars == <<allocations, claimed>>
roles    == <<authorizedDistributor, authorizedIngestor>>
jobVars  == <<pc, job>>
vars == <<tracks, token, nonce, poolVars, claimVars, roles, jobVars>>

NoPool == [company |-> Nobody]
NoAllocation == [submitted |-> FALSE]
NoJob == [corpus |-> <<>>, amount |-> 0, nonce |-> 0, poolId |-> 0, madeId |-> 0,
          pool |-> NoPool, leaves |-> <<>>, paid |-> 0]

Exists(p) == pools[p].company # Nobody
Transfer(from, to, amount) == [balance EXCEPT ![from] = @ - amount, ![to] = @ + amount]

-----------------------------------------------------------------------------
\* The ingestion enclave.

CorpusRoot(corpus)    == Root([i \in DOMAIN corpus |-> HashLeaf(<<corpus[i]>>)])
AllocationLeaf(share) == HashLeaf(share)
Leaves(shares)        == [i \in DOMAIN shares |-> AllocationLeaf(shares[i])]

\* The equal split: the first tracks take what the division leaves over.
TrackShare(amount, n, i) == amount \div n + (IF i <= amount % n THEN 1 ELSE 0)

TracksOf(artist, corpus) == {i \in DOMAIN corpus : tracks[corpus[i]] = artist}
FirstSeen(corpus, i)     == \A k \in 1..(i - 1) : tracks[corpus[k]] # tracks[corpus[i]]

\* A finite set of numbers as an increasing sequence.
InOrder(S) ==
    CHOOSE order \in [1..Cardinality(S) -> S] :
        \A i, k \in 1..Cardinality(S) : i < k => order[i] < order[k]

\* One <<artist, amount>> leaf per artist, in the order of their first tracks.
AllocatePerTrack(corpus, amount) ==
    [i \in DOMAIN corpus |-> <<tracks[corpus[i]], TrackShare(amount, Len(corpus), i)>>]
Allocate(corpus, amount) ==
    LET perTrack == [i \in DOMAIN corpus |-> TrackShare(amount, Len(corpus), i)]
        Total(artist) == SumFunctionOnSet(perTrack, TracksOf(artist, corpus))
        order == InOrder({i \in DOMAIN corpus : FirstSeen(corpus, i)})
    IN  [k \in DOMAIN order |-> LET artist == tracks[corpus[order[k]]]
                                IN  <<artist, Total(artist)>>]

-----------------------------------------------------------------------------
\* The contracts.  Each operator says what one transaction does; the
\* caller's variables are left to the action it is part of.

CreatePool(company, root, amount, granted) ==
    /\ nextPoolId \in PoolIds
    /\ amount <= granted /\ amount <= balance[company]
    /\ pools' = [pools EXCEPT ![nextPoolId] =
                   [company |-> company, corpusRoot |-> root, amount |-> amount,
                    distributed |-> FALSE, withdrawn |-> FALSE]]
    /\ nextPoolId' = nextPoolId + 1
    /\ balance' = Transfer(company, PoolContract, amount)

DistributeToClaimContract(sender, p, claimContract) ==
    /\ sender = authorizedDistributor
    /\ Exists(p) /\ ~pools[p].distributed /\ ~pools[p].withdrawn
    /\ pools' = [pools EXCEPT ![p].distributed = TRUE, ![p].amount = 0]
    /\ balance' = Transfer(PoolContract, claimContract, pools[p].amount)
    /\ UNCHANGED <<nextPoolId, allowance>>

WithdrawWithoutZero(company, p) ==
    /\ Exists(p) /\ pools[p].company = company
    /\ ~pools[p].distributed /\ ~pools[p].withdrawn
    /\ pools' = [pools EXCEPT ![p].withdrawn = TRUE]
    /\ balance' = Transfer(PoolContract, company, pools[p].amount)
    /\ UNCHANGED <<nextPoolId, allowance>>
WithdrawPool(company, p) ==
    /\ Exists(p) /\ pools[p].company = company
    /\ ~pools[p].distributed /\ ~pools[p].withdrawn
    /\ pools' = [pools EXCEPT ![p].withdrawn = TRUE, ![p].amount = 0]
    /\ balance' = Transfer(PoolContract, company, pools[p].amount)
    /\ UNCHANGED <<nextPoolId, allowance>>

SubmitWithoutPull(sender, p, root) ==
    /\ sender = authorizedIngestor /\ sender = Ingestor
    /\ Exists(p) /\ ~allocations[p].submitted
    /\ allocations' = [allocations EXCEPT ![p] =
                         [submitted |-> TRUE, root |-> root,
                          total |-> pools[p].amount, claimedAmount |-> 0]]
    /\ UNCHANGED <<token, poolVars, claimed>>
SubmitAllocation(sender, p, root) ==
    /\ sender = authorizedIngestor
    /\ sender = Ingestor                    \* agentIdBySigner(sender) # 0
    /\ ~allocations[p].submitted
    /\ allocations' = [allocations EXCEPT ![p] =
                         [submitted |-> TRUE, root |-> root,
                          total |-> pools[p].amount, claimedAmount |-> 0]]
    /\ DistributeToClaimContract(ClaimContract, p, ClaimContract)
    /\ UNCHANGED claimed

Claim(artist, p, amount, proof) ==
    /\ allocations[p].submitted
    /\ artist \notin claimed[p]
    /\ Verify(proof, allocations[p].root, AllocationLeaf(<<artist, amount>>))
    /\ claimed' = [claimed EXCEPT ![p] = @ \cup {artist}]
    /\ allocations' = [allocations EXCEPT ![p].claimedAmount = @ + amount]
    /\ balance[ClaimContract] >= amount
    /\ balance' = Transfer(ClaimContract, artist, amount)
    /\ UNCHANGED <<poolVars, allowance>>

-----------------------------------------------------------------------------
\* A settlement job: settleSelection, with the enclave's handler in it.

At(j, label) == pc[j] = label
Goto(j, label, changed) ==
    /\ pc' = [pc EXCEPT ![j] = label]
    /\ job' = [job EXCEPT ![j] = changed]

\* The selection and its price; the wallet's nonce is read once, here.
Begin(j) ==
    /\ At(j, "idle")
    /\ \E corpus \in Corpora, amount \in Amounts :
          Goto(j, "approve", [NoJob EXCEPT !.corpus = corpus, !.amount = amount, !.nonce = nonce])
    /\ UNCHANGED <<tracks, token, nonce, poolVars, claimVars, roles>>

Approve(j) ==
    /\ At(j, "approve") /\ job[j].nonce = nonce
    /\ allowance' = job[j].amount
    /\ nonce' = nonce + 1
    /\ Goto(j, "readId", job[j])
    /\ UNCHANGED <<tracks, balance, poolVars, claimVars, roles>>

ReadPoolId(j) ==
    /\ At(j, "readId")
    /\ Goto(j, "create", [job[j] EXCEPT !.poolId = nextPoolId])
    /\ UNCHANGED <<tracks, token, nonce, poolVars, claimVars, roles>>

\* The id createPool returns is not read; madeId records it.
CreateApproving(j) ==
    /\ At(j, "create")
    /\ CreatePool(Company, CorpusRoot(job[j].corpus), job[j].amount, job[j].amount)
    /\ allowance' = 0
    /\ nonce' = nonce + 2
    /\ Goto(j, "ingest", [job[j] EXCEPT !.madeId = nextPoolId])
    /\ UNCHANGED <<tracks, claimVars, roles>>
Create(j) ==
    /\ At(j, "create") /\ job[j].nonce + 1 = nonce
    /\ CreatePool(Company, CorpusRoot(job[j].corpus), job[j].amount, allowance)
    /\ allowance' = allowance - job[j].amount
    /\ nonce' = nonce + 1
    /\ Goto(j, "ingest", [job[j] EXCEPT !.madeId = nextPoolId])
    /\ UNCHANGED <<tracks, claimVars, roles>>

\* POST /api/ingest: the pool is read first, the registry after it.  A track
\* is registered once and for all, so reading the registry track by track
\* succeeds just when all of them are registered at the last read.  The
\* RightsClaimBond gate is off, its default.
ReadPool(j) ==
    /\ At(j, "ingest")
    /\ job[j].poolId \in PoolIds /\ Exists(job[j].poolId)
    /\ Goto(j, "attest", [job[j] EXCEPT !.pool = pools[job[j].poolId]])
    /\ UNCHANGED <<tracks, token, nonce, poolVars, claimVars, roles>>

Attest(j) ==
    LET corpus == job[j].corpus
        amount == job[j].pool.amount
    IN  /\ At(j, "attest")
        /\ amount > 0
        /\ CorpusRoot(corpus) = job[j].pool.corpusRoot
        /\ \A i \in DOMAIN corpus : tracks[corpus[i]] # Nobody
        /\ Goto(j, "submit", [job[j] EXCEPT !.leaves = Allocate(corpus, amount)])
        /\ UNCHANGED <<tracks, token, nonce, poolVars, claimVars, roles>>

Submit(j) ==
    /\ At(j, "submit")
    /\ SubmitAllocation(Ingestor, job[j].poolId, Root(Leaves(job[j].leaves)))
    /\ Goto(j, "claim", job[j])
    /\ UNCHANGED <<tracks, nonce, roles>>

\* Whoever holds the enclave's response can claim its k-th share.
ClaimShare(j, k) ==
    LET shares == job[j].leaves IN
    Claim(shares[k][1], job[j].poolId, shares[k][2], GetProof(Leaves(shares), k))

\* The job claims for one artist after the other.
ClaimNext(j) ==
    /\ At(j, "claim")
    /\ IF job[j].paid = Len(job[j].leaves)
       THEN Goto(j, "done", job[j]) /\ UNCHANGED <<token, poolVars, claimVars>>
       ELSE /\ ClaimShare(j, job[j].paid + 1)
            /\ Goto(j, "claim", [job[j] EXCEPT !.paid = @ + 1])
    /\ UNCHANGED <<tracks, nonce, roles>>

\* What the job has read is gone; a response of the enclave is not.
Fail(j) ==
    /\ pc[j] \notin {"idle", "done", "error"}
    /\ Goto(j, "error", IF job[j].leaves = <<>> THEN NoJob
                        ELSE [job[j] EXCEPT !.nonce = 0, !.paid = 0])
    /\ UNCHANGED <<tracks, token, nonce, poolVars, claimVars, roles>>

-----------------------------------------------------------------------------
\* Everyone else.

RegisterTrack(artist, f) ==
    /\ tracks[f] = Nobody
    /\ tracks' = [tracks EXCEPT ![f] = artist]
    /\ UNCHANGED <<token, nonce, poolVars, claimVars, roles, jobVars>>

ArtistClaims(j, k) ==
    /\ allocations[job[j].poolId].submitted
    /\ ClaimShare(j, k)
    /\ UNCHANGED <<tracks, nonce, roles, jobVars>>

CompanyWithdraws(p) ==
    /\ \/ WithdrawPool(Company, p) /\ nonce' = nonce + 1
       \/ \E c \in Outsiders : WithdrawPool(c, p) /\ UNCHANGED nonce
    /\ UNCHANGED <<tracks, claimVars, roles, jobVars>>

OutsiderCreates(c, corpus, amount) ==
    /\ CreatePool(c, CorpusRoot(corpus), amount, amount)
    /\ UNCHANGED <<tracks, allowance, nonce, claimVars, roles, jobVars>>

OwnerDistributes(p, to) ==
    /\ DistributeToClaimContract(Owner, p, to)
    /\ UNCHANGED <<tracks, nonce, claimVars, roles, jobVars>>

SetAuthorizedDistributor(a) ==
    /\ authorizedDistributor' = a
    /\ UNCHANGED <<tracks, token, nonce, poolVars, claimVars, authorizedIngestor, jobVars>>

SetAuthorizedIngestor(a) ==
    /\ authorizedIngestor' = a
    /\ UNCHANGED <<tracks, token, nonce, poolVars, claimVars, authorizedDistributor, jobVars>>

-----------------------------------------------------------------------------
Init ==
    /\ tracks = [f \in Fingerprints |-> Nobody]
    /\ balance = [x \in Accounts |-> IF x \in Companies THEN InitialFunds ELSE 0]
    /\ allowance = 0
    /\ nonce = 0
    /\ pools = [p \in PoolIds |-> NoPool]
    /\ nextPoolId = 1
    /\ authorizedDistributor = Owner
    /\ allocations = [p \in PoolIds |-> NoAllocation]
    /\ claimed = [p \in PoolIds |-> {}]
    /\ authorizedIngestor = Owner
    /\ pc = [j \in Jobs |-> "idle"]
    /\ job = [j \in Jobs |-> NoJob]

JobStep(j) ==
    \/ Begin(j)
    \/ Approve(j)
    \/ ReadPoolId(j)
    \/ Create(j)
    \/ ReadPool(j)
    \/ Attest(j)
    \/ Submit(j)
    \/ ClaimNext(j)
    \/ Fail(j)

Next ==
    \/ \E j \in Jobs : JobStep(j) \/ \E k \in DOMAIN job[j].leaves : ArtistClaims(j, k)
    \/ \E r \in Registrations : RegisterTrack(r[1], r[2])
    \/ \E p \in PoolIds : CompanyWithdraws(p)
    \/ \E p \in PoolIds, to \in {ClaimContract, Owner} : OwnerDistributes(p, to)
    \/ \E c \in Outsiders, corpus \in Corpora, amount \in Amounts : OutsiderCreates(c, corpus, amount)
    \/ \E a \in {Owner, ClaimContract} : SetAuthorizedDistributor(a)
    \/ \E a \in {Owner, Ingestor} : SetAuthorizedIngestor(a)

Spec == Init /\ [][Next]_vars

-----------------------------------------------------------------------------
\* Properties.

Open(p) == Exists(p) /\ ~pools[p].distributed /\ ~pools[p].withdrawn

TypeOK ==
    /\ tracks \in [Fingerprints -> Artists \cup {Nobody}]
    /\ DOMAIN balance = Accounts /\ \A x \in Accounts : balance[x] \in Nat
    /\ allowance \in Amounts \cup {0}
    /\ nonce \in Nat /\ nextPoolId \in 1..(MaxPools + 1)
    /\ \A p \in PoolIds : Exists(p) <=> p < nextPoolId
    /\ authorizedDistributor \in {Owner, ClaimContract}
    /\ authorizedIngestor \in {Owner, Ingestor}
    /\ claimed \in [PoolIds -> SUBSET Artists]
    /\ pc \in [Jobs -> {"idle", "approve", "readId", "create", "ingest", "attest",
                         "submit", "claim", "done", "error"}]

\* The pool contract holds exactly the open pools: what was distributed or
\* reclaimed left it once, and a pool is never both (the mutual exclusion of
\* distributeToClaimContract and withdrawPool).
PoolsAreBacked ==
    /\ balance[PoolContract] =
           SumFunctionOnSet([p \in PoolIds |-> IF Exists(p) THEN pools[p].amount ELSE 0], PoolIds)
    /\ \A p \in PoolIds : Exists(p) =>
           /\ pools[p].amount > 0 <=> Open(p)
           /\ ~(pools[p].distributed /\ pools[p].withdrawn)

\* The response whose root was submitted for a pool.
Submitted(p) ==
    LET j == CHOOSE j \in Jobs : /\ job[j].poolId = p /\ job[j].leaves # <<>>
                                 /\ Root(Leaves(job[j].leaves)) = allocations[p].root
    IN  job[j].leaves

Unclaimed(p) == {k \in DOMAIN Submitted(p) : Submitted(p)[k][1] \notin claimed[p]}

\* An allocation pays out its pool to the last unit: what was claimed and
\* what can still be claimed add up to the amount pulled from the pool, and
\* every open share has a proof the contract accepts.
AllocationIsExact ==
    \A p \in PoolIds : allocations[p].submitted =>
        /\ allocations[p].claimedAmount
             + SumFunctionOnSet([k \in DOMAIN Submitted(p) |-> Submitted(p)[k][2]], Unclaimed(p))
           = allocations[p].total
        /\ \A k \in Unclaimed(p) :
              LET leaves == Leaves(Submitted(p))
              IN  Verify(GetProof(leaves, k), allocations[p].root, leaves[k])

\* What the claim contract still owes for a pool.
Unpaid(p) ==
    IF allocations[p].submitted THEN allocations[p].total - allocations[p].claimedAmount ELSE 0

\* The claim contract can always pay every open share of every allocation,
\* whatever the owner distributed to it or elsewhere past the ingestor.
ClaimsAreFunded == balance[ClaimContract] >= SumFunctionOnSet([p \in PoolIds |-> Unpaid(p)], PoolIds)

\* Jobs of the server run side by side on one wallet and learn their pool's
\* id from a counter: none of them ever works on the pool of another job.
JobsKeepToTheirPools ==
    \A j \in Jobs :
        (job[j].madeId # 0 /\ pools[job[j].poolId].company = Company)
            => job[j].poolId = job[j].madeId
=============================================================================
