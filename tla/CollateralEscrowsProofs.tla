------------------------ MODULE CollateralEscrowsProofs ------------------------
(***************************************************************************)
(* Proofs that what the licensing gate has let through stays licensed, and  *)
(* that every token is where the records say it is, for any people, tracks, *)
(* corpora, bounties, bonds, dispute windows and number of submissions.     *)
(***************************************************************************)
EXTENDS CollateralEscrows, SumTheorems

People == Wallets \cup {Nobody}

Claim == [state : {"None", "Pending", "Challenged", "Upheld", "Overturned"},
          claimant : People, challenger : People, bond : Nat, windowDeadline : Nat]

TypeOK ==
    /\ now \in Nat
    /\ artistOf \in [Tracks -> People]
    /\ claims \in [Tracks -> Claim]
    /\ disputeWindow \in Windows

\* Only the artist of a track has a claim on it.
ClaimsAreArtists ==
    \A f \in Tracks : claims[f].state # "None" =>
        artistOf[f] \in Wallets /\ claims[f].claimant = artistOf[f]

\* The enclave remembers the artists of its corpus, who never change.
GateKnowsArtists ==
    /\ gate.corpus \in Seq(Tracks)
    /\ gate.passed \in Nat /\ gate.passed <= Len(gate.corpus)
    /\ \A i \in 1..Len(gate.corpus) :
          artistOf[gate.corpus[i]] \in Wallets /\ gate.artists[i] = artistOf[gate.corpus[i]]

\* The gate is a record; GateKnowsArtists says what its artists are.
GateShape == gate \in [corpus : Seq(Tracks), artists : {gate.artists}, passed : Nat]

IInv ==
    /\ TypeOK
    /\ ClaimsAreArtists
    /\ GateShape
    /\ GateKnowsArtists
    /\ LicensedTracksAreBonded

-----------------------------------------------------------------------------
(* No wallet is the zero address. *)
LEMMA WalletsAreSomebody == \A w \in Wallets : w # Nobody
BY TokenAssumption DEF Accounts

(* The invariant holds of empty contracts. *)
LEMMA InitIInv == Init => IInv
<1> SUFFICES ASSUME Init PROVE IInv
  OBVIOUS
<1> USE DEF Init, TokenInit, ClaimsInit, NoClaim, NoGate
<1>1. TypeOK
  BY DEF TypeOK, Claim, People
<1>2. ClaimsAreArtists
  BY DEF ClaimsAreArtists
<1>3. GateShape /\ GateKnowsArtists /\ LicensedTracksAreBonded
  BY DEF GateShape, GateKnowsArtists, LicensedTracksAreBonded
<1> QED BY <1>1, <1>2, <1>3 DEF IInv

\* A step that leaves the gate alone, registers tracks only for the first
\* time, and changes no claim that is upheld, keeps what the gate relies on.
LEMMA GateStands ==
    ASSUME IInv, gate' = gate,
           \A f \in Tracks : artistOf[f] \in Wallets => artistOf'[f] = artistOf[f],
           \A f \in Tracks : claims[f].state = "Upheld" =>
                claims'[f].state = "Upheld" /\ claims'[f].claimant = claims[f].claimant
    PROVE  GateShape' /\ GateKnowsArtists' /\ LicensedTracksAreBonded'
<1> USE DEF IInv
<1>1. GateShape'
  BY DEF GateShape
<1>2. GateKnowsArtists'
  BY DEF GateKnowsArtists
<1>3. LicensedTracksAreBonded'
  <2> SUFFICES ASSUME NEW i \in 1..gate.passed
               PROVE  /\ claims'[gate.corpus[i]].state = "Upheld"
                      /\ claims'[gate.corpus[i]].claimant = gate.artists[i]
    BY DEF LicensedTracksAreBonded
  <2>1. gate.corpus[i] \in Tracks
    BY DEF GateKnowsArtists
  <2> QED BY <2>1 DEF LicensedTracksAreBonded
<1> QED BY <1>1, <1>2, <1>3

\* One claim f is replaced by another of the same claimant and state that is
\* not taken back.
LEMMA ClaimMoves ==
    ASSUME IInv, NEW f \in Tracks, NEW c \in Claim,
           claims' = [claims EXCEPT ![f] = c],
           UNCHANGED <<now, artistOf, disputeWindow, gate>>,
           claims[f].state # "Upheld",
           artistOf[f] \in Wallets, c.claimant = artistOf[f]
    PROVE  IInv'
<1>1. TypeOK'
  BY DEF IInv, TypeOK
<1>2. ClaimsAreArtists'
  BY DEF IInv, TypeOK, ClaimsAreArtists
<1>3. \A g \in Tracks : claims[g].state = "Upheld" =>
         claims'[g].state = "Upheld" /\ claims'[g].claimant = claims[g].claimant
  BY DEF IInv, TypeOK
<1> QED BY <1>1, <1>2, <1>3, GateStands DEF IInv

(* Every step of the rights claims keeps the invariant. *)
LEMMA ClaimsStep == IInv /\ ClaimsNext => IInv'
<1> SUFFICES ASSUME IInv, ClaimsNext PROVE IInv'
  OBVIOUS
<1> USE DEF IInv, tokenVars
<1>1. ASSUME NEW w \in Wallets, NEW f \in Tracks, RegisterTrack(w, f) PROVE IInv'
  <2>1. TypeOK'
    BY <1>1 DEF RegisterTrack, TypeOK, People
  <2>2. \A g \in Tracks : artistOf[g] \in Wallets => artistOf'[g] = artistOf[g]
    BY <1>1, WalletsAreSomebody DEF RegisterTrack, TypeOK
  <2>3. ClaimsAreArtists'
    BY <1>1, <2>2 DEF RegisterTrack, ClaimsAreArtists
  <2> QED BY <1>1, <2>1, <2>2, <2>3, GateStands DEF RegisterTrack
<1>2. ASSUME NEW w \in Wallets, NEW f \in Tracks, NEW amount \in BondAmounts,
             FileClaim(w, f, amount)
      PROVE  IInv'
  <2> DEFINE c == [state |-> "Pending", claimant |-> w, challenger |-> Nobody,
                   bond |-> amount, windowDeadline |-> now + disputeWindow]
  <2>1. c \in Claim
    BY ClaimsAssumption DEF Claim, People, TypeOK
  <2> QED BY <1>2, <2>1, ClaimMoves DEF FileClaim
<1>3. ASSUME NEW w \in Wallets, NEW f \in Tracks, ChallengeClaim(w, f) PROVE IInv'
  <2> DEFINE c == [claims[f] EXCEPT !.state = "Challenged", !.challenger = w]
  <2>1. c \in Claim /\ c.claimant = claims[f].claimant
    BY DEF TypeOK, Claim, People
  <2>2. claims' = [claims EXCEPT ![f] = c]
    BY <1>3 DEF ChallengeClaim, TypeOK
  <2>3. claims[f].state # "Upheld" /\ claims[f].state # "None"
    BY <1>3 DEF ChallengeClaim
  <2>4. UNCHANGED <<now, artistOf, disputeWindow, gate>>
    BY <1>3 DEF ChallengeClaim, tokenVars
  <2>5. artistOf[f] \in Wallets /\ c.claimant = artistOf[f]
    BY <2>1, <2>3 DEF ClaimsAreArtists
  <2> HIDE DEF c, IInv
  <2> QED BY <2>1, <2>2, <2>3, <2>4, <2>5, ClaimMoves
<1>4. ASSUME NEW f \in Tracks, FinalizeUnchallenged(f) PROVE IInv'
  <2> DEFINE c == [claims[f] EXCEPT !.state = "Upheld"]
  <2>1. c \in Claim /\ c.claimant = claims[f].claimant
    BY DEF TypeOK, Claim
  <2>2. claims' = [claims EXCEPT ![f] = c]
    BY <1>4 DEF FinalizeUnchallenged, TypeOK
  <2>3. claims[f].state # "Upheld" /\ claims[f].state # "None"
    BY <1>4 DEF FinalizeUnchallenged
  <2>4. UNCHANGED <<now, artistOf, disputeWindow, gate>>
    BY <1>4 DEF FinalizeUnchallenged, tokenVars
  <2>5. artistOf[f] \in Wallets /\ c.claimant = artistOf[f]
    BY <2>1, <2>3 DEF ClaimsAreArtists
  <2> HIDE DEF c, IInv
  <2> QED BY <2>1, <2>2, <2>3, <2>4, <2>5, ClaimMoves
<1>5. ASSUME NEW f \in Tracks, NEW wins \in BOOLEAN, ResolveChallenge(f, wins) PROVE IInv'
  <2> DEFINE c == [claims[f] EXCEPT !.state = IF wins THEN "Upheld" ELSE "Overturned"]
  <2>1. c \in Claim /\ c.claimant = claims[f].claimant
    BY DEF TypeOK, Claim
  <2>2. claims' = [claims EXCEPT ![f] = c]
    BY <1>5 DEF ResolveChallenge, TypeOK
  <2>3. claims[f].state # "Upheld" /\ claims[f].state # "None"
    BY <1>5 DEF ResolveChallenge
  <2>4. UNCHANGED <<now, artistOf, disputeWindow, gate>>
    BY <1>5 DEF ResolveChallenge, tokenVars
  <2>5. artistOf[f] \in Wallets /\ c.claimant = artistOf[f]
    BY <2>1, <2>3 DEF ClaimsAreArtists
  <2> HIDE DEF c, IInv
  <2> QED BY <2>1, <2>2, <2>3, <2>4, <2>5, ClaimMoves
<1>6. ASSUME NEW window \in Windows, SetDisputeWindow(window) PROVE IInv'
  <2>1. TypeOK' /\ ClaimsAreArtists'
    BY <1>6 DEF SetDisputeWindow, TypeOK, ClaimsAreArtists
  <2> QED BY <1>6, <2>1, GateStands DEF SetDisputeWindow
<1>7. ResolveArtists \/ CheckLicensable \/ GateEnds => TypeOK' /\ ClaimsAreArtists'
  BY DEF ResolveArtists, CheckLicensable, GateEnds, TypeOK, ClaimsAreArtists
<1>8. ASSUME gate' = NoGate PROVE GateShape' /\ GateKnowsArtists' /\ LicensedTracksAreBonded'
  BY <1>8 DEF NoGate, GateShape, GateKnowsArtists, LicensedTracksAreBonded
<1>9. CASE ResolveArtists
  <2>1. PICK corpus \in Corpora :
          /\ \A i \in DOMAIN corpus : artistOf[corpus[i]] # Nobody
          /\ gate' = [corpus |-> corpus,
                      artists |-> [i \in DOMAIN corpus |-> artistOf[corpus[i]]], passed |-> 0]
    BY <1>9 DEF ResolveArtists
  <2>2. corpus \in Seq(Tracks)
    BY ClaimsAssumption
  <2>3. \A i \in 1..Len(corpus) : artistOf[corpus[i]] \in Wallets
    BY <2>1, <2>2 DEF TypeOK, People
  <2>4. GateShape' /\ GateKnowsArtists' /\ LicensedTracksAreBonded'
    BY <1>9, <2>1, <2>2, <2>3
       DEF ResolveArtists, GateShape, GateKnowsArtists, LicensedTracksAreBonded
  <2> QED BY <1>7, <1>9, <2>4
<1>10. CASE CheckLicensable
  <2>1. CASE IsLicensable(gate.corpus[gate.passed + 1])
    <3> DEFINE n == gate.passed + 1
               f == gate.corpus[n]
    <3>1. gate' = [gate EXCEPT !.passed = n] /\ UNCHANGED <<claims, artistOf>>
      BY <1>10, <2>1 DEF CheckLicensable
    <3>2. n \in 1..Len(gate.corpus) /\ f \in Tracks
      BY <1>10 DEF CheckLicensable, GateKnowsArtists
    <3>3. gate'.corpus = gate.corpus /\ gate'.artists = gate.artists /\ gate'.passed = n
      BY <3>1 DEF GateShape
    <3>4. GateShape' /\ GateKnowsArtists'
      BY <3>1, <3>2, <3>3 DEF GateShape, GateKnowsArtists
    <3>5. claims[f].state = "Upheld" /\ claims[f].claimant = gate.artists[n]
      BY <2>1, <3>2 DEF IsLicensable, ClaimsAreArtists, GateKnowsArtists
    <3>6. LicensedTracksAreBonded'
      <4> SUFFICES ASSUME NEW i \in 1..n
                   PROVE  /\ claims[gate.corpus[i]].state = "Upheld"
                          /\ claims[gate.corpus[i]].claimant = gate.artists[i]
        BY <3>1, <3>3 DEF LicensedTracksAreBonded
      <4>1. i \in 1..gate.passed \/ i = n
        BY DEF GateKnowsArtists
      <4> QED BY <3>5, <4>1 DEF LicensedTracksAreBonded
    <3> QED BY <1>7, <1>10, <3>4, <3>6
  <2>2. CASE ~IsLicensable(gate.corpus[gate.passed + 1])
    BY <1>7, <1>8, <1>10, <2>2 DEF CheckLicensable
  <2> QED BY <2>1, <2>2
<1>11. CASE GateEnds
  BY <1>7, <1>8, <1>11 DEF GateEnds
<1> QED
  BY <1>1, <1>2, <1>3, <1>4, <1>5, <1>6, <1>9, <1>10, <1>11 DEF ClaimsNext

\* The bounty's actions and the clock touch none of it.
LEMMA OtherStep ==
    ASSUME IInv, now' \in Nat, UNCHANGED claimVars
    PROVE  IInv'
BY DEF IInv, claimVars, TypeOK, ClaimsAreArtists, GateShape, GateKnowsArtists,
       LicensedTracksAreBonded

(* The bounty contract reads no clock. *)
LEMMA BountyKeepsTime == BountyNext => now' = now
BY DEF BountyNext, RegisterTarget, WithdrawBounty, SetAuthorizedVerifier, RegisterVerifier,
       Submit, HarnessMain, RunExploit, SubmitOnChain, SubmitVerdict, SubmissionFails, tokenVars

(* Every step of the composition keeps the invariant. *)
LEMMA StepIInv == IInv /\ [Next]_vars => IInv'
<1> SUFFICES ASSUME IInv, [Next]_vars PROVE IInv'
  OBVIOUS
<1>1. now \in Nat
  BY DEF IInv, TypeOK
<1>2. CASE BountyNext /\ UNCHANGED claimVars
  BY <1>1, <1>2, BountyKeepsTime, OtherStep
<1>3. CASE ClaimsNext /\ UNCHANGED bountyVars
  BY <1>3, ClaimsStep
<1>4. CASE Tick /\ UNCHANGED <<bountyVars, claimVars>>
  BY <1>1, <1>4, OtherStep DEF Tick
<1>5. CASE UNCHANGED vars
  BY <1>1, <1>5, OtherStep DEF vars, tokenVars
<1> QED BY <1>2, <1>3, <1>4, <1>5 DEF Next

\* What the licensing gate has let through stays on an upheld claim of the
\* artist the enclave pays (ingest step 2b, RightsClaimBond).
THEOREM LicensesStand == Spec => []LicensedTracksAreBonded
<1>1. IInv => LicensedTracksAreBonded
  BY DEF IInv
<1> QED BY <1>1, InitIInv, StepIInv, PTL DEF Spec

-----------------------------------------------------------------------------
\* The money.

TargetRecords ==
    [owner : Wallets, invariantId : Invariants, bountyAmount : Nat, claimed : BOOLEAN,
     withdrawn : BOOLEAN, funded : Nat, researcher : People]
RunRecords ==
    [target : TargetIds, researcher : People \cup {"malformed"}, breach : BOOLEAN]

Registered(t) == targets[t].owner # Nobody

TargetsTyped ==
    /\ targets \in [TargetIds -> TargetRecords \cup {NoTarget}]
    /\ nextTargetId \in 1..(MaxTargets + 1)
    /\ \A t \in TargetIds : Registered(t) <=> t < nextTargetId
\* A pool is worth what it was funded with, or nothing.
PoolsZeroed == \A t \in TargetIds : Registered(t) => targets[t].bountyAmount = TargetHeld(t)
RunsTyped == run \in [Submissions -> RunRecords \cup {NoRun}]

\* Who has a stake in a claim.
ClaimKept(f) ==
    /\ claims[f].state = "None" => claims[f] = NoClaim
    /\ claims[f].state = "Pending" => claims[f].challenger = Nobody
    /\ claims[f].state = "Challenged" => claims[f].challenger \in Wallets
ClaimsKept == \A f \in Tracks : ClaimKept(f)

BalancesTyped == balance \in [Accounts -> Int]

MoneyInv ==
    /\ TargetsTyped /\ PoolsZeroed /\ RunsTyped
    /\ ClaimsKept /\ BalancesTyped /\ BalancesAreExplained

\* The accounts of a transfer are apart.
LEMMA Parties ==
    /\ Bounty \in Accounts /\ ClaimBond \in Accounts /\ Bounty # ClaimBond
    /\ Wallets \subseteq Accounts /\ Nobody \notin Wallets
    /\ \A w \in Wallets : w # Bounty /\ w # ClaimBond
BY TokenAssumption, BountyAssumption, ClaimsAssumption, EscrowsAssumption DEF Accounts

\* There are finitely many targets and tracks.
LEMMA FiniteIndices == IsFiniteSet(TargetIds) /\ IsFiniteSet(Tracks)
<1>1. 1 \in Int /\ MaxTargets \in Int BY BountyAssumption
<1>2. IsFiniteSet(1..MaxTargets) BY <1>1, FS_Interval
<1> QED BY <1>2, ClaimsAssumption DEF TargetIds

\* What a transfer between two accounts does to the balances.
LEMMA MoveMoves ==
    ASSUME BalancesTyped, NEW from \in Accounts, NEW to \in Accounts, from # to,
           NEW amount \in Int, Move(from, to, amount)
    PROVE  /\ BalancesTyped'
           /\ balance'[from] = balance[from] - amount
           /\ balance'[to] = balance[to] + amount
           /\ \A x \in Accounts : x # from /\ x # to => balance'[x] = balance[x]
<1>1. balance' = [x \in Accounts |-> IF x = to THEN balance[x] + amount
                                     ELSE IF x = from THEN balance[x] - amount
                                     ELSE balance[x]]
  BY DEF Move, BalancesTyped
<1>2. \A x \in Accounts : balance[x] \in Int BY DEF BalancesTyped
<1> QED BY <1>1, <1>2 DEF BalancesTyped, Accounts

\* What a target is: nothing yet, or a record.
LEMMA TargetKinds ==
    \A x \in TargetRecords \cup {NoTarget} :
        \/ x.owner = Nobody
        \/ /\ x \in TargetRecords /\ x.owner \in Wallets /\ x.owner # Nobody
           /\ x.bountyAmount \in Nat /\ x.funded \in Nat
           /\ x.claimed \in BOOLEAN /\ x.withdrawn \in BOOLEAN
<1>1. \A x \in TargetRecords : x.owner \in Wallets /\ x.bountyAmount \in Nat /\ x.funded \in Nat
  BY DEF TargetRecords
<1>2. \A x \in TargetRecords : x.claimed \in BOOLEAN /\ x.withdrawn \in BOOLEAN
  BY DEF TargetRecords
<1>3. NoTarget.owner = Nobody BY DEF NoTarget
<1> QED BY <1>1, <1>2, <1>3, Parties

\* The terms of the sums are numbers.
LEMMA TargetTerms ==
    TargetsTyped => \A t \in TargetIds : /\ TargetHeld(t) \in Int
                                         /\ \A w : TargetGain(w, t) \in Int
<1> SUFFICES ASSUME TargetsTyped, NEW t \in TargetIds
             PROVE  TargetHeld(t) \in Int /\ \A w : TargetGain(w, t) \in Int
  OBVIOUS
<1>1. targets[t] \in TargetRecords \cup {NoTarget} BY DEF TargetsTyped
<1>2. Registered(t) => targets[t].funded \in Int BY <1>1, TargetKinds DEF Registered
<1> QED BY <1>2 DEF TargetHeld, TargetGain, Open, Paid, Registered

(* What a track holds and what it pays anybody are integers. *)
LEMMA TrackTerms ==
    TypeOK => \A f \in Tracks : /\ BondHeld(f) \in Int
                                /\ \A w : TrackGain(w, f) \in Int
<1> SUFFICES ASSUME TypeOK, NEW f \in Tracks
             PROVE  BondHeld(f) \in Int /\ \A w : TrackGain(w, f) \in Int
  OBVIOUS
<1>1. claims[f].bond \in Int BY DEF TypeOK, Claim
<1>2. ClaimantGain(f) \in Int /\ ChallengerGain(f) \in Int
  BY <1>1 DEF ClaimantGain, ChallengerGain
<1> QED BY <1>1, <1>2 DEF BondHeld, TrackGain

\* A step that changes one target changes the sums by that target's change.
LEMMA TargetChanges ==
    ASSUME TargetsTyped, TargetsTyped', NEW t \in TargetIds,
           \A u \in TargetIds : u # t => targets'[u] = targets[u]
    PROVE  /\ BountiesHeld' = BountiesHeld - TargetHeld(t) + TargetHeld(t)'
           /\ \A w \in Wallets :
                 BountyGain(w)' = BountyGain(w) - TargetGain(w, t) + TargetGain(w, t)'
<1>1. IsFiniteSet(TargetIds) BY FiniteIndices
<1>2. \A u \in TargetIds : TargetHeld(u) \in Int /\ \A w : TargetGain(w, u) \in Int BY TargetTerms
<1>3. \A u \in TargetIds : TargetHeld(u)' \in Int /\ \A w \in Wallets : TargetGain(w, u)' \in Int
  <2> SUFFICES ASSUME NEW u \in TargetIds
               PROVE  TargetHeld(u)' \in Int /\ \A w \in Wallets : TargetGain(w, u)' \in Int
    OBVIOUS
  <2>1. targets'[u] \in TargetRecords \cup {NoTarget} BY DEF TargetsTyped, TargetRecords, NoTarget
  <2>2. targets'[u].owner # Nobody => targets'[u].funded \in Int BY <2>1, TargetKinds
  <2> QED BY <2>2 DEF TargetHeld, TargetGain, Open, Paid
<1>4. \A u \in TargetIds \ {t} :
         /\ TargetHeld(u)' = TargetHeld(u)
         /\ \A w \in Wallets : TargetGain(w, u)' = TargetGain(w, u)
  BY DEF TargetHeld, TargetGain, Open, Paid
<1>5. BountiesHeld' = BountiesHeld - TargetHeld(t) + TargetHeld(t)'
  <2> DEFINE f == [u \in TargetIds |-> TargetHeld(u)]
             g == [u \in TargetIds |-> TargetHeld(u)']
  <2>1. \A u \in TargetIds : f[u] \in Int /\ g[u] \in Int BY <1>2, <1>3
  <2>2. \A u \in TargetIds \ {t} : g[u] = f[u] BY <1>4
  <2>3. f[t] = TargetHeld(t) /\ g[t] = TargetHeld(t)' OBVIOUS
  <2>4. BountiesHeld = SumFunctionOnSet(f, TargetIds) BY DEF BountiesHeld
  <2>5. BountiesHeld' = SumFunctionOnSet(g, TargetIds) BY DEF BountiesHeld, TargetIds
  <2> HIDE DEF f, g
  <2>6. SumFunctionOnSet(g, TargetIds) = SumFunctionOnSet(f, TargetIds) - f[t] + g[t]
    BY <1>1, <2>1, <2>2, SumChange
  <2> QED BY <2>3, <2>4, <2>5, <2>6
<1>6. ASSUME NEW w \in Wallets
      PROVE  BountyGain(w)' = BountyGain(w) - TargetGain(w, t) + TargetGain(w, t)'
  <2> DEFINE f == [u \in TargetIds |-> TargetGain(w, u)]
             g == [u \in TargetIds |-> TargetGain(w, u)']
  <2>1. \A u \in TargetIds : f[u] \in Int /\ g[u] \in Int BY <1>2, <1>3
  <2>2. \A u \in TargetIds \ {t} : g[u] = f[u] BY <1>4
  <2>3. f[t] = TargetGain(w, t) /\ g[t] = TargetGain(w, t)' OBVIOUS
  <2>4. BountyGain(w) = SumFunctionOnSet(f, TargetIds) BY DEF BountyGain
  <2>5. BountyGain(w)' = SumFunctionOnSet(g, TargetIds) BY DEF BountyGain, TargetIds
  <2> HIDE DEF f, g
  <2>6. SumFunctionOnSet(g, TargetIds) = SumFunctionOnSet(f, TargetIds) - f[t] + g[t]
    BY <1>1, <2>1, <2>2, SumChange
  <2> QED BY <2>3, <2>4, <2>5, <2>6
<1> QED BY <1>5, <1>6

\* The same for one claim.
LEMMA TrackChanges ==
    ASSUME TypeOK, TypeOK', NEW f \in Tracks,
           \A g \in Tracks : g # f => claims'[g] = claims[g]
    PROVE  /\ BondsHeld' = BondsHeld - BondHeld(f) + BondHeld(f)'
           /\ \A w \in Wallets : ClaimGain(w)' = ClaimGain(w) - TrackGain(w, f) + TrackGain(w, f)'
<1>1. IsFiniteSet(Tracks) BY FiniteIndices
<1>2. \A u \in Tracks : BondHeld(u) \in Int /\ \A w : TrackGain(w, u) \in Int BY TrackTerms
<1>3. \A u \in Tracks : BondHeld(u)' \in Int /\ \A w \in Wallets : TrackGain(w, u)' \in Int
  <2> SUFFICES ASSUME NEW u \in Tracks
               PROVE  BondHeld(u)' \in Int /\ \A w \in Wallets : TrackGain(w, u)' \in Int
    OBVIOUS
  <2>1. claims'[u].bond \in Int BY DEF TypeOK, Claim
  <2>2. ClaimantGain(u)' \in Int /\ ChallengerGain(u)' \in Int
    BY <2>1 DEF ClaimantGain, ChallengerGain
  <2> QED BY <2>1, <2>2 DEF BondHeld, TrackGain
<1>4. \A u \in Tracks \ {f} :
         /\ BondHeld(u)' = BondHeld(u)
         /\ \A w \in Wallets : TrackGain(w, u)' = TrackGain(w, u)
  BY DEF BondHeld, TrackGain, ClaimantGain, ChallengerGain
<1>5. BondsHeld' = BondsHeld - BondHeld(f) + BondHeld(f)'
  <2> DEFINE a == [u \in Tracks |-> BondHeld(u)]
             b == [u \in Tracks |-> BondHeld(u)']
  <2>1. \A u \in Tracks : a[u] \in Int /\ b[u] \in Int BY <1>2, <1>3
  <2>2. \A u \in Tracks \ {f} : b[u] = a[u] BY <1>4
  <2>3. a[f] = BondHeld(f) /\ b[f] = BondHeld(f)' OBVIOUS
  <2>4. BondsHeld = SumFunctionOnSet(a, Tracks) BY DEF BondsHeld
  <2>5. BondsHeld' = SumFunctionOnSet(b, Tracks) BY DEF BondsHeld
  <2> HIDE DEF a, b
  <2>6. SumFunctionOnSet(b, Tracks) = SumFunctionOnSet(a, Tracks) - a[f] + b[f]
    BY <1>1, <2>1, <2>2, SumChange
  <2> QED BY <2>3, <2>4, <2>5, <2>6
<1>6. ASSUME NEW w \in Wallets
      PROVE  ClaimGain(w)' = ClaimGain(w) - TrackGain(w, f) + TrackGain(w, f)'
  <2> DEFINE a == [u \in Tracks |-> TrackGain(w, u)]
             b == [u \in Tracks |-> TrackGain(w, u)']
  <2>1. \A u \in Tracks : a[u] \in Int /\ b[u] \in Int BY <1>2, <1>3
  <2>2. \A u \in Tracks \ {f} : b[u] = a[u] BY <1>4
  <2>3. a[f] = TrackGain(w, f) /\ b[f] = TrackGain(w, f)' OBVIOUS
  <2>4. ClaimGain(w) = SumFunctionOnSet(a, Tracks) BY DEF ClaimGain
  <2>5. ClaimGain(w)' = SumFunctionOnSet(b, Tracks) BY DEF ClaimGain
  <2> HIDE DEF a, b
  <2>6. SumFunctionOnSet(b, Tracks) = SumFunctionOnSet(a, Tracks) - a[f] + b[f]
    BY <1>1, <2>1, <2>2, SumChange
  <2> QED BY <2>3, <2>4, <2>5, <2>6
<1> QED BY <1>5, <1>6

\* All sums are numbers.
LEMMA SumsAreInt ==
    ASSUME TargetsTyped, TypeOK
    PROVE  /\ BountiesHeld \in Int /\ BondsHeld \in Int
           /\ \A w : BountyGain(w) \in Int /\ ClaimGain(w) \in Int
<1>1. IsFiniteSet(Tracks) /\ IsFiniteSet(TargetIds) BY FiniteIndices
<1>2. \A u \in Tracks : BondHeld(u) \in Int /\ \A w : TrackGain(w, u) \in Int BY TrackTerms
<1>3. \A u \in TargetIds : TargetHeld(u) \in Int /\ \A w : TargetGain(w, u) \in Int BY TargetTerms
<1>4. BountiesHeld \in Int
  <2> DEFINE f == [t \in TargetIds |-> TargetHeld(t)]
  <2>1. \A x \in TargetIds : f[x] \in Int BY <1>3
  <2> HIDE DEF f
  <2>2. SumFunctionOnSet(f, TargetIds) \in Int BY <1>1, <2>1, SumIsInt
  <2> QED BY <2>2 DEF BountiesHeld, f
<1>5. BondsHeld \in Int
  <2> DEFINE f == [u \in Tracks |-> BondHeld(u)]
  <2>1. \A x \in Tracks : f[x] \in Int BY <1>2
  <2> HIDE DEF f
  <2>2. SumFunctionOnSet(f, Tracks) \in Int BY <1>1, <2>1, SumIsInt
  <2> QED BY <2>2 DEF BondsHeld, f
<1>6. ASSUME NEW w PROVE BountyGain(w) \in Int
  <2> DEFINE f == [t \in TargetIds |-> TargetGain(w, t)]
  <2>1. \A x \in TargetIds : f[x] \in Int BY <1>3
  <2> HIDE DEF f
  <2>2. SumFunctionOnSet(f, TargetIds) \in Int BY <1>1, <2>1, SumIsInt
  <2> QED BY <2>2 DEF BountyGain, f
<1>7. ASSUME NEW w PROVE ClaimGain(w) \in Int
  <2> DEFINE f == [u \in Tracks |-> TrackGain(w, u)]
  <2>1. \A x \in Tracks : f[x] \in Int BY <1>2
  <2> HIDE DEF f
  <2>2. SumFunctionOnSet(f, Tracks) \in Int BY <1>1, <2>1, SumIsInt
  <2> QED BY <2>2 DEF ClaimGain, f
<1> QED BY <1>4, <1>5, <1>6, <1>7

-----------------------------------------------------------------------------
\* Each operation moves as much money as it rewrites records.

\* One target is rewritten and the claims are left alone.
LEMMA BountySideMoves ==
    ASSUME TypeOK, MoneyInv, TargetsTyped', PoolsZeroed', RunsTyped', BalancesTyped',
           UNCHANGED claimVars, NEW t \in TargetIds,
           \A u \in TargetIds : u # t => targets'[u] = targets[u],
           balance'[Bounty] = balance[Bounty] - TargetHeld(t) + TargetHeld(t)',
           balance'[ClaimBond] = balance[ClaimBond],
           \A w \in Wallets :
              balance'[w] = balance[w] - TargetGain(w, t) + TargetGain(w, t)'
    PROVE  MoneyInv'
<1>1. TargetsTyped /\ ClaimsKept /\ BalancesTyped /\ BalancesAreExplained BY DEF MoneyInv
<1>2. /\ BountiesHeld' = BountiesHeld - TargetHeld(t) + TargetHeld(t)'
      /\ \A w \in Wallets :
            BountyGain(w)' = BountyGain(w) - TargetGain(w, t) + TargetGain(w, t)'
  BY <1>1, TargetChanges
<1>3. /\ BondsHeld' = BondsHeld
      /\ \A w \in Wallets : ClaimGain(w)' = ClaimGain(w)
      /\ ClaimsKept'
  BY <1>1 DEF BondsHeld, BondHeld, ClaimGain, TrackGain, ClaimantGain, ChallengerGain, claimVars,
              ClaimsKept, ClaimKept
<1>4. /\ BountiesHeld \in Int /\ BondsHeld \in Int
      /\ \A w : BountyGain(w) \in Int /\ ClaimGain(w) \in Int
  BY <1>1, SumsAreInt
<1>5. TargetHeld(t) \in Int /\ \A w : TargetGain(w, t) \in Int BY <1>1, TargetTerms
<1>6. TargetHeld(t)' \in Int /\ \A w \in Wallets : TargetGain(w, t)' \in Int
  <2>1. targets'[t] \in TargetRecords \cup {NoTarget} BY DEF TargetsTyped, TargetRecords, NoTarget
  <2>2. targets'[t].owner # Nobody => targets'[t].funded \in Int BY <2>1, TargetKinds
  <2> QED BY <2>2 DEF TargetHeld, TargetGain, Open, Paid
<1>7. InitialFunds \in Int BY TokenAssumption
<1>8. balance'[Bounty] = BountiesHeld' /\ balance'[ClaimBond] = BondsHeld'
  BY <1>1, <1>2, <1>3 DEF BalancesAreExplained
<1>9. ASSUME NEW w \in Wallets PROVE balance'[w] = InitialFunds + BountyGain(w)' + ClaimGain(w)'
  <2>1. balance[w] = InitialFunds + BountyGain(w) + ClaimGain(w)
    BY <1>1 DEF BalancesAreExplained
  <2>2. BountyGain(w)' = BountyGain(w) - TargetGain(w, t) + TargetGain(w, t)'
        /\ ClaimGain(w)' = ClaimGain(w)
    BY <1>2, <1>3
  <2>3. balance'[w] = balance[w] - TargetGain(w, t) + TargetGain(w, t)' OBVIOUS
  <2>4. BountyGain(w) \in Int /\ ClaimGain(w) \in Int /\ TargetGain(w, t) \in Int
        /\ TargetGain(w, t)' \in Int
    BY <1>4, <1>5, <1>6
  <2> QED BY <1>7, <2>1, <2>2, <2>3, <2>4
<1> QED BY <1>3, <1>8, <1>9 DEF MoneyInv, BalancesAreExplained

\* One claim is rewritten and the targets are left alone.
LEMMA ClaimSideMoves ==
    ASSUME TypeOK, TypeOK', MoneyInv, ClaimsKept', BalancesTyped',
           UNCHANGED bountyVars, NEW f \in Tracks,
           \A g \in Tracks : g # f => claims'[g] = claims[g],
           balance'[ClaimBond] = balance[ClaimBond] - BondHeld(f) + BondHeld(f)',
           balance'[Bounty] = balance[Bounty],
           \A w \in Wallets : balance'[w] = balance[w] - TrackGain(w, f) + TrackGain(w, f)'
    PROVE  MoneyInv'
<1>1. /\ TargetsTyped /\ PoolsZeroed /\ RunsTyped /\ BalancesTyped /\ BalancesAreExplained
  BY DEF MoneyInv
<1>2. /\ BondsHeld' = BondsHeld - BondHeld(f) + BondHeld(f)'
      /\ \A w \in Wallets : ClaimGain(w)' = ClaimGain(w) - TrackGain(w, f) + TrackGain(w, f)'
  BY TrackChanges
<1>3. /\ BountiesHeld' = BountiesHeld
      /\ \A w \in Wallets : BountyGain(w)' = BountyGain(w)
  BY DEF BountiesHeld, TargetHeld, BountyGain, TargetGain, Open, Paid, bountyVars, TargetIds
<1>4. TargetsTyped' /\ PoolsZeroed' /\ RunsTyped'
  BY <1>1 DEF TargetsTyped, PoolsZeroed, RunsTyped, TargetHeld, Open, Registered, bountyVars,
              TargetIds, TargetRecords, RunRecords, NoTarget, NoRun
<1>5. /\ BountiesHeld \in Int /\ BondsHeld \in Int
      /\ \A w : BountyGain(w) \in Int /\ ClaimGain(w) \in Int
  BY <1>1, SumsAreInt
<1>6. BondHeld(f) \in Int /\ \A w : TrackGain(w, f) \in Int BY TrackTerms
<1>7. BondHeld(f)' \in Int /\ \A w \in Wallets : TrackGain(w, f)' \in Int
  <2>1. claims'[f].bond \in Int BY DEF TypeOK, Claim
  <2>2. ClaimantGain(f)' \in Int /\ ChallengerGain(f)' \in Int
    BY <2>1 DEF ClaimantGain, ChallengerGain
  <2> QED BY <2>1, <2>2 DEF BondHeld, TrackGain
<1>8. InitialFunds \in Int BY TokenAssumption
<1>9. balance'[Bounty] = BountiesHeld' /\ balance'[ClaimBond] = BondsHeld'
  BY <1>1, <1>2, <1>3 DEF BalancesAreExplained
<1>10. ASSUME NEW w \in Wallets PROVE balance'[w] = InitialFunds + BountyGain(w)' + ClaimGain(w)'
  <2>1. balance[w] = InitialFunds + BountyGain(w) + ClaimGain(w)
    BY <1>1 DEF BalancesAreExplained
  <2>2. ClaimGain(w)' = ClaimGain(w) - TrackGain(w, f) + TrackGain(w, f)'
        /\ BountyGain(w)' = BountyGain(w)
    BY <1>2, <1>3
  <2>3. balance'[w] = balance[w] - TrackGain(w, f) + TrackGain(w, f)' OBVIOUS
  <2>4. BountyGain(w) \in Int /\ ClaimGain(w) \in Int /\ TrackGain(w, f) \in Int
        /\ TrackGain(w, f)' \in Int
    BY <1>5, <1>6, <1>7
  <2> QED BY <1>8, <2>1, <2>2, <2>3, <2>4
<1> QED BY <1>4, <1>9, <1>10 DEF MoneyInv, BalancesAreExplained

\* Nobody's money and no record of a stake changes.
LEMMA MoneyStands ==
    ASSUME MoneyInv, UNCHANGED <<balance, targets, nextTargetId, claims>>, RunsTyped'
    PROVE  MoneyInv'
<1>1. /\ BountiesHeld' = BountiesHeld /\ BondsHeld' = BondsHeld
      /\ \A w \in Wallets : BountyGain(w)' = BountyGain(w) /\ ClaimGain(w)' = ClaimGain(w)
  BY DEF BountiesHeld, TargetHeld, BountyGain, TargetGain, Open, Paid, TargetIds,
         BondsHeld, BondHeld, ClaimGain, TrackGain, ClaimantGain, ChallengerGain
<1>2. TargetsTyped' /\ PoolsZeroed'
  BY DEF MoneyInv, TargetsTyped, PoolsZeroed, TargetHeld, Open, Registered,
         TargetIds, TargetRecords, NoTarget
<1>3. ClaimsKept' /\ BalancesTyped' BY DEF MoneyInv, ClaimsKept, ClaimKept, BalancesTyped, Accounts
<1>4. BalancesAreExplained' BY <1>1 DEF MoneyInv, BalancesAreExplained
<1> QED BY <1>2, <1>3, <1>4 DEF MoneyInv

(* Registering a target moves the reward from the wallet into the contract. *)
LEMMA RegisterTargetMoney ==
    ASSUME TypeOK, MoneyInv, UNCHANGED claimVars, NEW w \in Wallets, NEW i \in Invariants,
           NEW amount \in BountyAmounts, RegisterTarget(w, i, amount)
    PROVE  MoneyInv'
<1>0. PICK t \in TargetIds : t = nextTargetId BY DEF RegisterTarget
<1> DEFINE r == [owner |-> w, invariantId |-> i, bountyAmount |-> amount, claimed |-> FALSE,
                 withdrawn |-> FALSE, funded |-> amount, researcher |-> Nobody]
<1>1. /\ TargetsTyped /\ PoolsZeroed /\ RunsTyped /\ BalancesTyped BY DEF MoneyInv
<1>2. amount \in Nat /\ amount \in Int /\ MaxTargets \in Nat BY BountyAssumption
<1>3. /\ t \in TargetIds /\ targets' = [targets EXCEPT ![t] = r] /\ nextTargetId' = t + 1
      /\ Move(w, Bounty, amount) /\ UNCHANGED run
  BY <1>0 DEF RegisterTarget
<1>4. r \in TargetRecords BY <1>2 DEF TargetRecords, People
<1>5. /\ r.owner = w /\ r.bountyAmount = amount /\ r.claimed = FALSE /\ r.withdrawn = FALSE
      /\ r.funded = amount /\ r.researcher = Nobody
  OBVIOUS
<1> HIDE DEF r
<1>6. targets \in [TargetIds -> TargetRecords \cup {NoTarget}] BY <1>1 DEF TargetsTyped
<1>7. targets'[t] = r /\ \A u \in TargetIds : u # t => targets'[u] = targets[u] BY <1>3, <1>6
<1>8. w \in Accounts /\ Bounty \in Accounts /\ w # Bounty /\ w # Nobody
      /\ ClaimBond \in Accounts /\ ClaimBond # Bounty /\ w # ClaimBond
  BY Parties
<1>9. /\ BalancesTyped'
      /\ balance'[w] = balance[w] - amount /\ balance'[Bounty] = balance[Bounty] + amount
      /\ \A x \in Accounts : x # w /\ x # Bounty => balance'[x] = balance[x]
  BY <1>1, <1>2, <1>3, <1>8, MoveMoves
<1>10. TargetsTyped'
  <2>1. targets' \in [TargetIds -> TargetRecords \cup {NoTarget}] BY <1>3, <1>4, <1>6
  <2>2. \A u \in TargetIds : Registered(u)' <=> u < nextTargetId'
    <3>1. \A u \in TargetIds : Registered(u) <=> u < t BY <1>0, <1>1 DEF TargetsTyped
    <3> QED BY <1>3, <1>5, <1>7, <1>8, <3>1 DEF Registered, TargetIds
  <2>3. nextTargetId' \in 1..(MaxTargets + 1) BY <1>2, <1>3 DEF TargetIds
  <2> QED BY <2>1, <2>2, <2>3 DEF TargetsTyped, TargetRecords, NoTarget, TargetIds
<1>11. TargetHeld(t)' = amount BY <1>5, <1>7, <1>8 DEF TargetHeld, Open
<1>12. PoolsZeroed'
  <2> SUFFICES ASSUME NEW u \in TargetIds, Registered(u)'
               PROVE  targets'[u].bountyAmount = TargetHeld(u)'
    BY DEF PoolsZeroed, TargetIds
  <2>1. CASE u = t BY <1>5, <1>7, <1>11, <2>1
  <2>2. CASE u # t BY <1>1, <1>7, <2>2 DEF PoolsZeroed, TargetHeld, Open, Registered
  <2> QED BY <2>1, <2>2
<1>13. RunsTyped' BY <1>1, <1>3 DEF RunsTyped, RunRecords, TargetIds
<1>14. ~Registered(t) BY <1>0, <1>1 DEF TargetsTyped
<1>15. targets[t].owner = Nobody BY <1>14 DEF Registered
<1>16. TargetHeld(t) = 0 BY <1>15 DEF TargetHeld, Open
<1>17. \A x \in Wallets : TargetGain(x, t) = 0 BY <1>15 DEF TargetGain, Paid, Open
<1>18. \A x \in Wallets : TargetGain(x, t)' = IF x = w THEN 0 - amount ELSE 0
  BY <1>2, <1>5, <1>7, <1>8 DEF TargetGain, Paid, Open
<1>19. \A x \in Accounts : balance[x] \in Int BY <1>1 DEF BalancesTyped
<1>20. balance'[Bounty] = balance[Bounty] - TargetHeld(t) + TargetHeld(t)'
  BY <1>2, <1>8, <1>9, <1>11, <1>16, <1>19
<1>21. \A x \in Wallets : balance'[x] = balance[x] - TargetGain(x, t) + TargetGain(x, t)'
  BY <1>2, <1>8, <1>9, <1>17, <1>18, <1>19, Parties
<1>22. balance'[ClaimBond] = balance[ClaimBond] BY <1>8, <1>9
<1> QED BY <1>3, <1>7, <1>9, <1>10, <1>12, <1>13, <1>20, <1>21, <1>22, BountySideMoves

\* A registered target is paid out, to its owner or to a researcher.
LEMMA TargetPays ==
    ASSUME TypeOK, MoneyInv, UNCHANGED claimVars, RunsTyped', UNCHANGED nextTargetId,
           NEW t \in TargetIds, Registered(t), ~targets[t].claimed,
           NEW r \in TargetRecords, targets' = [targets EXCEPT ![t] = r],
           r.owner = targets[t].owner, r.funded = targets[t].funded, r.bountyAmount = 0,
           NEW to \in Wallets, Move(Bounty, to, targets[t].bountyAmount),
           \/ r.withdrawn = TRUE /\ r.claimed = FALSE /\ to = r.owner /\ targets[t].withdrawn = FALSE
           \/ r.withdrawn = targets[t].withdrawn /\ r.claimed = TRUE /\ r.researcher = to
    PROVE  MoneyInv'
<1> DEFINE old == targets[t]
           amount == old.bountyAmount
<1>1. TargetsTyped /\ PoolsZeroed /\ BalancesTyped BY DEF MoneyInv
<1>2. targets \in [TargetIds -> TargetRecords \cup {NoTarget}] BY <1>1 DEF TargetsTyped
<1>3. /\ old \in TargetRecords /\ old.owner \in Wallets /\ old.owner # Nobody
      /\ amount \in Nat /\ old.funded \in Nat
      /\ old.claimed \in BOOLEAN /\ old.withdrawn \in BOOLEAN
  BY <1>2, TargetKinds DEF Registered
<1>4. r.claimed \in BOOLEAN /\ r.withdrawn \in BOOLEAN BY DEF TargetRecords
<1>5. targets'[t] = r /\ \A u \in TargetIds : u # t => targets'[u] = targets[u] BY <1>2
<1>6. amount = TargetHeld(t) BY <1>1 DEF PoolsZeroed
<1>7. to \in Accounts /\ Bounty \in Accounts /\ to # Bounty
      /\ ClaimBond \in Accounts /\ ClaimBond # Bounty /\ to # ClaimBond
  BY Parties
<1>8. amount \in Int /\ Move(Bounty, to, amount) BY <1>3
<1> HIDE DEF amount
<1>9. /\ BalancesTyped'
      /\ balance'[Bounty] = balance[Bounty] - amount /\ balance'[to] = balance[to] + amount
      /\ \A x \in Accounts : x # Bounty /\ x # to => balance'[x] = balance[x]
  BY <1>1, <1>7, <1>8, MoveMoves
<1>10. TargetsTyped'
  <2>1. targets' \in [TargetIds -> TargetRecords \cup {NoTarget}] BY <1>2
  <2>2. \A u \in TargetIds : Registered(u)' <=> Registered(u)
    BY <1>3, <1>5 DEF Registered
  <2>3. /\ \A u \in TargetIds : Registered(u) <=> u < nextTargetId
        /\ nextTargetId \in 1..(MaxTargets + 1)
    BY <1>1 DEF TargetsTyped
  <2> QED BY <2>1, <2>2, <2>3 DEF TargetsTyped, TargetRecords, NoTarget, TargetIds
<1>11. TargetHeld(t)' = 0
  <2>1. r.claimed = TRUE \/ r.withdrawn = TRUE OBVIOUS
  <2> QED BY <1>5, <2>1 DEF TargetHeld, Open
<1>12. PoolsZeroed'
  <2> SUFFICES ASSUME NEW u \in TargetIds, Registered(u)'
               PROVE  targets'[u].bountyAmount = TargetHeld(u)'
    BY DEF PoolsZeroed, TargetIds
  <2>1. CASE u = t BY <1>5, <1>11, <2>1
  <2>2. CASE u # t BY <1>1, <1>5, <2>2 DEF PoolsZeroed, TargetHeld, Open, Registered
  <2> QED BY <2>1, <2>2
<1>13. \A x \in Accounts : balance[x] \in Int BY <1>1 DEF BalancesTyped
<1>14. balance'[Bounty] = balance[Bounty] - TargetHeld(t) + TargetHeld(t)'
  <2>1. balance[Bounty] \in Int BY <1>7, <1>13
  <2> QED BY <1>6, <1>8, <1>9, <1>11, <2>1
<1>15. TargetHeld(t) = IF old.withdrawn THEN 0 ELSE old.funded
  BY <1>3 DEF TargetHeld, Open
<1>16. ASSUME NEW x \in Wallets
       PROVE  TargetGain(x, t) = IF ~old.withdrawn /\ old.owner = x THEN 0 - old.funded ELSE 0
  BY <1>3 DEF TargetGain, Paid, Open
<1>17. ASSUME NEW x \in Wallets
       PROVE  TargetGain(x, t)' =
                 IF r.withdrawn THEN 0
                 ELSE (IF to = x THEN old.funded ELSE 0) - (IF old.owner = x THEN old.funded ELSE 0)
  <2>1. targets'[t].owner = old.owner /\ targets'[t].owner # Nobody
        /\ targets'[t].funded = old.funded
    BY <1>3, <1>5
  <2>2. CASE r.withdrawn
    <3>1. ~Open(t)' /\ ~Paid(t)' BY <1>5, <2>2 DEF Open, Paid
    <3> QED BY <2>2, <3>1 DEF TargetGain
  <2>3. CASE ~r.withdrawn
    <3>1. r.claimed = TRUE /\ r.researcher = to BY <2>3
    <3>2. Paid(t)' /\ targets'[t].researcher = to BY <1>5, <2>1, <2>3, <3>1 DEF Paid
    <3> QED BY <2>1, <2>3, <3>2 DEF TargetGain
  <2> QED BY <2>2, <2>3
<1>18. ASSUME NEW x \in Wallets
       PROVE  balance'[x] = balance[x] - TargetGain(x, t) + TargetGain(x, t)'
  <2>1. balance[x] \in Int /\ x # Bounty /\ x \in Accounts BY <1>13, Parties
  <2>2. balance'[x] = balance[x] + (IF to = x THEN amount ELSE 0) BY <1>7, <1>8, <1>9, <2>1
  <2>3. amount = IF old.withdrawn THEN 0 ELSE old.funded BY <1>6, <1>15
  <2> DEFINE before == TargetGain(x, t)
  <2> HIDE DEF old, before
  <2>4. before = IF ~old.withdrawn /\ old.owner = x THEN 0 - old.funded ELSE 0 BY <1>16 DEF before
  <2>5. CASE r.withdrawn = TRUE /\ r.claimed = FALSE /\ to = r.owner /\ targets[t].withdrawn = FALSE
    <3>1. to = old.owner /\ ~old.withdrawn BY <2>5 DEF old
    <3>2. TargetGain(x, t)' = 0 BY <1>17, <2>5
    <3> QED BY <1>3, <2>1, <2>2, <2>3, <2>4, <3>1, <3>2 DEF before
  <2>6. CASE r.withdrawn = targets[t].withdrawn /\ r.claimed = TRUE /\ r.researcher = to
    <3>1. r.withdrawn = old.withdrawn BY <2>6 DEF old
    <3>2. TargetGain(x, t)' = IF old.withdrawn THEN 0
                 ELSE (IF to = x THEN old.funded ELSE 0) - (IF old.owner = x THEN old.funded ELSE 0)
      BY <1>17, <3>1
    <3>3. old.withdrawn \in BOOLEAN /\ old.funded \in Nat BY <1>3
    <3> QED BY <2>1, <2>2, <2>3, <2>4, <3>2, <3>3 DEF before
  <2> QED BY <2>5, <2>6
<1>19. balance'[ClaimBond] = balance[ClaimBond] BY <1>7, <1>9
<1> QED BY <1>5, <1>9, <1>10, <1>12, <1>14, <1>18, <1>19, BountySideMoves

(* Withdrawing returns the reward of a target to its owner. *)
LEMMA WithdrawBountyMoney ==
    ASSUME TypeOK, MoneyInv, UNCHANGED claimVars, NEW t \in TargetIds, WithdrawBounty(t)
    PROVE  MoneyInv'
<1> DEFINE r == [targets[t] EXCEPT !.withdrawn = TRUE, !.bountyAmount = 0]
<1>1. TargetsTyped /\ RunsTyped BY DEF MoneyInv
<1>2. targets \in [TargetIds -> TargetRecords \cup {NoTarget}] BY <1>1 DEF TargetsTyped
<1>3. /\ Registered(t) /\ ~targets[t].claimed /\ ~targets[t].withdrawn
      /\ Move(Bounty, targets[t].owner, targets[t].bountyAmount)
      /\ UNCHANGED <<nextTargetId, run>>
  BY DEF WithdrawBounty, Registered
<1>4. /\ targets[t] \in TargetRecords /\ targets[t].owner \in Wallets
      /\ targets[t].claimed \in BOOLEAN /\ targets[t].withdrawn \in BOOLEAN
  BY <1>2, <1>3, TargetKinds DEF Registered
<1>5. r \in TargetRecords BY <1>4 DEF TargetRecords
<1>6. /\ r.owner = targets[t].owner /\ r.funded = targets[t].funded /\ r.bountyAmount = 0
      /\ r.withdrawn = TRUE /\ r.claimed = targets[t].claimed
  BY <1>4 DEF TargetRecords
<1>7. targets' = [targets EXCEPT ![t] = r] BY <1>2, <1>4 DEF WithdrawBounty, TargetRecords
<1>8. r.claimed = FALSE /\ targets[t].withdrawn = FALSE BY <1>3, <1>4, <1>6
<1>9. RunsTyped' BY <1>1, <1>3 DEF RunsTyped, RunRecords, TargetIds
<1> HIDE DEF r
<1> QED BY <1>3, <1>4, <1>5, <1>6, <1>7, <1>8, <1>9, TargetPays

(* A confirmed verdict pays the reward to the researcher. *)
LEMMA SubmitVerdictMoney ==
    ASSUME TypeOK, MoneyInv, UNCHANGED claimVars, RunsTyped', NEW t \in TargetIds,
           NEW sender, NEW researcher \in People \cup {"malformed"}, researcher # "malformed",
           NEW confirmed \in BOOLEAN, NEW invariant,
           SubmitVerdict(sender, t, researcher, confirmed, invariant)
    PROVE  MoneyInv'
<1>1. TargetsTyped BY DEF MoneyInv
<1>2. targets \in [TargetIds -> TargetRecords \cup {NoTarget}] BY <1>1 DEF TargetsTyped
<1>3. Registered(t) /\ ~targets[t].claimed /\ UNCHANGED nextTargetId
  BY DEF SubmitVerdict, Registered
<1>4. CASE confirmed
  <2> DEFINE r == [targets[t] EXCEPT !.claimed = TRUE, !.bountyAmount = 0,
                                     !.researcher = researcher]
  <2>1. /\ researcher # Nobody /\ Move(Bounty, researcher, targets[t].bountyAmount)
        /\ targets' = [targets EXCEPT ![t].claimed = TRUE, ![t].bountyAmount = 0,
                                      ![t].researcher = researcher]
    BY <1>4 DEF SubmitVerdict
  <2>2. researcher \in Wallets BY <2>1 DEF People
  <2>3. targets[t] \in TargetRecords BY <1>2, <1>3, TargetKinds DEF Registered
  <2>4. r \in TargetRecords BY <2>2, <2>3 DEF TargetRecords, People
  <2>5. /\ r.owner = targets[t].owner /\ r.funded = targets[t].funded /\ r.bountyAmount = 0
        /\ r.withdrawn = targets[t].withdrawn /\ r.claimed = TRUE /\ r.researcher = researcher
    BY <2>3 DEF TargetRecords
  <2>6. targets' = [targets EXCEPT ![t] = r] BY <1>2, <2>1, <2>3 DEF TargetRecords
  <2> HIDE DEF r
  <2> QED BY <1>3, <2>1, <2>2, <2>4, <2>5, <2>6, TargetPays
<1>5. CASE ~confirmed
  <2>1. UNCHANGED <<balance, targets, nextTargetId, claims>>
    BY <1>5 DEF SubmitVerdict, claimVars
  <2> QED BY <2>1, MoneyStands
<1> QED BY <1>4, <1>5

(* Every step of the bounty contract keeps the balances explained. *)
LEMMA BountyStepMoney ==
    ASSUME TypeOK, MoneyInv, UNCHANGED claimVars, BountyNext
    PROVE  MoneyInv'
<1>1. RunsTyped /\ UNCHANGED claims BY DEF MoneyInv, claimVars
<1>2. ASSUME NEW w \in Wallets, NEW i \in Invariants, NEW amount \in BountyAmounts,
             RegisterTarget(w, i, amount)
      PROVE  MoneyInv'
  BY <1>2, RegisterTargetMoney
<1>3. ASSUME NEW t \in TargetIds, WithdrawBounty(t) PROVE MoneyInv'
  BY <1>3, WithdrawBountyMoney
<1>4. ASSUME UNCHANGED <<tokenVars, targets, nextTargetId, run>> PROVE MoneyInv'
  <2>1. RunsTyped' BY <1>1, <1>4 DEF RunsTyped, RunRecords, TargetIds
  <2> QED BY <1>1, <1>4, <2>1, MoneyStands DEF tokenVars
<1>5. ASSUME NEW s \in Submissions, NEW t \in TargetIds, NEW mode \in {"exploit", "control"},
             NEW researcher \in People \cup {"malformed"}, RunExploit(s, t, researcher, mode)
      PROVE  MoneyInv'
  <2> DEFINE r == [target |-> t, researcher |-> researcher, breach |-> Breach(VaultFor(mode))]
  <2>1. r \in RunRecords BY DEF RunRecords, Breach
  <2>2. run' = [run EXCEPT ![s] = r] BY <1>5 DEF RunExploit
  <2> HIDE DEF r
  <2>3. RunsTyped' BY <1>1, <2>1, <2>2 DEF RunsTyped, RunRecords, TargetIds
  <2> QED BY <1>1, <1>5, <2>3, MoneyStands DEF RunExploit, tokenVars
<1>6. ASSUME NEW s \in Submissions, SubmitOnChain(s) PROVE MoneyInv'
  <2>1. run[s] # NoRun /\ run[s].researcher # "malformed" /\ run' = [run EXCEPT ![s] = NoRun]
    BY <1>6 DEF SubmitOnChain
  <2>2. run[s] \in RunRecords BY <1>1, <2>1 DEF RunsTyped
  <2>3. run[s].target \in TargetIds /\ run[s].researcher \in People \cup {"malformed"}
        /\ run[s].breach \in BOOLEAN
    BY <2>2 DEF RunRecords
  <2>4. RunsTyped' BY <1>1, <2>1 DEF RunsTyped, RunRecords, TargetIds
  <2>5. PICK t \in TargetIds, researcher \in People \cup {"malformed"}, breach \in BOOLEAN :
            /\ t = run[s].target /\ researcher = run[s].researcher /\ breach = run[s].breach
    BY <2>3
  <2>6. SubmitVerdict(Verifier, t, researcher, breach, Reentrancy)
    BY <1>6, <2>5 DEF SubmitOnChain
  <2>7. researcher # "malformed" BY <2>1, <2>5
  <2> QED BY <2>4, <2>6, <2>7, SubmitVerdictMoney
<1>7. ASSUME NEW s \in Submissions, SubmissionFails(s) PROVE MoneyInv'
  <2>1. RunsTyped' BY <1>1, <1>7 DEF SubmissionFails, RunsTyped, RunRecords, TargetIds
  <2> QED BY <1>1, <1>7, <2>1, MoneyStands DEF SubmissionFails, tokenVars
<1>8. ASSUME NEW v \in {Deployer, Verifier}, SetAuthorizedVerifier(v) PROVE MoneyInv'
  BY <1>4, <1>8 DEF SetAuthorizedVerifier
<1>9. CASE RegisterVerifier BY <1>4, <1>9 DEF RegisterVerifier
<1>10. ASSUME NEW s \in Submissions, NEW t \in TargetIds, NEW mode \in {"exploit", "control"},
              Submit(s, t, mode) \/ HarnessMain(s, t, mode)
       PROVE  MoneyInv'
  <2>1. PICK researcher \in People \cup {"malformed"} : RunExploit(s, t, researcher, mode)
    BY <1>10 DEF Submit, HarnessMain, People
  <2> QED BY <1>5, <2>1
<1> QED BY <1>2, <1>3, <1>6, <1>7, <1>8, <1>9, <1>10 DEF BountyNext

\* One claim is rewritten; what remains to be shown is arithmetic about it.
LEMMA ClaimRewritten ==
    ASSUME TypeOK, TypeOK', MoneyInv, BalancesTyped', UNCHANGED bountyVars,
           NEW f \in Tracks, NEW c \in Claim, claims' = [claims EXCEPT ![f] = c],
           c.state # "None", c.state = "Pending" => c.challenger = Nobody,
           c.state = "Challenged" => c.challenger \in Wallets,
           balance'[ClaimBond] = balance[ClaimBond] - BondHeld(f) + BondHeld(f)',
           balance'[Bounty] = balance[Bounty],
           \A w \in Wallets : balance'[w] = balance[w] - TrackGain(w, f) + TrackGain(w, f)'
    PROVE  MoneyInv'
<1>1. claims \in [Tracks -> Claim] BY DEF TypeOK
<1>2. claims'[f] = c /\ \A g \in Tracks : g # f => claims'[g] = claims[g] BY <1>1
<1>3. ClaimsKept BY DEF MoneyInv
<1>4. ClaimsKept'
  <2> SUFFICES ASSUME NEW g \in Tracks PROVE ClaimKept(g)' BY DEF ClaimsKept
  <2>1. CASE g = f BY <1>2, <2>1 DEF ClaimKept
  <2>2. CASE g # f BY <1>2, <1>3, <2>2 DEF ClaimKept, ClaimsKept
  <2> QED BY <2>1, <2>2
<1> QED BY <1>2, <1>4, ClaimSideMoves

\* What a claim's record says of the money.
LEMMA ClaimKinds ==
    ASSUME TypeOK, NEW f \in Tracks
    PROVE  /\ claims[f] \in Claim /\ claims[f].bond \in Nat /\ claims \in [Tracks -> Claim]
           /\ claims[f].claimant \in People /\ claims[f].challenger \in People
           /\ claims[f].windowDeadline \in Nat
BY DEF TypeOK, Claim

(* Filing a claim moves the bond of the claimant into the contract. *)
LEMMA FileClaimMoney ==
    ASSUME TypeOK, TypeOK', MoneyInv, UNCHANGED bountyVars, NEW w \in Wallets, NEW f \in Tracks,
           NEW amount \in BondAmounts, FileClaim(w, f, amount)
    PROVE  MoneyInv'
<1> DEFINE c == [state |-> "Pending", claimant |-> w, challenger |-> Nobody,
                 bond |-> amount, windowDeadline |-> now + disputeWindow]
<1>1. BalancesTyped /\ ClaimsKept BY DEF MoneyInv
<1>2. amount \in Nat /\ amount \in Int BY ClaimsAssumption
<1>3. /\ claims[f].state = "None" /\ claims' = [claims EXCEPT ![f] = c]
      /\ Move(w, ClaimBond, amount)
  BY DEF FileClaim
<1>4. claims \in [Tracks -> Claim] BY ClaimKinds
<1>5. c \in Claim BY <1>2, ClaimsAssumption DEF Claim, People, TypeOK
<1>6. c.state = "Pending" /\ c.claimant = w /\ c.challenger = Nobody /\ c.bond = amount OBVIOUS
<1> HIDE DEF c
<1>7. claims'[f] = c BY <1>3, <1>4
<1>8. claims[f] = NoClaim BY <1>1, <1>3 DEF ClaimsKept, ClaimKept
<1>9. claims[f].claimant = Nobody /\ claims[f].challenger = Nobody /\ claims[f].bond = 0
      /\ claims[f].state = "None"
  BY <1>8 DEF NoClaim
<1>10. w \in Accounts /\ ClaimBond \in Accounts /\ w # ClaimBond /\ Bounty \in Accounts
       /\ Bounty # ClaimBond /\ w # Bounty /\ Nobody \notin Wallets
  BY Parties
<1>11. /\ BalancesTyped'
       /\ balance'[w] = balance[w] - amount /\ balance'[ClaimBond] = balance[ClaimBond] + amount
       /\ \A x \in Accounts : x # w /\ x # ClaimBond => balance'[x] = balance[x]
  BY <1>1, <1>2, <1>3, <1>10, MoveMoves
<1>12. BondHeld(f) = 0 /\ BondHeld(f)' = amount BY <1>6, <1>7, <1>9 DEF BondHeld
<1>13. \A x \in Wallets : TrackGain(x, f) = 0 BY <1>9, <1>10 DEF TrackGain
<1>14. \A x \in Wallets : TrackGain(x, f)' = IF x = w THEN 0 - amount ELSE 0
  BY <1>2, <1>6, <1>7, <1>10 DEF TrackGain, ClaimantGain
<1>15. \A x \in Accounts : balance[x] \in Int BY <1>1 DEF BalancesTyped
<1>16. balance'[ClaimBond] = balance[ClaimBond] - BondHeld(f) + BondHeld(f)'
  BY <1>2, <1>10, <1>11, <1>12, <1>15
<1>17. \A x \in Wallets : balance'[x] = balance[x] - TrackGain(x, f) + TrackGain(x, f)'
  BY <1>2, <1>10, <1>11, <1>13, <1>14, <1>15, Parties
<1>18. balance'[Bounty] = balance[Bounty] BY <1>10, <1>11
<1> QED BY <1>3, <1>5, <1>6, <1>11, <1>16, <1>17, <1>18, ClaimRewritten

(* A challenge moves an equal bond of the challenger into the contract. *)
LEMMA ChallengeClaimMoney ==
    ASSUME TypeOK, TypeOK', MoneyInv, UNCHANGED bountyVars, NEW w \in Wallets, NEW f \in Tracks,
           ChallengeClaim(w, f)
    PROVE  MoneyInv'
<1> DEFINE old == claims[f]
           c == [old EXCEPT !.state = "Challenged", !.challenger = w]
           amount == old.bond
<1>1. BalancesTyped /\ ClaimsKept BY DEF MoneyInv
<1>2. old \in Claim /\ amount \in Nat /\ claims \in [Tracks -> Claim] BY ClaimKinds
<1>3. /\ old.state = "Pending" /\ claims' = [claims EXCEPT ![f] = c]
      /\ Move(w, ClaimBond, amount)
  BY <1>2 DEF ChallengeClaim, Claim
<1>4. c \in Claim BY <1>2 DEF Claim, People
<1>5. c.state = "Challenged" /\ c.claimant = old.claimant /\ c.challenger = w /\ c.bond = amount
  BY <1>2 DEF Claim
<1>6. old.challenger = Nobody BY <1>1, <1>3 DEF ClaimsKept, ClaimKept
<1> HIDE DEF c, amount
<1>7. claims'[f] = c BY <1>2, <1>3
<1>8. w \in Accounts /\ ClaimBond \in Accounts /\ w # ClaimBond /\ Bounty \in Accounts
      /\ Bounty # ClaimBond /\ w # Bounty /\ Nobody \notin Wallets
  BY Parties
<1>9. amount \in Int BY <1>2
<1>10. /\ BalancesTyped'
       /\ balance'[w] = balance[w] - amount /\ balance'[ClaimBond] = balance[ClaimBond] + amount
       /\ \A x \in Accounts : x # w /\ x # ClaimBond => balance'[x] = balance[x]
  BY <1>1, <1>3, <1>8, <1>9, MoveMoves
<1>11. BondHeld(f) = amount /\ BondHeld(f)' = 2 * amount BY <1>3, <1>5, <1>7 DEF BondHeld, amount
<1>12. \A x \in Wallets : TrackGain(x, f) = IF x = old.claimant THEN 0 - amount ELSE 0
  BY <1>2, <1>3, <1>6, <1>8 DEF TrackGain, ClaimantGain, amount
<1>13. \A x \in Wallets : TrackGain(x, f)' =
          (IF x = old.claimant THEN 0 - amount ELSE 0) + (IF x = w THEN 0 - amount ELSE 0)
  BY <1>5, <1>7 DEF TrackGain, ClaimantGain, ChallengerGain
<1>14. \A x \in Accounts : balance[x] \in Int BY <1>1 DEF BalancesTyped
<1>15. balance'[ClaimBond] = balance[ClaimBond] - BondHeld(f) + BondHeld(f)'
  BY <1>8, <1>9, <1>10, <1>11, <1>14
<1> HIDE DEF old
<1>16. \A x \in Wallets : balance'[x] = balance[x] - TrackGain(x, f) + TrackGain(x, f)'
  <2> SUFFICES ASSUME NEW x \in Wallets
               PROVE  balance'[x] = balance[x] - TrackGain(x, f) + TrackGain(x, f)'
    OBVIOUS
  <2>1. balance[x] \in Int /\ x \in Accounts /\ x # ClaimBond BY <1>14, Parties
  <2>2. balance'[x] = balance[x] - (IF x = w THEN amount ELSE 0) BY <1>9, <1>10, <2>1
  <2>3. TrackGain(x, f) = IF x = old.claimant THEN 0 - amount ELSE 0 BY <1>12
  <2>4. TrackGain(x, f)' = TrackGain(x, f) + (IF x = w THEN 0 - amount ELSE 0)
    BY <1>12, <1>13
  <2>5. TrackGain(x, f) \in Int BY <1>9, <2>3
  <2> QED BY <1>9, <2>1, <2>2, <2>4, <2>5
<1>17. balance'[Bounty] = balance[Bounty] BY <1>8, <1>10
<1> QED BY <1>3, <1>4, <1>5, <1>10, <1>15, <1>16, <1>17, ClaimRewritten

\* The bond of an unchallenged claim stays where it is.
LEMMA FinalizeMoney ==
    ASSUME TypeOK, TypeOK', MoneyInv, UNCHANGED bountyVars, NEW f \in Tracks,
           FinalizeUnchallenged(f)
    PROVE  MoneyInv'
<1> DEFINE old == claims[f]
           c == [old EXCEPT !.state = "Upheld"]
<1>1. BalancesTyped /\ ClaimsKept BY DEF MoneyInv
<1>2. old \in Claim /\ old.bond \in Nat /\ claims \in [Tracks -> Claim] BY ClaimKinds
<1>3. old.state = "Pending" /\ claims' = [claims EXCEPT ![f] = c] /\ UNCHANGED balance
  BY <1>2 DEF FinalizeUnchallenged, Claim, tokenVars
<1>4. c \in Claim BY <1>2 DEF Claim
<1>5. /\ c.state = "Upheld" /\ c.claimant = old.claimant /\ c.challenger = old.challenger
      /\ c.bond = old.bond
  BY <1>2 DEF Claim
<1>6. old.challenger = Nobody BY <1>1, <1>3 DEF ClaimsKept, ClaimKept
<1> HIDE DEF c
<1>7. claims'[f] = c BY <1>2, <1>3
<1>8. ClaimBond \in Accounts /\ Bounty \in Accounts /\ Nobody \notin Wallets
      /\ Wallets \subseteq Accounts
  BY Parties
<1>9. BondHeld(f) = old.bond /\ BondHeld(f)' = old.bond BY <1>3, <1>5, <1>7 DEF BondHeld
<1>10. \A x \in Wallets : TrackGain(x, f) = TrackGain(x, f)' /\ TrackGain(x, f) \in Int
  BY <1>2, <1>3, <1>5, <1>6, <1>7, <1>8 DEF TrackGain, ClaimantGain
<1>11. \A x \in Accounts : balance[x] \in Int BY <1>1 DEF BalancesTyped
<1>12. balance'[ClaimBond] = balance[ClaimBond] - BondHeld(f) + BondHeld(f)'
  BY <1>2, <1>3, <1>8, <1>9, <1>11
<1>13. ASSUME NEW x \in Wallets
       PROVE  balance'[x] = balance[x] - TrackGain(x, f) + TrackGain(x, f)'
  <2>1. balance[x] \in Int /\ TrackGain(x, f) \in Int /\ TrackGain(x, f)' = TrackGain(x, f)
    BY <1>8, <1>10, <1>11
  <2> QED BY <1>3, <2>1
<1>14. BalancesTyped' /\ balance'[Bounty] = balance[Bounty]
  BY <1>1, <1>3 DEF BalancesTyped, Accounts
<1> QED BY <1>3, <1>4, <1>5, <1>12, <1>13, <1>14, ClaimRewritten

\* The loser's bond goes to the winner; a winning claimant's own bond stays.
LEMMA ResolveMoney ==
    ASSUME TypeOK, TypeOK', MoneyInv, ClaimsAreArtists, UNCHANGED bountyVars, NEW f \in Tracks,
           NEW wins \in BOOLEAN, ResolveChallenge(f, wins)
    PROVE  MoneyInv'
<1> DEFINE old == claims[f]
           c == [old EXCEPT !.state = IF wins THEN "Upheld" ELSE "Overturned"]
           winner == IF wins THEN old.claimant ELSE old.challenger
           amount == IF wins THEN old.bond ELSE 2 * old.bond
<1>1. BalancesTyped /\ ClaimsKept BY DEF MoneyInv
<1>2. old \in Claim /\ old.bond \in Nat /\ claims \in [Tracks -> Claim] BY ClaimKinds
<1>3. /\ old.state = "Challenged" /\ claims' = [claims EXCEPT ![f] = c]
      /\ Move(ClaimBond, winner, amount)
  BY <1>2 DEF ResolveChallenge, Claim
<1>4. c \in Claim BY <1>2 DEF Claim
<1>5. /\ c.state = (IF wins THEN "Upheld" ELSE "Overturned") /\ c.claimant = old.claimant
      /\ c.challenger = old.challenger /\ c.bond = old.bond
  BY <1>2 DEF Claim
<1>6. old.challenger \in Wallets /\ old.claimant \in Wallets
  BY <1>1, <1>3 DEF ClaimsKept, ClaimKept, ClaimsAreArtists
<1>7. winner \in Wallets /\ amount \in Int BY <1>2, <1>6
<1> HIDE DEF c
<1>8. claims'[f] = c BY <1>2, <1>3
<1>9. winner \in Accounts /\ ClaimBond \in Accounts /\ winner # ClaimBond /\ Bounty \in Accounts
      /\ Bounty # ClaimBond /\ winner # Bounty /\ Nobody \notin Wallets
  <2> HIDE DEF winner
  <2> QED BY <1>7, Parties
<1>10. /\ BalancesTyped'
       /\ balance'[ClaimBond] = balance[ClaimBond] - amount
       /\ balance'[winner] = balance[winner] + amount
       /\ \A x \in Accounts : x # ClaimBond /\ x # winner => balance'[x] = balance[x]
  <2> HIDE DEF winner, amount
  <2> QED BY <1>1, <1>3, <1>7, <1>9, MoveMoves
<1>11. BondHeld(f) = 2 * old.bond BY <1>3 DEF BondHeld
<1>12. BondHeld(f)' = IF wins THEN old.bond ELSE 0 BY <1>5, <1>8 DEF BondHeld
<1>13. \A x \in Accounts : balance[x] \in Int BY <1>1 DEF BalancesTyped
<1>14. balance'[ClaimBond] = balance[ClaimBond] - BondHeld(f) + BondHeld(f)'
  BY <1>2, <1>9, <1>10, <1>11, <1>12, <1>13
<1>15. ASSUME NEW x \in Wallets
       PROVE  TrackGain(x, f) = (IF old.claimant = x THEN 0 - old.bond ELSE 0)
                                  + (IF old.challenger = x THEN 0 - old.bond ELSE 0)
  BY <1>3 DEF TrackGain, ClaimantGain, ChallengerGain
<1>16. old.challenger # Nobody BY <1>6, <1>9
<1>17. ASSUME NEW x \in Wallets
       PROVE  balance'[x] = balance[x] - TrackGain(x, f) + TrackGain(x, f)'
  <2>1. balance[x] \in Int /\ x \in Accounts /\ x # ClaimBond BY <1>13, Parties
  <2>2. balance'[x] = balance[x] + (IF x = winner THEN amount ELSE 0)
    <3> HIDE DEF winner, amount
    <3> QED BY <1>7, <1>10, <2>1
  <2> DEFINE before == TrackGain(x, f)
             b == old.bond
             isClaimant == old.claimant = x
             isChallenger == old.challenger = x
  <2>3. before = (IF isClaimant THEN 0 - b ELSE 0) + (IF isChallenger THEN 0 - b ELSE 0)
    BY <1>15
  <2>4. b \in Nat BY <1>2
  <2>5. CASE wins
    <3>1. TrackGain(x, f)' = IF isChallenger THEN 0 - b ELSE 0
      <4>1. ClaimantGain(f)' = 0 /\ ChallengerGain(f)' = 0 - b
        BY <1>5, <1>8, <1>16, <2>5 DEF ClaimantGain, ChallengerGain
      <4>2. claims'[f].claimant = old.claimant /\ claims'[f].challenger = old.challenger
        BY <1>5, <1>8
      <4> QED BY <2>4, <4>1, <4>2 DEF TrackGain
    <3>2. balance'[x] = balance[x] + (IF isClaimant THEN b ELSE 0) BY <2>2, <2>5
    <3> HIDE DEF before, b, isClaimant, isChallenger
    <3> QED BY <2>1, <2>3, <2>4, <3>1, <3>2 DEF before
  <2>6. CASE ~wins
    <3>1. TrackGain(x, f)' = (IF isClaimant THEN 0 - b ELSE 0) + (IF isChallenger THEN b ELSE 0)
      <4>1. ClaimantGain(f)' = 0 - b /\ ChallengerGain(f)' = b
        BY <1>5, <1>8, <2>6 DEF ClaimantGain, ChallengerGain
      <4>2. claims'[f].claimant = old.claimant /\ claims'[f].challenger = old.challenger
        BY <1>5, <1>8
      <4> QED BY <2>4, <4>1, <4>2 DEF TrackGain
    <3>2. balance'[x] = balance[x] + (IF isChallenger THEN 2 * b ELSE 0) BY <2>2, <2>6
    <3> HIDE DEF before, b, isClaimant, isChallenger
    <3> QED BY <2>1, <2>3, <2>4, <3>1, <3>2 DEF before
  <2> QED BY <2>5, <2>6
<1>18. balance'[Bounty] = balance[Bounty] BY <1>9, <1>10
<1>19. c.state # "None" /\ c.state # "Pending" /\ c.state # "Challenged" BY <1>5
<1> QED BY <1>3, <1>4, <1>10, <1>14, <1>17, <1>18, <1>19, ClaimRewritten

(* Every step of the claims contract keeps the balances explained. *)
LEMMA ClaimsStepMoney ==
    ASSUME IInv, IInv', MoneyInv, UNCHANGED bountyVars, ClaimsNext
    PROVE  MoneyInv'
<1>1. TypeOK /\ TypeOK' /\ ClaimsAreArtists BY DEF IInv
<1>2. RunsTyped' BY DEF MoneyInv, RunsTyped, RunRecords, TargetIds, bountyVars
<1>3. ASSUME UNCHANGED <<tokenVars, claims>> PROVE MoneyInv'
  BY <1>2, <1>3, MoneyStands DEF tokenVars, bountyVars
<1>4. ASSUME NEW w \in Wallets, NEW f \in Tracks, RegisterTrack(w, f) PROVE MoneyInv'
  BY <1>3, <1>4 DEF RegisterTrack
<1>5. ASSUME NEW w \in Wallets, NEW f \in Tracks, NEW amount \in BondAmounts,
             FileClaim(w, f, amount)
      PROVE  MoneyInv'
  BY <1>1, <1>5, FileClaimMoney
<1>6. ASSUME NEW w \in Wallets, NEW f \in Tracks, ChallengeClaim(w, f) PROVE MoneyInv'
  BY <1>1, <1>6, ChallengeClaimMoney
<1>7. ASSUME NEW f \in Tracks, FinalizeUnchallenged(f) PROVE MoneyInv'
  BY <1>1, <1>7, FinalizeMoney
<1>8. ASSUME NEW f \in Tracks, NEW wins \in BOOLEAN, ResolveChallenge(f, wins) PROVE MoneyInv'
  BY <1>1, <1>8, ResolveMoney
<1>9. ASSUME NEW window \in Windows, SetDisputeWindow(window) PROVE MoneyInv'
  BY <1>3, <1>9 DEF SetDisputeWindow
<1>10. CASE ResolveArtists \/ CheckLicensable \/ GateEnds
  BY <1>3, <1>10 DEF ResolveArtists, CheckLicensable, GateEnds
<1> QED BY <1>4, <1>5, <1>6, <1>7, <1>8, <1>9, <1>10 DEF ClaimsNext

(* At the start nothing is held and nothing was gained. *)
LEMMA MoneyInit == Init => MoneyInv
<1> SUFFICES ASSUME Init PROVE MoneyInv OBVIOUS
<1> USE DEF Init, TokenInit, BountyInit, ClaimsInit
<1>1. InitialFunds \in Int /\ MaxTargets \in Nat BY TokenAssumption, BountyAssumption
<1>2. \A t \in TargetIds : targets[t].owner = Nobody BY DEF NoTarget
<1>3. TargetsTyped BY <1>1, <1>2 DEF TargetsTyped, Registered, TargetIds
<1>4. PoolsZeroed BY <1>2 DEF PoolsZeroed, Registered
<1>5. RunsTyped BY DEF RunsTyped
<1>6. ClaimsKept BY DEF ClaimsKept, ClaimKept, NoClaim
<1>7. BalancesTyped BY <1>1 DEF BalancesTyped
<1>8. IsFiniteSet(TargetIds) /\ IsFiniteSet(Tracks) BY FiniteIndices
<1>9. BountiesHeld = 0
  <2> DEFINE f == [t \in TargetIds |-> TargetHeld(t)]
  <2>1. \A t \in TargetIds : f[t] = 0 BY <1>2 DEF TargetHeld, Open
  <2> HIDE DEF f
  <2>2. SumFunctionOnSet(f, TargetIds) = 0 BY <1>8, <2>1, SumZero
  <2> QED BY <2>2 DEF BountiesHeld, f
<1>10. BondsHeld = 0
  <2> DEFINE f == [u \in Tracks |-> BondHeld(u)]
  <2>1. \A u \in Tracks : f[u] = 0 BY DEF BondHeld, NoClaim
  <2> HIDE DEF f
  <2>2. SumFunctionOnSet(f, Tracks) = 0 BY <1>8, <2>1, SumZero
  <2> QED BY <2>2 DEF BondsHeld, f
<1>11. ASSUME NEW w \in Wallets PROVE BountyGain(w) = 0
  <2> DEFINE f == [t \in TargetIds |-> TargetGain(w, t)]
  <2>1. \A t \in TargetIds : f[t] = 0 BY <1>2 DEF TargetGain, Open, Paid
  <2> HIDE DEF f
  <2>2. SumFunctionOnSet(f, TargetIds) = 0 BY <1>8, <2>1, SumZero
  <2> QED BY <2>2 DEF BountyGain, f
<1>12. ASSUME NEW w \in Wallets PROVE ClaimGain(w) = 0
  <2> DEFINE f == [u \in Tracks |-> TrackGain(w, u)]
  <2>1. \A u \in Tracks : f[u] = 0 BY Parties DEF TrackGain, NoClaim
  <2> HIDE DEF f
  <2>2. SumFunctionOnSet(f, Tracks) = 0 BY <1>8, <2>1, SumZero
  <2> QED BY <2>2 DEF ClaimGain, f
<1>13. /\ balance[Bounty] = 0 /\ balance[ClaimBond] = 0
       /\ \A w \in Wallets : balance[w] = InitialFunds
  BY Parties
<1>14. BalancesAreExplained BY <1>1, <1>9, <1>10, <1>11, <1>12, <1>13 DEF BalancesAreExplained
<1> QED BY <1>3, <1>4, <1>5, <1>6, <1>7, <1>14 DEF MoneyInv

(* Every step of the composition keeps the balances explained. *)
LEMMA MoneyStep == IInv /\ IInv' /\ MoneyInv /\ [Next]_vars => MoneyInv'
<1> SUFFICES ASSUME IInv, IInv', MoneyInv, [Next]_vars PROVE MoneyInv' OBVIOUS
<1>1. TypeOK BY DEF IInv
<1>2. CASE BountyNext /\ UNCHANGED claimVars BY <1>1, <1>2, BountyStepMoney
<1>3. CASE ClaimsNext /\ UNCHANGED bountyVars BY <1>3, ClaimsStepMoney
<1>4. ASSUME UNCHANGED <<balance, bountyVars, claimVars>> PROVE MoneyInv'
  <2>1. RunsTyped' BY <1>4 DEF MoneyInv, RunsTyped, RunRecords, TargetIds, bountyVars
  <2> QED BY <1>4, <2>1, MoneyStands DEF bountyVars, claimVars
<1>5. CASE Tick /\ UNCHANGED <<bountyVars, claimVars>> BY <1>4, <1>5 DEF Tick
<1>6. CASE UNCHANGED vars BY <1>4, <1>6 DEF vars, tokenVars
<1> QED BY <1>2, <1>3, <1>5, <1>6 DEF Next

\* Every token is where the records of the two contracts say it is, for any
\* race of verdicts, withdrawals, challenges and resolutions.
THEOREM TokensAreAccountedFor == Spec => []BalancesAreExplained
<1>1. IInv /\ MoneyInv => BalancesAreExplained BY DEF MoneyInv
<1>2. Init => IInv /\ MoneyInv BY InitIInv, MoneyInit
<1>3. (IInv /\ MoneyInv) /\ [Next]_vars => (IInv /\ MoneyInv)' BY StepIInv, MoneyStep
<1> QED BY <1>1, <1>2, <1>3, PTL DEF Spec

=============================================================================
