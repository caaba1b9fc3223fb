---------------------------- MODULE RightsClaimBond ----------------------------
(***************************************************************************)
(* The RightsClaimBond contract over the ArtistRegistry, and the ingestion  *)
(* enclave's licensing gate, which reads the registry and then the claims   *)
(* track by track while claims are filed, challenged and resolved.          *)
(*                                                                         *)
(* An operator that no other definition uses is a mutant of the definition  *)
(* right after it.                                                          *)
(***************************************************************************)
EXTENDS CollateralToken, Sequences

CONSTANTS
    ClaimBond,          \* the contract's account
    Tracks,             \* fingerprintHash values
    Corpora,            \* corpora the enclave is asked about: sequences of those
    BondAmounts,
    Windows             \* values of disputeWindow

ASSUME ClaimsAssumption ==
    /\ ClaimBond \in Escrows
    /\ IsFiniteSet(Tracks)
    /\ \A corpus \in Corpora : corpus \in Seq(Tracks)
    /\ BondAmounts \subseteq Nat \ {0} /\ Windows \subseteq Nat \ {0} /\ Windows # {}

VARIABLES
    artistOf,           \* ArtistRegistry
    claims, disputeWindow,
    gate                \* the enclave's request: corpus, artists, tracks passed

claimVars == <<artistOf, claims, disputeWindow, gate>>

NoClaim == [state |-> "None", claimant |-> Nobody, challenger |-> Nobody,
            bond |-> 0, windowDeadline |-> 0]
NoGate == [corpus |-> <<>>, artists |-> <<>>, passed |-> 0]

\* registerTrack: first come, and for good.
RegisterTrack(artist, f) ==
    /\ artistOf[f] = Nobody
    /\ artistOf' = [artistOf EXCEPT ![f] = artist]
    /\ UNCHANGED <<tokenVars, claims, disputeWindow, gate>>

-----------------------------------------------------------------------------
\* The contract.

FileClaim(w, f, amount) ==
    /\ artistOf[f] = w
    /\ claims[f].state = "None"
    /\ Move(w, ClaimBond, amount)
    /\ claims' = [claims EXCEPT ![f] =
                    [state |-> "Pending", claimant |-> w, challenger |-> Nobody,
                     bond |-> amount, windowDeadline |-> now + disputeWindow]]
    /\ UNCHANGED <<now, artistOf, disputeWindow, gate>>

\* The challenger's bond equals the claimant's.  A claimant may challenge himself.
ChallengeClaim(w, f) ==
    /\ claims[f].state = "Pending"
    /\ now < claims[f].windowDeadline
    /\ Move(w, ClaimBond, claims[f].bond)
    /\ claims' = [claims EXCEPT ![f].state = "Challenged", ![f].challenger = w]
    /\ UNCHANGED <<now, artistOf, disputeWindow, gate>>

FinalizeUnchallenged(f) ==
    /\ claims[f].state = "Pending"
    /\ now >= claims[f].windowDeadline
    /\ claims' = [claims EXCEPT ![f].state = "Upheld"]
    /\ UNCHANGED <<tokenVars, artistOf, disputeWindow, gate>>

ResolveIfChallenger(f, claimantWins) ==
    /\ claims[f].challenger # Nobody
    /\ claims' = [claims EXCEPT ![f].state = IF claimantWins THEN "Upheld" ELSE "Overturned"]
    /\ IF claimantWins
       THEN Move(ClaimBond, claims[f].claimant, claims[f].bond)
       ELSE Move(ClaimBond, claims[f].challenger, 2 * claims[f].bond)
    /\ UNCHANGED <<now, artistOf, disputeWindow, gate>>
\* By the owner: the claimant wins the other bond and leaves his own, or the
\* challenger takes both.
ResolveChallenge(f, claimantWins) ==
    /\ claims[f].state = "Challenged"
    /\ claims' = [claims EXCEPT ![f].state = IF claimantWins THEN "Upheld" ELSE "Overturned"]
    /\ IF claimantWins
       THEN Move(ClaimBond, claims[f].claimant, claims[f].bond)
       ELSE Move(ClaimBond, claims[f].challenger, 2 * claims[f].bond)
    /\ UNCHANGED <<now, artistOf, disputeWindow, gate>>

IsLicensable(f) == claims[f].state = "Upheld"

SetDisputeWindow(window) ==
    /\ disputeWindow' = window
    /\ UNCHANGED <<tokenVars, artistOf, claims, gate>>

-----------------------------------------------------------------------------
\* The enclave's gate (ingest, step 2 and 2b).

\* A track without an artist, now, ends the request.  A registration is
\* permanent: all reads succeed just when the last does.
ResolveArtists ==
    /\ gate = NoGate
    /\ \E corpus \in Corpora :
          /\ \A i \in DOMAIN corpus : artistOf[corpus[i]] # Nobody
          /\ gate' = [corpus |-> corpus, artists |-> [i \in DOMAIN corpus |-> artistOf[corpus[i]]],
                      passed |-> 0]
    /\ UNCHANGED <<tokenVars, artistOf, claims, disputeWindow>>

CheckLicensable ==
    /\ gate.passed < Len(gate.corpus)
    /\ IF IsLicensable(gate.corpus[gate.passed + 1])
       THEN gate' = [gate EXCEPT !.passed = @ + 1]
       ELSE gate' = NoGate
    /\ UNCHANGED <<tokenVars, artistOf, claims, disputeWindow>>

\* It has signed the allocation, or a read failed.
GateEnds ==
    /\ gate' = NoGate
    /\ UNCHANGED <<tokenVars, artistOf, claims, disputeWindow>>

-----------------------------------------------------------------------------
ClaimsInit ==
    /\ artistOf = [f \in Tracks |-> Nobody]
    /\ claims = [f \in Tracks |-> NoClaim]
    /\ disputeWindow \in Windows
    /\ gate = NoGate

ClaimsNext ==
    \/ \E w \in Wallets, f \in Tracks :
          \/ RegisterTrack(w, f)
          \/ \E amount \in BondAmounts : FileClaim(w, f, amount)
          \/ ChallengeClaim(w, f)
    \/ \E f \in Tracks :
          \/ FinalizeUnchallenged(f)
          \/ \E wins \in BOOLEAN : ResolveChallenge(f, wins)
    \/ \E window \in Windows : SetDisputeWindow(window)
    \/ ResolveArtists \/ CheckLicensable \/ GateEnds

-----------------------------------------------------------------------------
\* What the state of the claims says each account holds.

BondHeld(f) ==
    IF claims[f].state \in {"Pending", "Upheld"} THEN claims[f].bond
    ELSE IF claims[f].state = "Challenged" THEN 2 * claims[f].bond ELSE 0

\* A claimant's bond never comes back to him; a lost challenge pays it back.
ClaimantGain(f) ==
    IF claims[f].state = "Upheld" /\ claims[f].challenger # Nobody THEN 0 ELSE 0 - claims[f].bond
ChallengerGain(f) ==
    IF claims[f].state = "Overturned" THEN claims[f].bond ELSE 0 - claims[f].bond
TrackGain(w, f) ==
    (IF claims[f].claimant = w THEN ClaimantGain(f) ELSE 0)
      + (IF claims[f].challenger = w THEN ChallengerGain(f) ELSE 0)

BondsHeld    == SumFunctionOnSet([f \in Tracks |-> BondHeld(f)], Tracks)
ClaimGain(w) == SumFunctionOnSet([f \in Tracks |-> TrackGain(w, f)], Tracks)

\* Every track the enclave has let through so far stands, at every later step
\* of the same request, on an upheld claim of the very artist it will pay:
\* no resolution, challenge or new claim after the read takes it back.
LicensedTracksAreBonded ==
    \A i \in 1..gate.passed :
        LET f == gate.corpus[i] IN
        claims[f].state = "Upheld" /\ claims[f].claimant = gate.artists[i]
=============================================================================
