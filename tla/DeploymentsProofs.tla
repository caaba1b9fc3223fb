-------------------------- MODULE DeploymentsProofs --------------------------
(* Theorems of Deployments, for any number of agents, wallets, tracks,        *)
(* contracts, runs and deaths. A step either deploys nothing, and then leaves *)
(* the kinds and constructor arguments of all contracts alone, or deploys one *)
(* contract on addresses its script has read or made.                         *)
EXTENDS Deployments, TLAPS, FiniteSetTheorems

ChainOK == contracts \in [Addresses -> Contract] /\ deployed \in AddressOrZero
Runs == [script : FileNames \cup {"identity", "none"}, step : Steps, out : File,
         wallet : WalletOrNobody]
RestOK ==
  /\ files \in [FileNames -> File]
  /\ env \in [{"root", "acquisition"} -> [KeyNames -> WalletOrNobody]]
  /\ funded \in SUBSET WalletOrNobody
  /\ identities \in Seq(Agents)
  /\ cache \in [Agents -> Nat]
  /\ agentId8004 \in [Addresses -> [Agents -> Nat]]
  /\ crashes \in 0..MaxCrashes
  /\ overwritten \in Nat
  /\ forced \in Nat

(* The type invariant, in the parts that steps treat alike. *)
LEMMA Parts == TypeOK <=> ChainOK /\ run \in Runs /\ RestOK /\ runs \in 0..MaxRuns
BY DEF TypeOK, ChainOK, Runs, RestOK

(* Which names are names of contracts, files, keys and steps. *)
LEMMA Names ==
  /\ {"registry", "bond", "adapter", "bounty", "artists", "pool", "claim", "rights", "guard"} \subseteq Kinds
  /\ {"network", "standalone", "bond_v2", "usyc", "erc8004_adapter", "exploit_bounty",
      "training_compensation", "rights_claim_bond", "session_guard", "acquisition_catalog"} \subseteq FileNames
  /\ {"BOUNTY_VERIFIER", "INGESTOR", "ACQ_COMPANY", "ACQ_ARTIST"} \subseteq KeyNames
  /\ {"idle", "register", "bond", "post", "pool", "claim", "provision", "wire",
      "wirePool", "upsert", "activate", "company", "fundCompany", "artist",
      "fundArtist", "tracks", "cache", "save"} \subseteq Steps
BY DEF Kinds, FileNames, KeyNames, Steps

(* Everybody is a wallet. *)
LEMMA People == Deployer \in WalletOrNobody /\ Nobody \in WalletOrNobody /\ Agents \subseteq WalletOrNobody
  /\ FreshWallets \subseteq WalletOrNobody
BY DEF WalletOrNobody, Wallets

(* What a script starts from is a file that names nothing. *)
LEMMA EmptyFile == NoFile \in File /\ NoAddresses \in [Kinds -> AddressOrZero] /\ NoFile.at = NoAddresses
BY DeploymentAssumption DEF NoFile, File, NoAddresses, NoWallets, AddressOrZero, WalletOrNobody, DeploymentAssumption

(* Naming an address in a file. *)
LEMMA Naming ==
  ASSUME NEW f \in File, NEW k \in Kinds, NEW a \in AddressOrZero
  PROVE  /\ [f EXCEPT !.at[k] = a] \in File
         /\ [f EXCEPT !.at[k] = a].at = [f.at EXCEPT ![k] = a]
BY DEF File

(* Goto moves the step and nothing else. *)
LEMMA Going ==
  ASSUME run \in Runs, NEW step \in Steps, Goto(step)
  PROVE  run' \in Runs /\ run'.out = run.out /\ run'.script = run.script /\ run'.step = step
BY DEF Runs, Goto

(* GotoWith adds the new contract to what will be saved. *)
LEMMA GoingWith ==
  ASSUME run \in Runs, NEW step \in Steps, NEW k \in Kinds, GotoWith(step, k),
         deployed + 1 \in AddressOrZero
  PROVE  /\ run' \in Runs /\ run'.script = run.script /\ run'.step = step
         /\ run'.out.at = [run.out.at EXCEPT ![k] = deployed + 1]
BY DEF Runs, GotoWith, File

(* The idle operator. *)
LEMMA Idling == Idle \in Runs /\ Idle.out = NoFile /\ Idle.script = "none" /\ Idle.step = "idle"
BY EmptyFile, Names, People DEF Idle, Runs

SameShape ==
  /\ deployed' = deployed
  /\ \A a \in Addresses : contracts'[a].kind = contracts[a].kind /\ contracts'[a].built = contracts[a].built

(* A deployment adds one contract and touches no other. *)
LEMMA NewContractEffect ==
  ASSUME ChainOK, NEW kind \in Kinds, NEW built \in [Kinds -> AddressOrZero], NEW role \in WalletOrNobody,
         NewContract(kind, built, role)
  PROVE  /\ ChainOK'
         /\ deployed + 1 \in Addresses /\ deployed + 1 \in AddressOrZero /\ deployed' = deployed + 1
         /\ contracts'[deployed + 1].kind = kind /\ contracts'[deployed + 1].built = built
         /\ \A a \in Addresses : a # deployed + 1 => contracts'[a] = contracts[a]
BY DeploymentAssumption, People DEF ChainOK, NewContract, Addresses, AddressOrZero, Contract, DeploymentAssumption

(* Registrations and stakes leave kinds and constructor arguments alone... *)
LEMMA MemberEffect ==
  ASSUME ChainOK, NEW a, NEW w \in WalletOrNobody, AddMember(a, w)
  PROVE  ChainOK' /\ SameShape
<1> DEFINE r == [contracts[a] EXCEPT !.members = @ \cup {w}]
<1>1. contracts' = [contracts EXCEPT ![a] = r] /\ deployed' = deployed BY DEF AddMember
<1>2. ASSUME a \in Addresses PROVE r \in Contract /\ r.kind = contracts[a].kind /\ r.built = contracts[a].built
  BY <1>2 DEF ChainOK, Contract
<1> HIDE DEF r
<1> QED BY <1>1, <1>2 DEF ChainOK, SameShape

(* ...and so do roles... *)
LEMMA RoleEffect ==
  ASSUME ChainOK, NEW a, NEW r \in WalletOrNobody \cup AddressOrZero, SetRole(a, r)
  PROVE  ChainOK' /\ SameShape
<1> DEFINE c == [contracts[a] EXCEPT !.role = r]
<1>1. contracts' = [contracts EXCEPT ![a] = c] /\ deployed' = deployed BY DEF SetRole
<1>2. ASSUME a \in Addresses PROVE c \in Contract /\ c.kind = contracts[a].kind /\ c.built = contracts[a].built
  BY <1>2 DEF ChainOK, Contract
<1> HIDE DEF c
<1> QED BY <1>1, <1>2 DEF ChainOK, SameShape

(* Registered tracks leave kinds and constructor arguments alone... *)
LEMMA TracksEffect == ASSUME ChainOK, run \in Runs, RegisterTrack PROVE ChainOK' /\ SameShape
<1>2. run.out.wallets["ACQ_ARTIST"] \in WalletOrNobody BY Names DEF Runs, File
<1>3. PICK t \in Tracks : contracts' = [contracts EXCEPT ![CatalogArtists].tracks[t] =
                                                            run.out.wallets["ACQ_ARTIST"]]
  BY DEF RegisterTrack, Unregistered
<1>4. deployed' = deployed BY DEF RegisterTrack
<1> DEFINE a == CatalogArtists
<1> HIDE DEF a
<1>5. contracts' = [contracts EXCEPT ![a].tracks[t] = run.out.wallets["ACQ_ARTIST"]]
  BY <1>3 DEF a
<1>6. CASE a \in Addresses
  <2>1. contracts[a] \in Contract BY <1>6 DEF ChainOK
  <2>2. [contracts[a] EXCEPT !.tracks[t] = run.out.wallets["ACQ_ARTIST"]] \in Contract
    BY <2>1, <1>2 DEF Contract
  <2>3. [contracts[a] EXCEPT !.tracks[t] = run.out.wallets["ACQ_ARTIST"]].kind = contracts[a].kind
        /\ [contracts[a] EXCEPT !.tracks[t] = run.out.wallets["ACQ_ARTIST"]].built = contracts[a].built
    BY <2>1 DEF Contract
  <2> QED BY <1>5, <1>6, <2>2, <2>3, <1>4 DEF ChainOK, SameShape
<1>7. CASE a \notin Addresses
  <2>1. contracts' = contracts BY <1>5, <1>7 DEF ChainOK
  <2> QED BY <2>1, <1>4 DEF ChainOK, SameShape
<1> QED BY <1>6, <1>7

(* ...and so does a new owner... *)
LEMMA OwnerEffect == ASSUME ChainOK, NEW w \in Agents, TransferOwnership(w) PROVE ChainOK' /\ SameShape
<1>1. PICK a : contracts' = [contracts EXCEPT ![a].owner = w] BY DEF TransferOwnership
<1>2. deployed' = deployed BY DEF TransferOwnership
<1> DEFINE r == [contracts[a] EXCEPT !.owner = w]
<1>3. contracts' = [contracts EXCEPT ![a] = r] BY <1>1
<1>4. ASSUME a \in Addresses PROVE r \in Contract /\ r.kind = contracts[a].kind /\ r.built = contracts[a].built
  BY <1>4, People DEF ChainOK, Contract
<1> HIDE DEF r
<1> QED BY <1>2, <1>3, <1>4 DEF ChainOK, SameShape

(* ...and so does a step off the chain. *)
LEMMA Still == ASSUME ChainOK, UNCHANGED chainVars PROVE ChainOK' /\ SameShape
BY DEF ChainOK, SameShape, chainVars

(* The frames of the steps keep the rest of the type invariant. *)
LEMMA OnlyChainKeeps ==
  ASSUME RestOK, runs \in 0..MaxRuns, OnlyChain
  PROVE  RestOK' /\ runs' \in 0..MaxRuns
BY DEF RestOK, OnlyChain, identityVars
(* The same for the first step of a script. *)
LEMMA OnlyChainAndRunsKeeps ==
  ASSUME RestOK, runs \in 0..MaxRuns, OnlyChainAndRuns, Begin
  PROVE  RestOK' /\ runs' \in 0..MaxRuns
BY DeploymentAssumption DEF RestOK, OnlyChainAndRuns, identityVars, Begin, DeploymentAssumption
(* Saving replaces one file by what the run collected. *)
LEMMA SaveKeeps ==
  ASSUME RestOK, run \in Runs, NEW s \in FileNames, SaveFile(s), runs \in 0..MaxRuns
  PROVE RestOK' /\ runs' \in 0..MaxRuns /\ run' = Idle /\ files' = [files EXCEPT ![s] = run.out]
        /\ UNCHANGED chainVars
BY DEF RestOK, SaveFile, identityVars, Runs

-----------------------------------------------------------------------------
(* What kinds of contract a constructor takes, and what it means for addresses *)
(* to be true of a chain c of d contracts.                                     *)

MayUse(k, l) ==
  \/ k \in {"bond", "bounty", "claim"} /\ l = "registry"
  \/ k = "claim" /\ l = "pool"
  \/ k \in {"adapter", "guard"} /\ l = "bond"
  \/ k = "rights" /\ l = "artists"

Sound(c, d) ==
  \A a \in Addresses : a <= d =>
    c[a].kind \in Kinds /\ \A l \in Kinds : c[a].built[l] # 0 => MayUse(c[a].kind, l)

Fits(c, d, at) ==
  \A k \in Kinds : at[k] # 0 =>
    /\ at[k] <= d
    /\ c[at[k]].kind = k
    /\ \A l \in Kinds : at[l] # 0 /\ c[at[k]].built[l] # 0 => c[at[k]].built[l] = at[l]

Maps == [Kinds -> AddressOrZero]

(* Fits is what FilesDescribeTheChain asks of a file. *)
LEMMA FitsIsDescribes == \A at : Describes(at) <=> Fits(contracts, deployed, at)
BY DEF Describes, Fits

(* Later deployments do not make a set of addresses untrue. *)
LEMMA FitsKept ==
  ASSUME NEW c, NEW e, NEW d \in Nat, NEW m \in Nat, d <= m, NEW at \in Maps, Fits(c, d, at),
         \A a \in Addresses : a <= d => e[a].kind = c[a].kind /\ e[a].built = c[a].built
  PROVE  Fits(e, m, at)
<1> SUFFICES ASSUME NEW k \in Kinds, at[k] # 0
             PROVE  at[k] <= m /\ e[at[k]].kind = k /\ \A l \in Kinds : at[l] # 0 /\ e[at[k]].built[l] # 0 => e[at[k]].built[l] = at[l]
  BY DEF Fits
<1>1. at[k] \in Addresses /\ at[k] <= d
  BY DeploymentAssumption DEF Fits, Maps, Addresses, AddressOrZero, DeploymentAssumption
<1> QED BY <1>1 DEF Fits, Addresses

(* A deployment makes the addresses its script collects true of the chain. *)
LEMMA FitsNew ==
  ASSUME NEW c, NEW e, NEW d \in Nat, d + 1 \in Addresses, NEW at \in Maps, Fits(c, d, at),
         NEW kind \in Kinds, NEW built \in Maps,
         \A a \in Addresses : a <= d => e[a] = c[a],
         e[d + 1].kind = kind, e[d + 1].built = built,
         \A l \in Kinds : at[l] # 0 /\ built[l] # 0 => built[l] = at[l],
         built[kind] = 0,
         Sound(c, d),
         \A k \in Kinds : MayUse(k, kind) => at[k] = 0
  PROVE  Fits(e, d + 1, [at EXCEPT ![kind] = d + 1])
<1> DEFINE new == [at EXCEPT ![kind] = d + 1]
<1>0. \A k \in Kinds : new[k] = IF k = kind THEN d + 1 ELSE at[k]
  BY DEF Maps
<1> HIDE DEF new
<1> SUFFICES ASSUME NEW k \in Kinds, new[k] # 0
             PROVE  new[k] <= d + 1 /\ e[new[k]].kind = k /\ \A l \in Kinds : new[l] # 0 /\ e[new[k]].built[l] # 0 => e[new[k]].built[l] = new[l]
  BY DEF Fits, new
<1>1. CASE k = kind
  <2>1. new[k] = d + 1 BY <1>0, <1>1
  <2>2. \A l \in Kinds : new[l] # 0 /\ built[l] # 0 => built[l] = new[l] BY <1>0
  <2> QED BY <2>1, <2>2, <1>1
<1>2. CASE k # kind
  <2>1. new[k] = at[k] /\ at[k] # 0 BY <1>0, <1>2
  <2>2. at[k] \in Addresses /\ at[k] <= d
    BY <2>1, DeploymentAssumption DEF Fits, Maps, Addresses, AddressOrZero, DeploymentAssumption
  <2>3. e[at[k]] = c[at[k]] BY <2>2
  <2>4. c[at[k]].kind = k BY <2>1 DEF Fits
  <2>5. c[at[k]].built[kind] = 0 BY <2>2, <2>4, <2>1 DEF Sound
  <2>6. \A l \in Kinds : new[l] # 0 /\ c[at[k]].built[l] # 0 => c[at[k]].built[l] = new[l]
    BY <1>0, <2>5, <2>1 DEF Fits
  <2> QED BY <2>1, <2>2, <2>3, <2>4, <2>6 DEF Addresses
<1> QED BY <1>1, <1>2

(* No addresses fit. *)
LEMMA FitsNone == ASSUME NEW c, NEW d PROVE Fits(c, d, NoAddresses)
BY DEF Fits, NoAddresses

(* One address of a set that fits, fits. *)
LEMMA FitsOne ==
  ASSUME NEW c, NEW d, NEW at \in Maps, Fits(c, d, at), NEW k \in Kinds
  PROVE  Fits(c, d, [NoAddresses EXCEPT ![k] = at[k]])
<1>1. \A l \in Kinds : [NoAddresses EXCEPT ![k] = at[k]][l] = IF l = k THEN at[k] ELSE 0
  BY DEF NoAddresses
<1> QED BY <1>1 DEF Fits

(* Constructor arguments stay of the kinds the constructors take... *)
LEMMA SoundKept ==
  ASSUME NEW c, NEW e, NEW d, Sound(c, d),
         \A a \in Addresses : a <= d => e[a].kind = c[a].kind /\ e[a].built = c[a].built
  PROVE  Sound(e, d)
BY DEF Sound

(* ...and those of a new contract are. *)
LEMMA SoundNew ==
  ASSUME NEW c, NEW e, NEW d \in Nat, d + 1 \in Addresses, Sound(c, d), NEW kind \in Kinds, NEW built,
         \A a \in Addresses : a <= d => e[a] = c[a],
         e[d + 1].kind = kind, e[d + 1].built = built,
         \A l \in Kinds : built[l] # 0 => MayUse(kind, l)
  PROVE  Sound(e, d + 1)
<1> SUFFICES ASSUME NEW a \in Addresses, a <= d + 1 
    PROVE e[a].kind \in Kinds /\ \A l \in Kinds : e[a].built[l] # 0 => MayUse(e[a].kind, l)
  BY DEF Sound
<1>1. a <= d \/ a = d + 1 BY DEF Addresses
<1> QED BY <1>1 DEF Sound

Rest == RestOK /\ runs \in 0..MaxRuns

(* What the running script has collected fits too, and steps that deploy find *)
(* nothing collected that would be built on what they deploy.                 *)
RunFits ==
  /\ Fits(contracts, deployed, run.out.at)
  /\ run.script \in {"standalone", "network"} => run.out.at["adapter"] = 0 /\ run.out.at["guard"] = 0
  /\ run.script = "training_compensation" /\ run.step = "pool" => run.out.at["claim"] = 0

(* The inductive invariant. *)
Inv ==
  /\ ChainOK /\ run \in Runs /\ Rest
  /\ Sound(contracts, deployed)
  /\ \A n \in FileNames : Fits(contracts, deployed, files[n].at)
  /\ RunFits

(* Types of what files and the run name. *)
LEMMA AtTypes == ASSUME Inv PROVE run.out.at \in Maps /\ (\A n \in FileNames : files[n].at \in Maps) /\ deployed \in Nat
BY DeploymentAssumption DEF Inv, Runs, RestOK, Rest, ChainOK, File, Maps, AddressOrZero, DeploymentAssumption

(* Steps that deploy nothing keep every set of addresses true. *)
LEMMA ShapeKeepsFits ==
  ASSUME Inv, ChainOK', SameShape, NEW at \in Maps, Fits(contracts, deployed, at)
  PROVE  Fits(contracts', deployed', at)
BY AtTypes, FitsKept DEF SameShape

(* A step in the middle of a script that deploys nothing. *)
LEMMA QuietStep ==
  ASSUME Inv, ChainOK', SameShape, Rest', run' \in Runs, files' = files,
         run'.out.at = run.out.at, run'.script = run.script, run'.step # "pool"
  PROVE  Inv'
<1>1. Sound(contracts', deployed') BY SoundKept DEF Inv, SameShape
<1>2. \A n \in FileNames : Fits(contracts', deployed', files'[n].at)
  BY AtTypes, ShapeKeepsFits DEF Inv
<1>3. RunFits' BY AtTypes, ShapeKeepsFits DEF Inv, RunFits
<1> QED BY <1>1, <1>2, <1>3 DEF Inv

(* The last step of a script, saved or not. *)
LEMMA IdleStep ==
  ASSUME Inv, ChainOK', SameShape, Rest', run' = Idle,
         \A n \in FileNames : files'[n].at = files[n].at \/ files'[n].at = run.out.at
  PROVE  Inv'
<1>1. Sound(contracts', deployed') BY SoundKept DEF Inv, SameShape
<1>2. \A n \in FileNames : Fits(contracts', deployed', files'[n].at)
  BY AtTypes, ShapeKeepsFits DEF Inv, RunFits
<1>3. RunFits' BY FitsNone, Idling, EmptyFile DEF RunFits
<1> QED BY <1>1, <1>2, <1>3, Idling DEF Inv

(* The first step of a script that deploys nothing yet. *)
LEMMA StartStep ==
  ASSUME Inv, UNCHANGED chainVars, Rest', run' \in Runs, files' = files,
         Fits(contracts, deployed, run'.out.at),
         run'.out.at["adapter"] = 0, run'.out.at["guard"] = 0, run'.out.at["claim"] = 0
  PROVE  Inv'
<1>1. contracts' = contracts /\ deployed' = deployed BY DEF chainVars
<1>2. ChainOK' /\ Sound(contracts', deployed') BY <1>1 DEF Inv, ChainOK
<1>3. \A n \in FileNames : Fits(contracts', deployed', files'[n].at) BY <1>1 DEF Inv
<1>4. RunFits' BY <1>1 DEF RunFits
<1> QED BY <1>2, <1>3, <1>4 DEF Inv

(* A step that deploys a contract. *)
LEMMA GrowStep ==
  ASSUME Inv, Rest', run' \in Runs, files' = files,
         NEW kind \in Kinds, NEW built \in Maps, NEW role \in WalletOrNobody,
         NewContract(kind, built, role),
         NEW at \in Maps, Fits(contracts, deployed, at),
         run'.out.at = [at EXCEPT ![kind] = deployed + 1],
         \A l \in Kinds : at[l] # 0 /\ built[l] # 0 => built[l] = at[l],
         \A l \in Kinds : built[l] # 0 => MayUse(kind, l),
         \A k \in Kinds : MayUse(k, kind) => at[k] = 0,
         run'.script \in {"standalone", "network"} => kind = "bond" \/ kind = "registry",
         run'.script \in {"standalone", "network"} => at["adapter"] = 0 /\ at["guard"] = 0,
         run'.script = "training_compensation" /\ run'.step = "pool" => kind = "artists" /\ at["claim"] = 0
  PROVE  Inv'
<1>1. /\ ChainOK' /\ deployed + 1 \in Addresses /\ deployed' = deployed + 1
      /\ contracts'[deployed + 1].kind = kind /\ contracts'[deployed + 1].built = built
      /\ \A a \in Addresses : a # deployed + 1 => contracts'[a] = contracts[a]
  BY NewContractEffect DEF Inv, Maps
<1>2. deployed \in Nat /\ \A a \in Addresses : a <= deployed => contracts'[a] = contracts[a]
  BY <1>1, AtTypes DEF Addresses
<1>3. built[kind] = 0
  BY DEF MayUse
<1>4. Sound(contracts', deployed')
  BY <1>1, <1>2, SoundNew DEF Inv
<1>5. \A n \in FileNames : Fits(contracts', deployed', files'[n].at)
  <2> SUFFICES ASSUME NEW n \in FileNames PROVE Fits(contracts', deployed + 1, files[n].at)
    BY <1>1
  <2>1. files[n].at \in Maps /\ Fits(contracts, deployed, files[n].at) BY AtTypes DEF Inv
  <2>2. deployed + 1 \in Nat /\ deployed <= deployed + 1 BY <1>2
  <2>3. \A a \in Addresses : a <= deployed =>
          contracts'[a].kind = contracts[a].kind /\ contracts'[a].built = contracts[a].built
    BY <1>2
  <2> DEFINE D == deployed + 1
  <2> HIDE DEF D
  <2>4. D \in Nat /\ deployed <= D BY <2>2 DEF D
  <2>5. Fits(contracts', D, files[n].at) BY <2>1, <2>3, <2>4, <1>2, FitsKept
  <2> QED BY <2>5 DEF D
<1>6. Fits(contracts', deployed', run'.out.at)
  BY <1>1, <1>2, <1>3, FitsNew DEF Inv
<1>7. RunFits'
  BY <1>6, Names DEF RunFits, Maps
<1> QED BY <1>1, <1>4, <1>5, <1>7 DEF Inv

(* The record of a script that has just started. *)
LEMMA Starting ==
  ASSUME NEW s \in FileNames, NEW step \in Steps, NEW w \in WalletOrNobody, NEW out \in File
  PROVE  [script |-> s, step |-> step, wallet |-> w, out |-> out] \in Runs
BY DEF Runs

(* A registry of the environment fits. *)
LEMMA FitsRegistry ==
  ASSUME Inv, NEW r \in Registries
  PROVE  r \in AddressOrZero /\ Fits(contracts, deployed, [NoAddresses EXCEPT !["registry"] = r])
<1>1. r \in Addresses /\ r <= deployed /\ contracts[r].kind = "registry"
  BY DeploymentAssumption DEF Inv, ChainOK, Registries, Addresses, AddressOrZero, DeploymentAssumption
<1>2. \A l \in Kinds : contracts[r].built[l] = 0
  BY <1>1 DEF Inv, Sound, MayUse
<1>3. \A l \in Kinds : [NoAddresses EXCEPT !["registry"] = r][l] = IF l = "registry" THEN r ELSE 0
  BY DEF NoAddresses
<1> QED BY <1>1, <1>2, <1>3 DEF Fits, Addresses, AddressOrZero

(* What a contract is built on when its script has read one address of a file. *)
LEMMA Reading ==
  ASSUME Inv, NEW n \in FileNames, NEW l \in Kinds
  PROVE  LET a == files[n].at[l] IN
         /\ a \in AddressOrZero
         /\ [NoAddresses EXCEPT ![l] = a] \in Maps
         /\ \A k \in Kinds : [NoAddresses EXCEPT ![l] = a][k] = IF k = l THEN a ELSE 0
         /\ Fits(contracts, deployed, [NoAddresses EXCEPT ![l] = a])
<1>1. files[n].at \in Maps /\ Fits(contracts, deployed, files[n].at) BY AtTypes DEF Inv
<1>2. files[n].at[l] \in AddressOrZero BY <1>1 DEF Maps
<1>3. [NoAddresses EXCEPT ![l] = files[n].at[l]] \in Maps BY <1>2, EmptyFile DEF Maps
<1>4. \A k \in Kinds : [NoAddresses EXCEPT ![l] = files[n].at[l]][k] = IF k = l THEN files[n].at[l] ELSE 0
  BY DEF NoAddresses
<1> QED BY <1>1, <1>2, <1>3, <1>4, FitsOne

(* What the run has made is an address. *)
LEMMA MadeType == ASSUME Inv, NEW k \in Kinds PROVE Made(k) \in AddressOrZero /\ Made(k) = run.out.at[k]
BY AtTypes DEF Made, Maps

(* The constructor arguments of a contract that takes none. *)
LEMMA NoneMap == NoAddresses \in Maps /\ \A k \in Kinds : NoAddresses[k] = 0
BY EmptyFile DEF Maps, NoAddresses

(* The types, out of the invariant. *)
LEMMA InvTyped == ASSUME Inv PROVE ChainOK /\ run \in Runs /\ RestOK /\ runs \in 0..MaxRuns /\ run.wallet \in WalletOrNobody
BY DEF Inv, Rest, Runs

(* Saving keeps the invariant. *)
LEMMA SavingStep == ASSUME Inv, NEW s \in FileNames, SaveFile(s) PROVE Inv'
<1>1. Rest' /\ run' = Idle /\ files' = [files EXCEPT ![s] = run.out] /\ UNCHANGED chainVars
  BY InvTyped, SaveKeeps DEF Rest
<1>2. \A n \in FileNames : files'[n].at = files[n].at \/ files'[n].at = run.out.at
  BY <1>1, InvTyped DEF RestOK
<1> QED BY <1>1, <1>2, Still, InvTyped, IdleStep

(* The constructor arguments of a contract on a registry. *)
LEMMA BuildingOnRegistry ==
  ASSUME Inv, NEW r \in AddressOrZero
  PROVE  /\ [NoAddresses EXCEPT !["registry"] = r] \in Maps
         /\ \A k \in Kinds : [NoAddresses EXCEPT !["registry"] = r][k] = IF k = "registry" THEN r ELSE 0
BY EmptyFile DEF Maps, NoAddresses

(* The bond of deploy_standalone.js and deploy.js. *)
LEMMA BondOfRun ==
  ASSUME Inv, Rest', files' = files, run.script \in {"standalone", "network"},
         DeployBond(Made("registry")), GotoWith("post", "bond")
  PROVE  Inv'
<1> DEFINE built == [NoAddresses EXCEPT !["registry"] = Made("registry")]
<1>1. NewContract("bond", built, Deployer) BY DEF DeployBond
<1>2. built \in Maps /\ \A k \in Kinds : built[k] = IF k = "registry" THEN run.out.at["registry"] ELSE 0
  BY BuildingOnRegistry, MadeType, Names
<1> HIDE DEF built
<1>3. deployed + 1 \in AddressOrZero BY <1>1, <1>2, NewContractEffect, InvTyped, Names, People DEF Maps
<1>4. run' \in Runs /\ run'.script = run.script /\ run'.step = "post"
      /\ run'.out.at = [run.out.at EXCEPT !["bond"] = deployed + 1]
  BY <1>3, GoingWith, InvTyped, Names
<1>5. run.out.at \in Maps /\ Fits(contracts, deployed, run.out.at)
      /\ run.out.at["adapter"] = 0 /\ run.out.at["guard"] = 0
  BY AtTypes DEF Inv, RunFits
<1>6. /\ \A l \in Kinds : run.out.at[l] # 0 /\ built[l] # 0 => built[l] = run.out.at[l]
      /\ \A l \in Kinds : built[l] # 0 => MayUse("bond", l)
      /\ \A k \in Kinds : MayUse(k, "bond") => run.out.at[k] = 0
  BY <1>2, <1>5 DEF MayUse
<1> QED BY <1>1, <1>2, <1>4, <1>5, <1>6, GrowStep, Names, People

(* The scripts that deploy a stack keep the invariant. *)
LEMMA StackStep == ASSUME Inv, Stack PROVE Inv'
<1> USE InvTyped, Names, People
<1>1. CASE StandaloneRegistry
  <2>1. Rest' /\ files' = files BY <1>1, OnlyChainAndRunsKeeps DEF StandaloneRegistry, Rest, OnlyChainAndRuns
  <2>2. deployed + 1 \in AddressOrZero /\ NewContract("registry", NoAddresses, Nobody)
    BY <1>1, NewContractEffect, EmptyFile DEF StandaloneRegistry
  <2>3. [NoFile EXCEPT !.at["registry"] = deployed + 1] \in File
        /\ [NoFile EXCEPT !.at["registry"] = deployed + 1].at = [NoAddresses EXCEPT !["registry"] = deployed + 1]
    BY <2>2, Naming, EmptyFile
  <2>4. run' \in Runs /\ run'.script = "standalone" /\ run'.step = "register"
        /\ run'.out.at = [NoAddresses EXCEPT !["registry"] = deployed + 1]
    BY <1>1, <2>3, Starting DEF StandaloneRegistry
  <2> QED BY <2>1, <2>2, <2>4, GrowStep, NoneMap, FitsNone DEF MayUse
<1>2. CASE StandaloneRegister
  <2>1. Rest' /\ files' = files BY <1>2, OnlyChainKeeps DEF StandaloneRegister, Rest, OnlyChain
  <2>2. ChainOK' /\ SameShape BY <1>2, MemberEffect DEF StandaloneRegister, RegisterAgent
  <2>3. run' \in Runs /\ run'.out = run.out /\ run'.script = run.script /\ run'.step = "bond"
    BY <1>2, Going DEF StandaloneRegister
  <2> QED BY <2>1, <2>2, <2>3, QuietStep
<1>3. CASE StandaloneBond
  <2>1. Rest' /\ files' = files BY <1>3, OnlyChainKeeps DEF StandaloneBond, Rest, OnlyChain
  <2> QED BY <1>3, <2>1, BondOfRun DEF StandaloneBond, At
<1>4. CASE StandalonePost
  <2>1. Rest' /\ files' = files BY <1>4, OnlyChainKeeps DEF StandalonePost, Rest, OnlyChain
  <2>2. ChainOK' /\ SameShape BY <1>4, MemberEffect DEF StandalonePost
  <2>3. run' \in Runs /\ run'.out = run.out /\ run'.script = run.script /\ run'.step = "save"
    BY <1>4, Going DEF StandalonePost
  <2> QED BY <2>1, <2>2, <2>3, QuietStep
<1>5. CASE SaveStandalone
  BY <1>5, SavingStep DEF SaveStandalone
<1>6. CASE NetworkMockRegistry
  <2>1. Rest' /\ files' = files BY <1>6, OnlyChainAndRunsKeeps DEF NetworkMockRegistry, Rest, OnlyChainAndRuns
  <2>2. deployed + 1 \in AddressOrZero /\ NewContract("registry", NoAddresses, Nobody)
    BY <1>6, NewContractEffect, EmptyFile DEF NetworkMockRegistry
  <2>3. [NoFile EXCEPT !.at["registry"] = deployed + 1] \in File
        /\ [NoFile EXCEPT !.at["registry"] = deployed + 1].at = [NoAddresses EXCEPT !["registry"] = deployed + 1]
    BY <2>2, Naming, EmptyFile
  <2>4. run' \in Runs /\ run'.script = "network" /\ run'.step = "register"
        /\ run'.out.at = [NoAddresses EXCEPT !["registry"] = deployed + 1]
    BY <1>6, <2>3, Starting DEF NetworkMockRegistry
  <2> QED BY <2>1, <2>2, <2>4, GrowStep, NoneMap, FitsNone DEF MayUse
<1>7. CASE NetworkVerify
  <2>1. Rest' /\ files' = files BY <1>7, OnlyChainKeeps DEF NetworkVerify, Rest, OnlyChain
  <2>2. ChainOK' /\ SameShape BY <1>7, MemberEffect DEF NetworkVerify, RegisterAgent
  <2>3. run' \in Runs /\ run'.out = run.out /\ run'.script = run.script /\ run'.step = "bond"
    BY <1>7, Going DEF NetworkVerify
  <2> QED BY <2>1, <2>2, <2>3, QuietStep
<1>8. CASE NetworkLiveRegistry
  <2>1. Rest' /\ files' = files /\ UNCHANGED chainVars
    BY <1>8, OnlyChainAndRunsKeeps DEF NetworkLiveRegistry, Rest, OnlyChainAndRuns
  <2>2. PICK r \in Registries :
          run' = [script |-> "network", step |-> "bond", wallet |-> Deployer,
                  out |-> [NoFile EXCEPT !.at["registry"] = r]]
    BY <1>8 DEF NetworkLiveRegistry
  <2>3. [NoFile EXCEPT !.at["registry"] = r] \in File
        /\ [NoFile EXCEPT !.at["registry"] = r].at = [NoAddresses EXCEPT !["registry"] = r]
    BY FitsRegistry, Naming, EmptyFile
  <2>4. run' \in Runs /\ run'.out.at = [NoAddresses EXCEPT !["registry"] = r]
    BY <2>2, <2>3, Starting
  <2>5. run'.out.at["adapter"] = 0 /\ run'.out.at["guard"] = 0 /\ run'.out.at["claim"] = 0
    BY <2>4 DEF NoAddresses
  <2> QED BY <2>1, <2>4, <2>5, FitsRegistry, StartStep
<1>9. CASE NetworkBond
  <2>1. Rest' /\ files' = files BY <1>9, OnlyChainKeeps DEF NetworkBond, Rest, OnlyChain
  <2> QED BY <1>9, <2>1, BondOfRun DEF NetworkBond, At
<1>10. CASE NetworkPost
  <2>1. Rest' /\ files' = files BY <1>10, OnlyChainKeeps DEF NetworkPost, Rest, OnlyChain
  <2>2. ChainOK' /\ SameShape BY <1>10, MemberEffect DEF NetworkPost
  <2>3. run' \in Runs /\ run'.out = run.out /\ run'.script = run.script /\ run'.step = "save"
    BY <1>10, Going DEF NetworkPost
  <2> QED BY <2>1, <2>2, <2>3, QuietStep
<1>11. CASE SaveNetwork
  BY <1>11, SavingStep DEF SaveNetwork
<1> QED
  BY <1>1, <1>2, <1>3, <1>4, <1>5, <1>6, <1>7, <1>8, <1>9, <1>10, <1>11 DEF Stack

\* A file that names two contracts, and what it names.
FileOfTwo(k, a, l, b) == [NoFile EXCEPT !.at[k] = a, !.at[l] = b]
MapOfTwo(k, a, l, b) == [NoAddresses EXCEPT ![k] = a, ![l] = b]

(* Naming two addresses in an empty file. *)
LEMMA NamingTwo ==
  ASSUME NEW k \in Kinds, NEW a \in AddressOrZero, NEW l \in Kinds, NEW b \in AddressOrZero
  PROVE  FileOfTwo(k, a, l, b) \in File /\ FileOfTwo(k, a, l, b).at = MapOfTwo(k, a, l, b)
BY EmptyFile DEF File, NoFile, FileOfTwo, MapOfTwo

(* A script that builds on one address of one file. *)
LEMMA OnOneFile ==
  ASSUME Inv, Rest', files' = files,
         NEW s \in FileNames \ {"standalone", "network", "training_compensation"}, NEW step \in Steps,
         NEW w \in WalletOrNobody, NEW role \in WalletOrNobody,
         NEW n \in FileNames, NEW l \in Kinds, NEW kind \in Kinds, kind # l,
         \A k \in Kinds : MayUse(k, kind) => k # l, MayUse(kind, l),
         NewContract(kind, [NoAddresses EXCEPT ![l] = files[n].at[l]], role),
         run' = [script |-> s, step |-> step, wallet |-> w,
                 out |-> [NoFile EXCEPT !.at[l] = files[n].at[l], !.at[kind] = deployed + 1]]
  PROVE  Inv'
<1> DEFINE built == [NoAddresses EXCEPT ![l] = files[n].at[l]]
<1>1. files[n].at[l] \in AddressOrZero /\ built \in Maps /\ Fits(contracts, deployed, built)
      /\ \A k \in Kinds : built[k] = IF k = l THEN files[n].at[l] ELSE 0
  BY Reading
<1>2. deployed + 1 \in AddressOrZero
  <2> HIDE DEF built
  <2>1. NewContract(kind, built, role) BY DEF built
  <2> QED BY <2>1, <1>1, NewContractEffect, InvTyped DEF Maps
<1>3. run' \in Runs /\ run'.script = s /\ run'.out.at = [built EXCEPT ![kind] = deployed + 1]
  <2> DEFINE out == [NoFile EXCEPT !.at[l] = files[n].at[l], !.at[kind] = deployed + 1]
  <2>1. /\ FileOfTwo(l, files[n].at[l], kind, deployed + 1) \in File
        /\ FileOfTwo(l, files[n].at[l], kind, deployed + 1).at = MapOfTwo(l, files[n].at[l], kind, deployed + 1)
    BY <1>1, <1>2, NamingTwo
  <2>2. out = FileOfTwo(l, files[n].at[l], kind, deployed + 1) BY DEF FileOfTwo
  <2>3. [built EXCEPT ![kind] = deployed + 1] = MapOfTwo(l, files[n].at[l], kind, deployed + 1)
    BY DEF MapOfTwo
  <2>4. out \in File /\ out.at = [built EXCEPT ![kind] = deployed + 1] BY <2>1, <2>2, <2>3
  <2> QED BY <2>4, Starting
<1>4. NewContract(kind, built, role) OBVIOUS
<1> HIDE DEF built
<1>5. /\ \A k \in Kinds : built[k] # 0 => MayUse(kind, k)
      /\ \A k \in Kinds : MayUse(k, kind) => built[k] = 0
  BY <1>1
<1> QED BY <1>1, <1>3, <1>4, <1>5, GrowStep

(* A role transaction in the middle of a script. *)
LEMMA RoleAndOn ==
  ASSUME Inv, OnlyChain, NEW step \in Steps, step # "pool", Goto(step),
         NEW a, NEW r \in WalletOrNobody \cup AddressOrZero, SetRole(a, r)
  PROVE  Inv'
<1>1. Rest' /\ files' = files BY InvTyped, OnlyChainKeeps DEF Rest, OnlyChain
<1>2. ChainOK' /\ SameShape BY InvTyped, RoleEffect
<1>3. run' \in Runs /\ run'.out = run.out /\ run'.script = run.script /\ run'.step = step
  BY InvTyped, Going
<1> QED BY <1>1, <1>2, <1>3, QuietStep

(* A registration or a stake in the middle of a script. *)
LEMMA MemberAndOn ==
  ASSUME Inv, OnlyChain, NEW step \in Steps, step # "pool", Goto(step),
         NEW a, NEW w \in WalletOrNobody, AddMember(a, w)
  PROVE  Inv'
<1>1. Rest' /\ files' = files BY InvTyped, OnlyChainKeeps DEF Rest, OnlyChain
<1>2. ChainOK' /\ SameShape BY InvTyped, MemberEffect
<1>3. run' \in Runs /\ run'.out = run.out /\ run'.script = run.script /\ run'.step = step
  BY InvTyped, Going
<1> QED BY <1>1, <1>2, <1>3, QuietStep

(* An exception ends a script. *)
LEMMA AbortStep == ASSUME Inv, Abort PROVE Inv'
<1>1. Rest' /\ files' = files /\ run' = Idle /\ UNCHANGED chainVars
  BY InvTyped DEF Rest, RestOK, Abort, identityVars
<1> QED BY <1>1, Still, InvTyped, IdleStep

(* The scripts that build one more contract keep the invariant. *)
LEMMA UpgradesStep == ASSUME Inv, Upgrades PROVE Inv'
<1> USE InvTyped, Names, People
<1>1. CASE BondV2
  <2>1. Rest' /\ files' = files BY <1>1, OnlyChainAndRunsKeeps DEF BondV2, Rest, OnlyChainAndRuns
  <2> QED BY <1>1, <2>1, OnOneFile DEF BondV2, DeployBond, MayUse
<1>2. CASE Adapter
  <2>1. Rest' /\ files' = files BY <1>2, OnlyChainAndRunsKeeps DEF Adapter, Rest, OnlyChainAndRuns
  <2>2. PICK n \in FileNames :
          /\ NewContract("adapter", [NoAddresses EXCEPT !["bond"] = files[n].at["bond"]], Nobody)
          /\ run' = [script |-> "erc8004_adapter", step |-> "save", wallet |-> Deployer,
                     out |-> [NoFile EXCEPT !.at["bond"] = files[n].at["bond"], !.at["adapter"] = deployed + 1]]
    BY <1>2 DEF Adapter
  <2> QED BY <2>1, <2>2, OnOneFile DEF MayUse
<1>3. CASE RightsClaimBond
  <2>1. Rest' /\ files' = files BY <1>3, OnlyChainAndRunsKeeps DEF RightsClaimBond, Rest, OnlyChainAndRuns
  <2> QED BY <1>3, <2>1, OnOneFile DEF RightsClaimBond, MayUse
<1>4. CASE SessionGuard
  <2>1. Rest' /\ files' = files BY <1>4, OnlyChainAndRunsKeeps DEF SessionGuard, Rest, OnlyChainAndRuns
  <2>2. PICK step \in {"activate", "save"} :
          /\ NewContract("guard", [NoAddresses EXCEPT !["bond"] = files["standalone"].at["bond"]], Nobody)
          /\ run' = [script |-> "session_guard", step |-> step, wallet |-> Deployer,
                     out |-> [NoFile EXCEPT !.at["bond"] = files["standalone"].at["bond"],
                                            !.at["guard"] = deployed + 1]]
    BY <1>4 DEF SessionGuard
  <2>3. step \in Steps /\ \A k \in Kinds : ~MayUse(k, "guard")
    BY DEF MayUse
  <2> QED BY <2>1, <2>2, <2>3, OnOneFile DEF MayUse
<1>5. CASE ActivateGuard
  BY <1>5, RoleAndOn, MadeType DEF ActivateGuard
<1>6. CASE ActivationReverts
  BY <1>6, AbortStep DEF ActivationReverts
<1>7. CASE SaveBondV2 \/ SaveAdapter \/ SaveRightsClaimBond \/ SaveSessionGuard \/ SaveUsyc
  BY <1>7, SavingStep DEF SaveBondV2, SaveAdapter, SaveRightsClaimBond, SaveSessionGuard, SaveUsyc
<1>8. CASE UsycBond
  <2>1. Rest' /\ files' = files BY <1>8, OnlyChainAndRunsKeeps DEF UsycBond, Rest, OnlyChainAndRuns
  <2>2. PICK r \in Registries :
          /\ NewContract("bond", [NoAddresses EXCEPT !["registry"] = r], Deployer)
          /\ run' = [script |-> "usyc", step |-> "post", wallet |-> Deployer,
                     out |-> [NoFile EXCEPT !.at["bond"] = deployed + 1]]
    BY <1>8 DEF UsycBond, DeployBond
  <2> DEFINE built == [NoAddresses EXCEPT !["registry"] = r]
  <2>3. built \in Maps /\ \A k \in Kinds : built[k] = IF k = "registry" THEN r ELSE 0
    BY FitsRegistry, BuildingOnRegistry
  <2>4. deployed + 1 \in AddressOrZero BY <2>2, <2>3, NewContractEffect DEF Maps
  <2>5. run' \in Runs /\ run'.script = "usyc"
        /\ run'.out.at = [NoAddresses EXCEPT !["bond"] = deployed + 1]
    <3>1. [NoFile EXCEPT !.at["bond"] = deployed + 1] \in File
          /\ [NoFile EXCEPT !.at["bond"] = deployed + 1].at = [NoAddresses EXCEPT !["bond"] = deployed + 1]
      BY <2>4, Naming, EmptyFile
    <3> QED BY <2>2, <3>1, Starting
  <2>6. NewContract("bond", built, Deployer) BY <2>2
  <2> HIDE DEF built
  <2>7. \A l \in Kinds : built[l] # 0 => MayUse("bond", l) BY <2>3 DEF MayUse
  <2> QED BY <2>1, <2>3, <2>5, <2>6, <2>7, NoneMap, FitsNone, GrowStep
<1>9. CASE UsycPost
  BY <1>9, MemberAndOn DEF UsycPost
<1>10. CASE UsycUnposted
  <2>1. Rest' /\ files' = files /\ UNCHANGED chainVars
    BY <1>10, OnlyChainKeeps DEF UsycUnposted, Rest, OnlyChain
  <2>2. run' \in Runs /\ run'.out = run.out /\ run'.script = run.script /\ run'.step = "save"
    BY <1>10, Going DEF UsycUnposted
  <2> QED BY <2>1, <2>2, Still, QuietStep
<1>11. CASE PostReverts
  BY <1>11, AbortStep DEF PostReverts
<1> QED
  BY <1>1, <1>2, <1>3, <1>4, <1>5, <1>6, <1>7, <1>8, <1>9, <1>10, <1>11 DEF Upgrades

(* Generating or reusing a wallet. *)
LEMMA ProvisionStep ==
  ASSUME Inv, NEW name \in KeyNames, NEW step \in Steps \ {"pool"}, Provision(name, step),
         UNCHANGED <<chainVars, files, env, identityVars, runs, crashes, overwritten>>
  PROVE  Inv'
<1>1. PICK w \in GenerateOrReuse(name), known \in BOOLEAN :
        /\ funded' = IF known THEN funded ELSE funded \cup {w}
        /\ run' = [run EXCEPT !.wallet = w, !.out.wallets[name] = w,
                              !.step = IF known THEN step ELSE "register"]
  BY DEF Provision
<1>2. w \in WalletOrNobody
  BY InvTyped, People DEF GenerateOrReuse, RestOK, Fresh
<1>3. run' \in Runs /\ run'.out.at = run.out.at /\ run'.script = run.script /\ run'.step # "pool"
  BY <1>1, <1>2, InvTyped, Names DEF Runs, File
<1>4. Rest' /\ UNCHANGED chainVars /\ files' = files
  BY <1>1, <1>2, InvTyped DEF Rest, RestOK, identityVars
<1> QED BY <1>3, <1>4, Still, InvTyped, QuietStep

(* Writing a key. *)
LEMMA UpsertStep ==
  ASSUME Inv, NEW f \in {"root", "acquisition"}, NEW name \in KeyNames, Upsert(f, name, run.wallet),
         NEW step \in Steps, step # "pool", Goto(step),
         UNCHANGED <<chainVars, files, funded, identityVars, runs, crashes, overwritten>>
  PROVE  Inv'
<1>1. Rest' /\ UNCHANGED chainVars /\ files' = files
  BY InvTyped DEF Rest, RestOK, identityVars, Upsert
<1>2. run' \in Runs /\ run'.out = run.out /\ run'.script = run.script /\ run'.step = step
  BY InvTyped, Going
<1> QED BY <1>1, <1>2, Still, InvTyped, QuietStep

(* getOrCreateWallet of the catalog. *)
LEMMA WalletStep ==
  ASSUME Inv, NEW name \in KeyNames, NEW step \in Steps \ {"pool"}, GetOrCreateWallet(name, step)
  PROVE  Inv'
<1>1. PICK w \in GenerateOrReuse(name) :
        /\ Upsert("acquisition", name, w)
        /\ overwritten' \in {overwritten, overwritten + 1}
        /\ run' = [run EXCEPT !.wallet = w, !.out.wallets[name] = w, !.step = step]
        /\ UNCHANGED <<chainVars, files, funded, identityVars, runs, crashes>>
  BY DEF GetOrCreateWallet
<1>2. w \in WalletOrNobody
  BY InvTyped, People DEF GenerateOrReuse, RestOK, Fresh
<1>3. run' \in Runs /\ run'.out.at = run.out.at /\ run'.script = run.script /\ run'.step # "pool"
  BY <1>1, <1>2, InvTyped DEF Runs, File
<1>4. Rest' /\ UNCHANGED chainVars /\ files' = files
  BY <1>1, <1>2, InvTyped DEF Rest, RestOK, identityVars, Upsert
<1> QED BY <1>3, <1>4, Still, InvTyped, QuietStep

(* Funding a wallet of the catalog. *)
LEMMA FundStep ==
  ASSUME Inv, NEW step \in Steps \ {"pool"}, Fund(step)
  PROVE  Inv'
<1>1. Rest' /\ UNCHANGED chainVars /\ files' = files
  BY InvTyped DEF Rest, RestOK, identityVars, Fund
<1>2. run' \in Runs /\ run'.out = run.out /\ run'.script = run.script /\ run'.step = step
  BY InvTyped, Going DEF Fund
<1> QED BY <1>1, <1>2, Still, InvTyped, QuietStep

(* The scripts of the bounty, the rail and the catalog keep the invariant. *)
LEMMA VerticalsStep == ASSUME Inv, Verticals PROVE Inv'
<1> USE InvTyped, Names, People
<1>1. CASE Bounty
  <2>1. Rest' /\ files' = files BY <1>1, OnlyChainAndRunsKeeps DEF Bounty, Rest, OnlyChainAndRuns
  <2> QED BY <1>1, <2>1, OnOneFile DEF Bounty, MayUse
<1>2. CASE BountyProvision
  BY <1>2, ProvisionStep DEF BountyProvision
<1>3. CASE BountyRegister
  BY <1>3, MemberAndOn DEF BountyRegister, RegisterAgent
<1>4. CASE BountyWire
  <2>1. PICK step \in {"save", "upsert"} : Goto(step) BY <1>4 DEF BountyWire
  <2> QED BY <1>4, <2>1, RoleAndOn DEF BountyWire
<1>5. CASE BountyUpsert
  BY <1>5, UpsertStep DEF BountyUpsert
<1>6. CASE SaveBounty \/ SaveTraining
  BY <1>6, SavingStep DEF SaveBounty, SaveTraining
<1>7. CASE Training
  <2>1. Rest' /\ files' = files BY <1>7, OnlyChainAndRunsKeeps DEF Training, Rest, OnlyChainAndRuns
  <2> DEFINE a == files["standalone"].at["registry"]
             at == [NoAddresses EXCEPT !["registry"] = a]
  <2>2. a \in AddressOrZero /\ at \in Maps /\ Fits(contracts, deployed, at)
        /\ \A k \in Kinds : at[k] = IF k = "registry" THEN a ELSE 0
    BY Reading
  <2>3. NewContract("artists", NoAddresses, Nobody) /\ deployed + 1 \in AddressOrZero
    BY <1>7, NewContractEffect, EmptyFile DEF Training
  <2> DEFINE out == [NoFile EXCEPT !.at["registry"] = a, !.at["artists"] = deployed + 1]
  <2>4. out \in File /\ out.at = [at EXCEPT !["artists"] = deployed + 1]
    <3>1. out = FileOfTwo("registry", a, "artists", deployed + 1) BY DEF FileOfTwo
    <3>2. [at EXCEPT !["artists"] = deployed + 1] = MapOfTwo("registry", a, "artists", deployed + 1)
      BY DEF MapOfTwo
    <3> HIDE DEF out, at, a
    <3>3. "registry" \in Kinds /\ "artists" \in Kinds BY DEF Kinds
    <3>4. /\ FileOfTwo("registry", a, "artists", deployed + 1) \in File
          /\ FileOfTwo("registry", a, "artists", deployed + 1).at = MapOfTwo("registry", a, "artists", deployed + 1)
      <4>1. a \in AddressOrZero /\ deployed + 1 \in AddressOrZero BY <2>2, <2>3
      <4> QED BY <3>3, <4>1, NamingTwo
    <3> QED BY <3>1, <3>2, <3>4
  <2>5. run' \in Runs /\ run'.script = "training_compensation"
        /\ run'.out.at = [at EXCEPT !["artists"] = deployed + 1]
    BY <1>7, <2>4, Starting DEF Training
  <2> HIDE DEF at, a
  <2>6. at["claim"] = 0 /\ \A k \in Kinds : MayUse(k, "artists") => at[k] = 0
    BY <2>2 DEF MayUse
  <2> QED BY <2>1, <2>2, <2>3, <2>5, <2>6, NoneMap, GrowStep
<1>8. CASE TrainingPool
  <2>1. Rest' /\ files' = files BY <1>8, OnlyChainKeeps DEF TrainingPool, Rest, OnlyChain
  <2>2. NewContract("pool", NoAddresses, Deployer) /\ deployed + 1 \in AddressOrZero
    BY <1>8, NewContractEffect, EmptyFile DEF TrainingPool
  <2>3. run' \in Runs /\ run'.script = "training_compensation" /\ run'.step = "claim"
        /\ run'.out.at = [run.out.at EXCEPT !["pool"] = deployed + 1]
    BY <1>8, <2>2, GoingWith DEF TrainingPool, At
  <2>4. run.out.at \in Maps /\ Fits(contracts, deployed, run.out.at) /\ run.out.at["claim"] = 0
    BY <1>8, AtTypes DEF Inv, RunFits, TrainingPool, At
  <2>5. \A k \in Kinds : MayUse(k, "pool") => run.out.at[k] = 0 BY <2>4 DEF MayUse
  <2> QED BY <2>1, <2>2, <2>3, <2>4, <2>5, NoneMap, GrowStep
<1>9. CASE CompensationClaim
  <2>1. Rest' /\ files' = files BY <1>9, OnlyChainKeeps DEF CompensationClaim, Rest, OnlyChain
  <2> DEFINE built == [NoAddresses EXCEPT !["registry"] = Made("registry"), !["pool"] = Made("pool")]
  <2>2. NewContract("claim", built, Deployer) BY <1>9 DEF CompensationClaim
  <2>3. built \in Maps
        /\ \A k \in Kinds : built[k] = IF k \in {"registry", "pool"} THEN run.out.at[k] ELSE 0
    BY MadeType, EmptyFile DEF Maps, NoAddresses
  <2> HIDE DEF built
  <2>4. deployed + 1 \in AddressOrZero BY <2>2, <2>3, NewContractEffect DEF Maps
  <2>5. run' \in Runs /\ run'.script = "training_compensation" /\ run'.step = "provision"
        /\ run'.out.at = [run.out.at EXCEPT !["claim"] = deployed + 1]
    BY <1>9, <2>4, GoingWith DEF CompensationClaim, At
  <2>6. run.out.at \in Maps /\ Fits(contracts, deployed, run.out.at)
    BY AtTypes DEF Inv, RunFits
  <2>7. /\ \A l \in Kinds : built[l] # 0 => MayUse("claim", l)
        /\ \A l \in Kinds : run.out.at[l] # 0 /\ built[l] # 0 => built[l] = run.out.at[l]
        /\ \A k \in Kinds : ~MayUse(k, "claim")
    BY <2>3 DEF MayUse
  <2> QED BY <2>1, <2>2, <2>3, <2>5, <2>6, <2>7, GrowStep
<1>10. CASE TrainingProvision
  <2>1. PICK step \in {"wire", "upsert"} : Provision("INGESTOR", step) BY <1>10 DEF TrainingProvision
  <2> QED BY <1>10, <2>1, ProvisionStep DEF TrainingProvision
<1>11. CASE TrainingRegister
  <2>1. PICK step \in {"wire", "upsert"} : Goto(step) BY <1>11 DEF TrainingRegister
  <2> QED BY <1>11, <2>1, MemberAndOn DEF TrainingRegister, RegisterAgent
<1>12. CASE TrainingUpsert
  BY <1>12, UpsertStep DEF TrainingUpsert
<1>13. CASE WireIngestor
  BY <1>13, RoleAndOn DEF WireIngestor
<1>14. CASE WireDistributor
  BY <1>14, RoleAndOn, MadeType DEF WireDistributor
<1>15. CASE Catalog
  <2>1. Rest' /\ files' = files /\ UNCHANGED chainVars
    BY <1>15, OnlyChainAndRunsKeeps DEF Catalog, Rest, OnlyChainAndRuns
  <2>2. run' \in Runs /\ run'.out.at = NoAddresses
    BY <1>15, Idling, EmptyFile DEF Catalog, Runs
  <2> QED BY <2>1, <2>2, NoneMap, FitsNone, StartStep
<1>16. CASE CatalogCompany \/ CatalogArtist
  BY <1>16, WalletStep DEF CatalogCompany, CatalogArtist
<1>17. CASE CatalogFundCompany \/ CatalogFundArtist
  BY <1>17, FundStep DEF CatalogFundCompany, CatalogFundArtist
<1>18. CASE RegisterTrack
  <2>1. Rest' /\ files' = files BY <1>18, OnlyChainKeeps DEF RegisterTrack, Rest, OnlyChain
  <2>5. ChainOK' /\ SameShape BY <1>18, TracksEffect
  <2> QED BY <1>18, <2>1, <2>5, QuietStep DEF RegisterTrack, At
<1>19. CASE SaveCatalog
  <2>1. Rest' /\ run' = Idle /\ files' = [files EXCEPT !["acquisition_catalog"] = run.out]
        /\ UNCHANGED chainVars
    BY <1>19 DEF SaveCatalog, Rest, RestOK, identityVars, Runs
  <2>2. \A n \in FileNames : files'[n].at = files[n].at \/ files'[n].at = run.out.at
    BY <2>1 DEF RestOK
  <2> QED BY <2>1, <2>2, Still, IdleStep
<1> QED
  BY <1>1, <1>2, <1>3, <1>4, <1>5, <1>6, <1>7, <1>8, <1>9, <1>10, <1>11, <1>12, <1>13, <1>14,
     <1>15, <1>16, <1>17, <1>18, <1>19 DEF Verticals

(* A command that is one transaction. *)
LEMMA CommandChainStep ==
  ASSUME Inv, Command, OnlyChainAndRuns, ChainOK', SameShape
  PROVE  Inv'
<1>1. Rest' /\ files' = files /\ run' = run /\ run = Idle
  BY InvTyped, OnlyChainAndRunsKeeps DEF Command, Begin, Rest, OnlyChainAndRuns
<1> QED BY <1>1, Idling, QuietStep

(* What the slasher command takes is a wallet or the address of a contract. *)
LEMMA AnyIsAccount == ASSUME Inv PROVE AnyAddress \subseteq WalletOrNobody \cup AddressOrZero
<1>1. deployed \in 0..MaxContracts /\ MaxContracts \in Nat
  BY InvTyped, DeploymentAssumption DEF ChainOK, AddressOrZero, DeploymentAssumption
<1>2. 1..deployed \subseteq AddressOrZero BY <1>1 DEF AddressOrZero
<1> QED BY <1>2, People DEF AnyAddress

(* Commands keep the invariant. *)
LEMMA CommandsStep == ASSUME Inv, Commands PROVE Inv'
<1> USE InvTyped, Names, People
<1>1. ASSUME NEW w \in Agents \cup {Deployer}, Register(w) \/ PostBond(w) PROVE Inv'
  <2>1. \E a : AddMember(a, w) BY <1>1 DEF Register, PostBond, RegisterAgent
  <2>2. ChainOK' /\ SameShape BY <2>1, MemberEffect
  <2> QED BY <1>1, <2>2, CommandChainStep DEF Register, PostBond
<1>2. ASSUME NEW w \in WalletOrNobody \cup AddressOrZero, SetAuthorizedSlasher(w) \/ GrantOrRevoke(w) PROVE Inv'
  <2>1. \E a : SetRole(a, w) BY <1>2 DEF SetAuthorizedSlasher, GrantOrRevoke
  <2>2. ChainOK' /\ SameShape BY <2>1, RoleEffect
  <2> QED BY <1>2, <2>2, CommandChainStep DEF SetAuthorizedSlasher, GrantOrRevoke
<1>3. ASSUME NEW w \in Agents, TransferOwnership(w) PROVE Inv'
  <2>3. ChainOK' /\ SameShape BY <1>3, OwnerEffect
  <2> QED BY <1>3, <2>3, CommandChainStep DEF TransferOwnership
<1>4. ASSUME NEW w \in Agents, SetAgentId(w) PROVE Inv'
  <2>1. files' = files /\ run' = run /\ run = Idle /\ UNCHANGED chainVars
    BY <1>4 DEF SetAgentId, Command, Begin
  <2>2. agentId8004' \in [Addresses -> [Agents -> Nat]]
    <3>1. cache[w] \in Nat BY DEF RestOK
    <3> QED BY <1>4, <3>1 DEF SetAgentId, RestOK
  <2>3. runs' \in 0..MaxRuns BY <1>4, DeploymentAssumption
        DEF SetAgentId, Command, Begin, Rest, DeploymentAssumption
  <2>4. Rest' BY <1>4, <2>2, <2>3 DEF SetAgentId, Rest, RestOK
  <2> QED BY <2>1, <2>4, Still, Idling, QuietStep
<1>5. ASSUME NEW w \in Agents, NEW force \in BOOLEAN, RegisterIdentity(w, force) PROVE Inv'
  <2>1. files' = files /\ UNCHANGED chainVars BY <1>5 DEF RegisterIdentity
  <2>2. Rest' BY <1>5, DeploymentAssumption
        DEF RegisterIdentity, Begin, Rest, RestOK, DeploymentAssumption
  <2>3. run' \in Runs /\ run'.out.at = NoAddresses
    BY <1>5, Idling, EmptyFile DEF RegisterIdentity, Runs
  <2> QED BY <2>1, <2>2, <2>3, NoneMap, FitsNone, StartStep
<1>6. CASE SaveIdentity
  <2>1. files' = files /\ run' = Idle /\ UNCHANGED chainVars BY <1>6 DEF SaveIdentity
  <2>2. Len(identities) \in Nat BY DEF RestOK
  <2>3. Rest' BY <1>6, <2>2 DEF SaveIdentity, Rest, RestOK
  <2> QED BY <2>1, <2>3, Still, IdleStep
<1> QED BY <1>1, <1>2, <1>3, <1>4, <1>5, <1>6, AnyIsAccount DEF Commands

(* Deaths keep the invariant. *)
LEMMA CrashStep == ASSUME Inv, Crash PROVE Inv'
<1>1. files' = files /\ run' = Idle /\ UNCHANGED chainVars BY DEF Crash
<1>2. Rest' BY InvTyped, DeploymentAssumption
      DEF Crash, Rest, RestOK, identityVars, DeploymentAssumption
<1> QED BY <1>1, <1>2, Still, InvTyped, IdleStep

(* The invariant holds of an empty chain. *)
LEMMA InitInv == ASSUME Init PROVE Inv
<1>1. ChainOK
  BY DeploymentAssumption, EmptyFile, People DEF Init, ChainOK, NoContract, Contract, AddressOrZero, DeploymentAssumption
<1>2. Rest
  BY DeploymentAssumption, EmptyFile, People DEF Init, Rest, RestOK, NoWallets, DeploymentAssumption
<1>3. run \in Runs /\ run.out.at = NoAddresses BY Idling, EmptyFile DEF Init
<1>4. Sound(contracts, deployed)
  BY DeploymentAssumption DEF Init, Sound, Addresses, DeploymentAssumption
<1>5. \A n \in FileNames : files[n].at = NoAddresses BY EmptyFile DEF Init
<1>6. RunFits BY <1>3, FitsNone, NoneMap, Names DEF RunFits
<1> QED BY <1>1, <1>2, <1>3, <1>4, <1>5, <1>6, FitsNone DEF Inv

(* The inductive invariant holds in every reachable state. *)
THEOREM InvHolds == Spec => []Inv
<1>1. Init => Inv BY InitInv
<1>2. Inv /\ [Next]_vars => Inv'
  <2> SUFFICES ASSUME Inv, [Next]_vars PROVE Inv' OBVIOUS
  <2>1. CASE UNCHANGED vars
    BY <2>1 DEF vars, chainVars, identityVars, Inv, ChainOK, Rest, RestOK, RunFits
  <2> QED BY <2>1, StackStep, UpgradesStep, VerticalsStep, CommandsStep, CrashStep DEF Next
<1> QED BY <1>1, <1>2, PTL DEF Spec

(* Files, keys, wallets and contracts stay of their types, for any number of  *)
(* agents, runs and deaths.                                                   *)
THEOREM TypeCorrect == Spec => []TypeOK
<1>1. Inv => TypeOK BY Parts DEF Inv, Rest
<1> QED BY <1>1, InvHolds, PTL

(* FilesDescribeTheChain for any number of runs, contracts, wallets and       *)
(* deaths: no deployment file ever pairs a contract with one it was not built *)
(* on (writeFileSync at the end of every deploy_*.js).                        *)
THEOREM FilesAreTrue == Spec => []FilesDescribeTheChain
<1>1. Inv => FilesDescribeTheChain BY FitsIsDescribes DEF Inv, FilesDescribeTheChain
<1> QED BY <1>1, InvHolds, PTL

-----------------------------------------------------------------------------
(* Identities. Wallets that have a token: those in the cache, and the wallet  *)
(* whose token the running script has not yet written to it.                  *)

Minting == run.script = "identity"
Cached == {w \in Agents : cache[w] # 0}
Holders == Cached \cup IF Minting THEN {run.wallet} ELSE {}
Owns(id, w) == id <= Len(identities) /\ identities[id] = w

(* Every token number the cache or an adapter holds is a token of its wallet, *)
(* the running script's token is the last one, and every further token of a   *)
(* wallet was forced or follows a death.                                      *)
IdentityInv ==
  /\ \A w \in Agents : cache[w] # 0 => Owns(cache[w], w)
  /\ \A a \in Addresses, w \in Agents : agentId8004[a][w] # 0 => Owns(agentId8004[a][w], w)
  /\ Minting => run.wallet \in Agents /\ Len(identities) # 0 /\ Owns(Len(identities), run.wallet)
  /\ Len(identities) <= Cardinality(Holders) + crashes + forced

(* The scripts that deploy leave the identities alone. *)
NoIdentity == ~Minting /\ ~Minting' /\ UNCHANGED <<identityVars, crashes>>

(* The scripts that deploy the bond stack mint nothing. *)
LEMMA StackIsNoIdentity == ASSUME run \in Runs, Stack PROVE NoIdentity
<1> USE DEF NoIdentity, Minting, Runs
<1>1. CASE StandaloneRegistry \/ NetworkMockRegistry \/ NetworkLiveRegistry
  BY <1>1 DEF StandaloneRegistry, NetworkMockRegistry, NetworkLiveRegistry, Begin, Idle, OnlyChainAndRuns
<1>2. CASE StandaloneRegister \/ StandaloneBond \/ StandalonePost \/ NetworkVerify \/ NetworkBond \/ NetworkPost
  BY <1>2 DEF StandaloneRegister, StandaloneBond, StandalonePost, NetworkVerify, NetworkBond, NetworkPost,
              At, Goto, GotoWith, OnlyChain
<1>3. CASE SaveStandalone \/ SaveNetwork
  BY <1>3 DEF SaveStandalone, SaveNetwork, SaveFile, At, Idle
<1> QED BY <1>1, <1>2, <1>3 DEF Stack

(* The scripts that replace or extend the stack mint nothing. *)
LEMMA UpgradesIsNoIdentity == ASSUME run \in Runs, Upgrades PROVE NoIdentity
<1> USE DEF NoIdentity, Minting, Runs
<1>1. CASE BondV2 \/ Adapter \/ RightsClaimBond \/ SessionGuard \/ UsycBond
  BY <1>1 DEF BondV2, Adapter, RightsClaimBond, SessionGuard, UsycBond, Begin, Idle, OnlyChainAndRuns
<1>2. CASE ActivateGuard \/ UsycPost \/ UsycUnposted
  BY <1>2 DEF ActivateGuard, UsycPost, UsycUnposted, At, Goto, OnlyChain
<1>3. CASE SaveBondV2 \/ SaveAdapter \/ SaveRightsClaimBond \/ SaveSessionGuard \/ SaveUsyc
  BY <1>3 DEF SaveBondV2, SaveAdapter, SaveRightsClaimBond, SaveSessionGuard, SaveUsyc, SaveFile, At, Idle
<1>4. CASE ActivationReverts \/ PostReverts
  BY <1>4 DEF ActivationReverts, PostReverts, Abort, At, Idle
<1> QED BY <1>1, <1>2, <1>3, <1>4 DEF Upgrades

(* The scripts of the bounty, the rail and the claims mint nothing. *)
LEMMA VerticalsIsNoIdentity == ASSUME run \in Runs, Verticals PROVE NoIdentity
<1> USE DEF NoIdentity, Minting, Runs
<1>1. CASE Bounty \/ Training
  BY <1>1 DEF Bounty, Training, Begin, Idle, OnlyChainAndRuns
<1>0. CASE Catalog
  <2>1. run = Idle /\ run' = [Idle EXCEPT !.script = "acquisition_catalog", !.step = "company"]
        /\ UNCHANGED <<identityVars, crashes>>
    BY <1>0 DEF Catalog, Begin, OnlyChainAndRuns
  <2>2. run.script = "none" /\ run'.script = "acquisition_catalog" BY <2>1 DEF Idle
  <2> QED BY <2>1, <2>2
<1>2. CASE \/ BountyRegister \/ BountyWire \/ TrainingPool \/ CompensationClaim
           \/ TrainingRegister \/ WireIngestor \/ WireDistributor \/ RegisterTrack
  BY <1>2 DEF BountyRegister, BountyWire, TrainingPool, CompensationClaim, TrainingRegister,
              WireIngestor, WireDistributor, RegisterTrack, At, Goto, GotoWith, OnlyChain
<1>3. CASE BountyProvision \/ TrainingProvision
  BY <1>3 DEF BountyProvision, TrainingProvision, Provision, At
<1>4. CASE BountyUpsert \/ TrainingUpsert \/ CatalogFundCompany \/ CatalogFundArtist
  BY <1>4 DEF BountyUpsert, TrainingUpsert, CatalogFundCompany, CatalogFundArtist, Fund, At, Goto
<1>5. CASE CatalogCompany \/ CatalogArtist
  BY <1>5 DEF CatalogCompany, CatalogArtist, GetOrCreateWallet, At
<1>6. CASE SaveBounty \/ SaveTraining \/ SaveCatalog
  BY <1>6 DEF SaveBounty, SaveTraining, SaveCatalog, SaveFile, At, Idle
<1> QED BY <1>0, <1>1, <1>2, <1>3, <1>4, <1>5, <1>6 DEF Verticals

(* Steps that leave the identities alone keep the invariant. *)
LEMMA NoIdentityKeeps == ASSUME IdentityInv, NoIdentity PROVE IdentityInv'
BY DEF IdentityInv, NoIdentity, identityVars, Owns, Holders, Cached, Minting

(* The set of holders is finite. *)
LEMMA HoldersFinite ==
  ASSUME run \in Runs
  PROVE  IsFiniteSet(Cached) /\ IsFiniteSet(Holders)
         /\ Cardinality(Cached) \in Nat /\ Cardinality(Holders) \in Nat
         /\ Cardinality(Holders) <= Cardinality(Cached) + IF Minting THEN 1 ELSE 0
<1>1. IsFiniteSet(Cached) /\ Cardinality(Cached) \in Nat
  BY DeploymentAssumption, FS_Subset, FS_CardinalityType DEF DeploymentAssumption, Cached
<1>2. CASE Minting
  <2>1. Holders = Cached \cup {run.wallet} BY <1>2 DEF Holders
  <2>2. IsFiniteSet(Cached \cup {run.wallet})
        /\ Cardinality(Cached \cup {run.wallet}) \in {Cardinality(Cached), Cardinality(Cached) + 1}
    BY <1>1, FS_AddElement
  <2> QED BY <1>1, <1>2, <2>1, <2>2
<1>3. CASE ~Minting
  <2>1. Holders = Cached BY <1>3 DEF Holders
  <2> QED BY <1>1, <1>3, <2>1
<1> QED BY <1>2, <1>3

(* register-8004-identity.js mints. *)
LEMMA MintStep ==
  ASSUME Inv, IdentityInv, NEW w \in Agents, NEW force \in BOOLEAN, RegisterIdentity(w, force)
  PROVE  IdentityInv'
<1>1. /\ ~Minting /\ Minting' /\ run'.wallet = w /\ cache' = cache /\ agentId8004' = agentId8004
      /\ crashes' = crashes /\ identities' = Append(identities, w)
      /\ forced' = IF cache[w] # 0 THEN forced + 1 ELSE forced
  BY DEF RegisterIdentity, Begin, Minting, Idle
<1>2. identities \in Seq(Agents) /\ cache \in [Agents -> Nat] /\ agentId8004 \in [Addresses -> [Agents -> Nat]]
      /\ crashes \in Nat /\ forced \in Nat /\ run \in Runs
  BY InvTyped, DeploymentAssumption DEF RestOK, DeploymentAssumption
<1>3. /\ Len(identities) \in Nat /\ Len(identities') = Len(identities) + 1
      /\ identities'[Len(identities) + 1] = w
      /\ \A i \in 1..Len(identities) : identities'[i] = identities[i]
  BY <1>1, <1>2
<1>4. \A id \in Nat, v \in Agents : id # 0 /\ Owns(id, v) => Owns(id, v)'
  BY <1>3 DEF Owns
<1>5. (\A v \in Agents : cache[v] # 0 => Owns(cache[v], v))'
  <2> SUFFICES ASSUME NEW v \in Agents, NEW id \in Nat, id = cache[v], id # 0
               PROVE  Owns(id, v)'
    BY <1>1, <1>2
  <2> QED BY <1>4 DEF IdentityInv
<1>6. (\A a \in Addresses, v \in Agents : agentId8004[a][v] # 0 => Owns(agentId8004[a][v], v))'
  <2> SUFFICES ASSUME NEW a \in Addresses, NEW v \in Agents, NEW id \in Nat,
                      id = agentId8004[a][v], id # 0
               PROVE  Owns(id, v)'
    BY <1>1, <1>2
  <2> QED BY <1>4 DEF IdentityInv
<1>7. (Minting => run.wallet \in Agents /\ Len(identities) # 0 /\ Owns(Len(identities), run.wallet))'
  BY <1>1, <1>3 DEF Owns
<1>8. (Len(identities) <= Cardinality(Holders) + crashes + forced)'
  <2>1. Holders = Cached /\ Holders' = Cached \cup {w} BY <1>1 DEF Holders, Cached
  <2>2. w \in Cached <=> cache[w] # 0 BY DEF Cached
  <2>3. Cardinality(Holders') = IF cache[w] # 0 THEN Cardinality(Holders) ELSE Cardinality(Holders) + 1
    BY <2>1, <2>2, <1>2, HoldersFinite, FS_AddElement
  <2>4. Cardinality(Holders) \in Nat /\ Len(identities) <= Cardinality(Holders) + crashes + forced
    BY <1>2, HoldersFinite DEF IdentityInv
  <2> QED BY <1>1, <1>2, <1>3, <2>3, <2>4
<1> QED BY <1>5, <1>6, <1>7, <1>8 DEF IdentityInv

(* ... and remembers it in the cache file. *)
LEMMA RememberStep == ASSUME Inv, IdentityInv, SaveIdentity PROVE IdentityInv'
<1>1. /\ Minting /\ ~Minting' /\ agentId8004' = agentId8004 /\ crashes' = crashes /\ forced' = forced
      /\ identities' = identities /\ cache' = [cache EXCEPT ![run.wallet] = Len(identities)]
  BY DEF SaveIdentity, At, Minting, Idle
<1>2. cache \in [Agents -> Nat] /\ run.wallet \in Agents /\ Len(identities) # 0
      /\ Owns(Len(identities), run.wallet)
  BY <1>1, InvTyped DEF RestOK, IdentityInv
<1>3. \A id, v : Owns(id, v) => Owns(id, v)' BY <1>1 DEF Owns
<1>4. \A v \in Agents : cache'[v] = IF v = run.wallet THEN Len(identities) ELSE cache[v]
  BY <1>1, <1>2
<1>5. (\A v \in Agents : cache[v] # 0 => Owns(cache[v], v))'
  BY <1>1, <1>2, <1>4 DEF IdentityInv, Owns
<1>6. (\A a \in Addresses, v \in Agents : agentId8004[a][v] # 0 => Owns(agentId8004[a][v], v))'
  BY <1>1 DEF IdentityInv, Owns
<1>7. Holders' = Holders
  BY <1>1, <1>2, <1>4 DEF Holders, Cached
<1> QED BY <1>1, <1>5, <1>6, <1>7 DEF IdentityInv

(* set-8004-agent-id.js copies what the cache says. *)
LEMMA MapStep == ASSUME Inv, IdentityInv, NEW w \in Agents, SetAgentId(w) PROVE IdentityInv'
<1>1. /\ run' = run /\ cache' = cache /\ crashes' = crashes /\ forced' = forced /\ identities' = identities
      /\ cache[w] # 0
  BY DEF SetAgentId, Command
<1> DEFINE b == files["erc8004_adapter"].at["adapter"]
<1>2. agentId8004' = [agentId8004 EXCEPT ![b][w] = cache[w]] BY DEF SetAgentId
<1> HIDE DEF b
<1>3. \A a \in Addresses, v \in Agents :
        agentId8004'[a][v] = IF a = b /\ v = w THEN cache[w] ELSE agentId8004[a][v]
  BY <1>2, InvTyped DEF RestOK
<1>4. (\A a \in Addresses, v \in Agents : agentId8004[a][v] # 0 => Owns(agentId8004[a][v], v))'
  BY <1>1, <1>3 DEF IdentityInv, Owns
<1>5. Holders' = Holders BY <1>1 DEF Holders, Cached, Minting
<1>6. (\A v \in Agents : cache[v] # 0 => Owns(cache[v], v))' BY <1>1 DEF IdentityInv, Owns
<1> QED BY <1>1, <1>4, <1>5, <1>6 DEF IdentityInv, Minting, Owns

(* A death may leave one token out of the cache. *)
LEMMA ForgetStep == ASSUME Inv, IdentityInv, Crash PROVE IdentityInv'
<1>1. /\ ~Minting' /\ cache' = cache /\ agentId8004' = agentId8004 /\ crashes' = crashes + 1
      /\ forced' = forced /\ identities' = identities
  BY DEF Crash, identityVars, Minting, Idle
<1>2. crashes \in Nat /\ forced \in Nat /\ run \in Runs /\ Len(identities) \in Nat
  BY InvTyped, DeploymentAssumption DEF RestOK, DeploymentAssumption
<1>3. Holders' = Cached BY <1>1 DEF Holders, Cached
<1>4. Cardinality(Holders) <= Cardinality(Cached) + 1 /\ Cardinality(Cached) \in Nat /\ Cardinality(Holders) \in Nat
  BY <1>2, HoldersFinite
<1>5. (Len(identities) <= Cardinality(Holders) + crashes + forced)'
  BY <1>1, <1>2, <1>3, <1>4 DEF IdentityInv
<1> QED BY <1>1, <1>5 DEF IdentityInv, Owns

(* Every step keeps identities with the wallets that minted them. *)
LEMMA IdentityStep == ASSUME Inv, IdentityInv, [Next]_vars PROVE IdentityInv'
<1>1. run \in Runs BY InvTyped
<1>2. CASE Stack \/ Upgrades \/ Verticals
  BY <1>1, <1>2, StackIsNoIdentity, UpgradesIsNoIdentity, VerticalsIsNoIdentity, NoIdentityKeeps
<1>3. CASE Commands
  <2>1. ASSUME NEW w, Register(w) \/ PostBond(w) \/ SetAuthorizedSlasher(w) \/ TransferOwnership(w) \/ GrantOrRevoke(w)
        PROVE IdentityInv'
    <3>1. NoIdentity
      BY <2>1 DEF NoIdentity, Register, PostBond, SetAuthorizedSlasher, TransferOwnership, GrantOrRevoke,
                  Command, Begin, Minting, Idle, OnlyChainAndRuns
    <3> QED BY <3>1, NoIdentityKeeps
  <2> QED BY <1>3, <2>1, MintStep, RememberStep, MapStep DEF Commands
<1>4. CASE Crash BY <1>4, ForgetStep
<1>5. CASE UNCHANGED vars
  BY <1>5 DEF vars, identityVars, IdentityInv, Owns, Holders, Cached, Minting
<1> QED BY <1>2, <1>3, <1>4, <1>5 DEF Next

(* IdentitiesAreAccounted for any number of agents, runs, adapters and        *)
(* deaths: a wallet gets a second token only by --force or by a death between *)
(* the mint and the cache file, and no adapter maps a wallet to a token of    *)
(* another one (register-8004-identity.js, set-8004-agent-id.js).             *)
THEOREM IdentitiesAccounted == Spec => []IdentitiesAreAccounted
<1>1. ASSUME Init PROVE IdentityInv
  <2>1. Cached = {} /\ Holders = {} /\ Len(identities) = 0
    BY <1>1 DEF Init, Cached, Holders, Minting, Idle
  <2>2. crashes = 0 /\ forced = 0 /\ ~Minting /\ Cardinality(Holders) = 0
    BY <1>1, <2>1, FS_EmptySet DEF Init, Minting, Idle
  <2> QED BY <1>1, <2>1, <2>2 DEF Init, IdentityInv
<1>2. Inv /\ IdentityInv /\ [Next]_vars => IdentityInv' BY IdentityStep
<1>3. ASSUME Inv, IdentityInv PROVE IdentitiesAreAccounted
  <2>1. \A a \in 1..deployed : a \in Addresses
    BY <1>3, InvTyped, DeploymentAssumption DEF ChainOK, Addresses, AddressOrZero, DeploymentAssumption
  <2>2. crashes \in Nat /\ forced \in Nat /\ run \in Runs /\ Len(identities) \in Nat
    BY <1>3, InvTyped, DeploymentAssumption DEF RestOK, DeploymentAssumption
  <2>3. Len(identities) <= Cardinality(Cached) + crashes + forced + IF Minting THEN 1 ELSE 0
    BY <1>3, <2>2, HoldersFinite DEF IdentityInv
  <2> QED BY <1>3, <2>1, <2>3 DEF IdentityInv, IdentitiesAreAccounted, Owns, Cached, Minting
<1> QED BY <1>1, <1>2, <1>3, InvHolds, PTL DEF Spec

-----------------------------------------------------------------------------
(* Which contracts a script has deployed when it saves.                       *)
Needed(script) ==
  CASE script \in {"standalone", "network"} -> {"registry", "bond"}
    [] script = "usyc" -> {"bond"}
    [] script = "session_guard" -> {"bond", "guard"}
    [] script = "exploit_bounty" -> {"registry", "bounty"}
    [] script = "training_compensation" -> {"registry", "pool", "claim"}
    [] OTHER -> {}
(* ... and which of them it still has to deploy. *)
Missing(script, step) ==
  CASE script \in {"standalone", "network"} /\ step \in {"register", "bond"} -> {"bond"}
    [] script = "training_compensation" /\ step = "pool" -> {"pool", "claim"}
    [] script = "training_compensation" /\ step = "claim" -> {"claim"}
    [] OTHER -> {}
Needs(k, l) == (k \in {"bond", "bounty", "claim"} /\ l = "registry") \/ (k = "guard" /\ l = "bond")

(* Constructor arguments are there, deployed, and of the right kind. *)
Grounded(c, d) ==
  \A a \in Addresses : a <= d => \A l \in Kinds :
    /\ Needs(c[a].kind, l) => c[a].built[l] # 0
    /\ c[a].built[l] # 0 => c[a].built[l] <= d /\ c[c[a].built[l]].kind = l

PartsInv ==
  /\ Grounded(contracts, deployed)
  /\ \A k \in Needed(run.script) \ Missing(run.script, run.step) : run.out.at[k] # 0
  /\ \A n \in FileNames : Exists(n) => \A k \in Needed(n) : files[n].at[k] # 0

(* Steps that deploy nothing keep constructor arguments grounded. *)
LEMMA GroundedKept ==
  ASSUME Inv, Grounded(contracts, deployed), SameShape PROVE Grounded(contracts', deployed')
<1>1. \A a \in Addresses : a <= deployed => \A l \in Kinds : contracts[a].built[l] # 0 => contracts[a].built[l] \in Addresses
  BY InvTyped DEF ChainOK, Contract, Addresses, AddressOrZero
<1> QED BY <1>1 DEF Grounded, SameShape

(* What is given to a constructor is deployed and of its kind. *)
Usable(kind, built) ==
  \A l \in Kinds :
    /\ Needs(kind, l) => built[l] # 0
    /\ built[l] # 0 => built[l] <= deployed /\ contracts[built[l]].kind = l

(* A contract built on such arguments keeps all of them grounded. *)
LEMMA GroundedGrows ==
  ASSUME Inv, Grounded(contracts, deployed), NEW kind \in Kinds, NEW built \in Maps,
         NEW role \in WalletOrNobody, NewContract(kind, built, role), Usable(kind, built)
  PROVE  Grounded(contracts', deployed')
<1>1. /\ deployed + 1 \in Addresses /\ deployed' = deployed + 1 /\ deployed \in Nat
      /\ contracts'[deployed + 1].kind = kind /\ contracts'[deployed + 1].built = built
      /\ \A a \in Addresses : a # deployed + 1 => contracts'[a] = contracts[a]
  BY InvTyped, AtTypes, NewContractEffect DEF Maps
<1> DEFINE D == deployed + 1
<1>2. D \in Addresses /\ deployed' = D /\ (\A a \in Addresses : a <= D => a = D \/ a <= deployed) /\ deployed <= D
      /\ ~(D <= deployed)
  BY <1>1 DEF Addresses
<1>3. \A a \in Addresses : a # D => contracts'[a] = contracts[a]
  BY <1>1
<1>4. contracts'[D].kind = kind /\ contracts'[D].built = built BY <1>1
<1> HIDE DEF D
<1> SUFFICES ASSUME NEW a \in Addresses, a <= D, NEW l \in Kinds
             PROVE  /\ Needs(contracts'[a].kind, l) => contracts'[a].built[l] # 0
                    /\ contracts'[a].built[l] # 0
                         => contracts'[a].built[l] <= D /\ contracts'[contracts'[a].built[l]].kind = l
  BY <1>2 DEF Grounded
<1>5. ASSUME NEW b \in AddressOrZero, b # 0, b <= deployed, contracts[b].kind = l
      PROVE  b <= D /\ contracts'[b].kind = l
  <2>1. b \in Addresses /\ b # D BY <1>1, <1>2, <1>5 DEF Addresses, AddressOrZero
  <2>2. b <= D BY <1>1, <1>2, <1>5 DEF D, AddressOrZero
  <2> QED BY <1>5, <2>1, <2>2, <1>3
<1>6. CASE a = D
  <2>1. built[l] \in AddressOrZero BY DEF Maps
  <2> QED BY <1>4, <1>5, <1>6, <2>1 DEF Usable
<1>7. CASE a # D
  <2>1. a <= deployed /\ contracts'[a] = contracts[a] BY <1>2, <1>3, <1>7
  <2>2. contracts[a].built[l] \in AddressOrZero BY InvTyped DEF ChainOK, Contract
  <2> QED BY <2>1, <2>2, <1>5 DEF Grounded
<1> QED BY <1>6, <1>7

RunHas == \A k \in Needed(run.script) \ Missing(run.script, run.step) : run.out.at[k] # 0

(* A step in the middle of a script that deploys nothing. *)
LEMMA PartsQuiet ==
  ASSUME Inv, PartsInv, SameShape, files' = files, run'.out.at = run.out.at, run'.script = run.script,
         Missing(run'.script, run'.step) = Missing(run.script, run.step)
  PROVE  PartsInv'
BY GroundedKept DEF PartsInv, Exists

(* The last step of a script, saved or not. *)
LEMMA PartsIdle ==
  ASSUME Inv, PartsInv, SameShape, run' = Idle, files' = files PROVE PartsInv'
<1>1. Needed(run'.script) = {} BY Idling DEF Needed
<1> QED BY <1>1, GroundedKept DEF PartsInv, Exists

(* Saving a file writes addresses the script has read or made. *)
LEMMA PartsSave ==
  ASSUME Inv, PartsInv, NEW s \in FileNames, SaveFile(s) PROVE PartsInv'
<1>1. run' = Idle /\ files' = [files EXCEPT ![s] = run.out] /\ UNCHANGED chainVars
      /\ run.script = s /\ run.step = "save"
  BY DEF SaveFile, At
<1>2. Missing(run.script, run.step) = {} BY <1>1 DEF Missing
<1>3. Needed(run'.script) = {} BY <1>1, Idling DEF Needed
<1>4. \A n \in FileNames : files'[n] = IF n = s THEN run.out ELSE files[n] BY <1>1, InvTyped DEF RestOK
<1>5. \A n \in FileNames : (Exists(n))' => \A k \in Needed(n) : files'[n].at[k] # 0
  BY <1>1, <1>2, <1>4 DEF PartsInv, Exists
<1>6. Grounded(contracts', deployed') BY <1>1, Still, InvTyped, GroundedKept DEF PartsInv
<1> QED BY <1>3, <1>5, <1>6 DEF PartsInv

(* A step that deploys a contract. *)
LEMMA PartsGrow ==
  ASSUME Inv, PartsInv, files' = files, NEW kind \in Kinds, NEW built \in Maps, NEW role \in WalletOrNobody,
         NewContract(kind, built, role), Usable(kind, built), RunHas'
  PROVE  PartsInv'
BY GroundedGrows DEF PartsInv, RunHas, Exists

(* Addresses that fit the chain are usable. *)
LEMMA FileIsUsable ==
  ASSUME Inv, NEW n \in FileNames, NEW l \in Kinds, NEW kind \in Kinds,
         \A k \in Kinds : Needs(kind, k) => k = l /\ files[n].at[l] # 0
  PROVE  [NoAddresses EXCEPT ![l] = files[n].at[l]] \in Maps
         /\ Usable(kind, [NoAddresses EXCEPT ![l] = files[n].at[l]])
<1>1. [NoAddresses EXCEPT ![l] = files[n].at[l]] \in Maps
      /\ \A k \in Kinds : [NoAddresses EXCEPT ![l] = files[n].at[l]][k] = IF k = l THEN files[n].at[l] ELSE 0
  BY Reading
<1>2. Fits(contracts, deployed, files[n].at) BY DEF Inv
<1> QED BY <1>1, <1>2 DEF Usable, Fits

(* A registry the script has made is all that most constructors need. *)
LEMMA MadeIsUsable ==
  ASSUME Inv, Made("registry") # 0
  PROVE  [NoAddresses EXCEPT !["registry"] = Made("registry")] \in Maps
         /\ \A kind \in Kinds \ {"guard"} : Usable(kind, [NoAddresses EXCEPT !["registry"] = Made("registry")])
<1>1. [NoAddresses EXCEPT !["registry"] = Made("registry")] \in Maps
      /\ \A k \in Kinds : [NoAddresses EXCEPT !["registry"] = Made("registry")][k] = IF k = "registry" THEN Made("registry") ELSE 0
  BY BuildingOnRegistry, MadeType, Names
<1>2. Fits(contracts, deployed, run.out.at) /\ Made("registry") = run.out.at["registry"] BY MadeType, Names DEF Inv, RunFits
<1> QED BY <1>1, <1>2 DEF Usable, Fits, Needs

(* Registry, artist registry and pool are built on nothing. *)
LEMMA NothingIsUsable ==
  ASSUME NEW kind \in {"registry", "artists", "pool"}
  PROVE  NoAddresses \in Maps /\ Usable(kind, NoAddresses)
BY NoneMap DEF Usable, Needs

\* A file that names one contract.
FileOf(k, a) == [NoFile EXCEPT !.at[k] = a]

(* What a file of one address names. *)
LEMMA OneNamed ==
  ASSUME NEW k \in Kinds, NEW a PROVE FileOf(k, a).at[k] = a
BY DEF FileOf, NoFile, NoAddresses

(* A file made of two addresses holds both. *)
LEMMA TwoNamed ==
  ASSUME NEW k \in Kinds, NEW a, NEW l \in Kinds \ {k}, NEW b
  PROVE  FileOfTwo(k, a, l, b).at[k] = a /\ FileOfTwo(k, a, l, b).at[l] = b
BY DEF FileOfTwo, NoFile, NoAddresses

(* The middle of a script, in the shapes its steps have. *)
LEMMA PartsMember ==
  ASSUME Inv, PartsInv, OnlyChain, NEW step \in Steps, Goto(step), NEW a, NEW w \in WalletOrNobody,
         AddMember(a, w), Missing(run.script, step) = Missing(run.script, run.step)
  PROVE  PartsInv'
<1>1. SameShape /\ files' = files BY InvTyped, MemberEffect DEF OnlyChain
<1> QED BY <1>1, InvTyped, Going, PartsQuiet

(* Giving a role leaves constructor arguments and addresses alone. *)
LEMMA PartsRole ==
  ASSUME Inv, PartsInv, OnlyChain, NEW step \in Steps, Goto(step), NEW a,
         NEW r \in WalletOrNobody \cup AddressOrZero,
         SetRole(a, r), Missing(run.script, step) = Missing(run.script, run.step)
  PROVE  PartsInv'
<1>1. SameShape /\ files' = files BY InvTyped, RoleEffect DEF OnlyChain
<1> QED BY <1>1, InvTyped, Going, PartsQuiet

(* A new contract has an address. *)
LEMMA NewAddress ==
  ASSUME Inv, NEW kind \in Kinds, NEW built \in Maps, NEW role \in WalletOrNobody, NewContract(kind, built, role)
  PROVE  deployed + 1 \in AddressOrZero /\ deployed + 1 # 0
BY NewContractEffect, InvTyped, AtTypes DEF Maps

(* A registry of the environment is deployed. *)
LEMMA RegistryIsThere ==
  ASSUME Inv, NEW r \in Registries
  PROVE  r # 0 /\ r <= deployed /\ contracts[r].kind = "registry" /\ r \in AddressOrZero
<1>1. r \in 1..deployed /\ contracts[r].kind = "registry" /\ deployed \in Nat BY AtTypes DEF Registries
<1>2. r \in AddressOrZero BY FitsRegistry
<1> QED BY <1>1, <1>2

(* The bond of deploy_standalone.js and deploy.js. *)
LEMMA PartsBond ==
  ASSUME Inv, PartsInv, files' = files, run.script \in {"standalone", "network"}, run.step = "bond",
         DeployBond(Made("registry")), GotoWith("post", "bond")
  PROVE  PartsInv'
<1> USE Names, People
<1>1. Made("registry") # 0 /\ Made("registry") = run.out.at["registry"]
  BY MadeType DEF PartsInv, Needed, Missing
<1>2. NewContract("bond", [NoAddresses EXCEPT !["registry"] = Made("registry")], Deployer) BY DEF DeployBond
<1>3. [NoAddresses EXCEPT !["registry"] = Made("registry")] \in Maps
      /\ Usable("bond", [NoAddresses EXCEPT !["registry"] = Made("registry")])
  BY <1>1, MadeIsUsable
<1> DEFINE built == [NoAddresses EXCEPT !["registry"] = Made("registry")]
<1>4. deployed + 1 \in AddressOrZero /\ deployed + 1 # 0
  <2>1. NewContract("bond", built, Deployer) /\ built \in Maps BY <1>2, <1>3
  <2> HIDE DEF built
  <2> QED BY <2>1, NewAddress
<1>5. run'.script = run.script /\ run'.step = "post" /\ run'.out.at = [run.out.at EXCEPT !["bond"] = deployed + 1]
  BY <1>4, GoingWith, InvTyped
<1>6. run'.out.at["bond"] # 0 /\ run'.out.at["registry"] # 0
  BY <1>1, <1>4, <1>5, AtTypes DEF Maps
<1>7. RunHas' BY <1>5, <1>6 DEF RunHas, Needed
<1> QED BY <1>2, <1>3, <1>7, PartsGrow

(* The scripts that deploy the bond stack build on what they have made. *)
LEMMA PartsStack == ASSUME Inv, PartsInv, Stack PROVE PartsInv'
<1> USE InvTyped, Names, People
<1>1. CASE StandaloneRegistry \/ NetworkMockRegistry
  <2>1. files' = files /\ NewContract("registry", NoAddresses, Nobody)
        /\ run'.script \in {"standalone", "network"} /\ run'.step = "register"
        /\ run'.out = [NoFile EXCEPT !.at["registry"] = deployed + 1]
    BY <1>1 DEF StandaloneRegistry, NetworkMockRegistry, OnlyChainAndRuns
  <2>2. run'.out.at["registry"] # 0
    <3> DEFINE b == deployed + 1
    <3>1. b # 0 /\ "registry" \in Kinds BY AtTypes
    <3>2. run'.out = FileOf("registry", b) BY <2>1 DEF FileOf
    <3> HIDE DEF b
    <3>3. run'.out.at["registry"] = b BY <3>1, <3>2, OneNamed
    <3> QED BY <3>1, <3>3
  <2>3. RunHas' BY <2>1, <2>2 DEF RunHas, Needed, Missing
  <2> QED BY <2>1, <2>3, NothingIsUsable, PartsGrow
<1>2. CASE StandaloneRegister \/ NetworkVerify
  <2>1. OnlyChain /\ Goto("bond") /\ AddMember(Made("registry"), Deployer) /\ run.step = "register"
        /\ run.script \in {"standalone", "network"}
    BY <1>2 DEF StandaloneRegister, NetworkVerify, RegisterAgent, At
  <2>2. Missing(run.script, "bond") = Missing(run.script, run.step) BY <2>1 DEF Missing
  <2> QED BY <2>1, <2>2, PartsMember
<1>3. CASE StandaloneBond \/ NetworkBond
  BY <1>3, PartsBond DEF StandaloneBond, NetworkBond, At, OnlyChain
<1>4. CASE StandalonePost \/ NetworkPost
  <2>1. OnlyChain /\ Goto("save") /\ AddMember(Made("bond"), Deployer) /\ run.step = "post"
        /\ run.script \in {"standalone", "network"}
    BY <1>4 DEF StandalonePost, NetworkPost, At
  <2>2. Missing(run.script, "save") = Missing(run.script, run.step) BY <2>1 DEF Missing
  <2> QED BY <2>1, <2>2, PartsMember
<1>5. CASE SaveStandalone \/ SaveNetwork
  BY <1>5, PartsSave DEF SaveStandalone, SaveNetwork
<1>6. CASE NetworkLiveRegistry
  <2>1. PICK r \in Registries :
          run' = [script |-> "network", step |-> "bond", wallet |-> Deployer,
                  out |-> [NoFile EXCEPT !.at["registry"] = r]]
    BY <1>6 DEF NetworkLiveRegistry
  <2>2. files' = files /\ UNCHANGED chainVars BY <1>6 DEF NetworkLiveRegistry, OnlyChainAndRuns
  <2>3. r # 0 /\ run'.script = "network" /\ run'.step = "bond" /\ run'.out.at["registry"] = r
    <3>1. run'.script = "network" /\ run'.step = "bond" /\ run'.out = [NoFile EXCEPT !.at["registry"] = r]
      BY <2>1
    <3>2. run'.out = FileOf("registry", r) BY <3>1 DEF FileOf
    <3>4. run'.out.at["registry"] = r BY <3>2, OneNamed
    <3> QED BY <3>1, <3>4, RegistryIsThere
  <2>4. RunHas' BY <2>3 DEF RunHas, Needed, Missing
  <2> QED BY <2>2, <2>4, Still, GroundedKept DEF PartsInv, RunHas, Exists
<1> QED BY <1>1, <1>2, <1>3, <1>4, <1>5, <1>6 DEF Stack

(* The scripts that replace or extend the stack build on what they have read. *)
LEMMA PartsUpgrades == ASSUME Inv, PartsInv, Upgrades PROVE PartsInv'
<1> USE InvTyped, Names, People
<1>0. deployed + 1 # 0 BY AtTypes
<1>1. CASE BondV2
  <2>1. files["standalone"].at["registry"] # 0 BY <1>1 DEF BondV2, PartsInv, Needed
  <2>2. files' = files /\ NewContract("bond", [NoAddresses EXCEPT !["registry"] = files["standalone"].at["registry"]], Deployer)
        /\ run'.script = "bond_v2"
    BY <1>1 DEF BondV2, DeployBond, OnlyChainAndRuns
  <2>3. RunHas' BY <2>2 DEF RunHas, Needed
  <2>4. \A k \in Kinds : Needs("bond", k) => k = "registry" /\ files["standalone"].at["registry"] # 0
    BY <2>1 DEF Needs
  <2>5. [NoAddresses EXCEPT !["registry"] = files["standalone"].at["registry"]] \in Maps
        /\ Usable("bond", [NoAddresses EXCEPT !["registry"] = files["standalone"].at["registry"]])
    BY <2>4, FileIsUsable
  <2> QED BY <2>2, <2>3, <2>5, PartsGrow
<1>2. CASE Adapter
  <2>1. PICK n \in FileNames : NewContract("adapter", [NoAddresses EXCEPT !["bond"] = files[n].at["bond"]], Nobody)
    BY <1>2 DEF Adapter
  <2>2. files' = files /\ run'.script = "erc8004_adapter" BY <1>2 DEF Adapter, OnlyChainAndRuns
  <2>3. RunHas' BY <2>2 DEF RunHas, Needed
  <2>4. \A k \in Kinds : ~Needs("adapter", k) BY DEF Needs
  <2> QED BY <2>1, <2>2, <2>3, <2>4, FileIsUsable, PartsGrow
<1>3. CASE RightsClaimBond
  <2>2. files' = files /\ run'.script = "rights_claim_bond"
        /\ NewContract("rights", [NoAddresses EXCEPT !["artists"] = files["training_compensation"].at["artists"]], Nobody)
    BY <1>3 DEF RightsClaimBond, OnlyChainAndRuns
  <2>3. RunHas' BY <2>2 DEF RunHas, Needed
  <2>4. \A k \in Kinds : ~Needs("rights", k) BY DEF Needs
  <2>5. [NoAddresses EXCEPT !["artists"] = files["training_compensation"].at["artists"]] \in Maps
        /\ Usable("rights", [NoAddresses EXCEPT !["artists"] = files["training_compensation"].at["artists"]])
    BY <2>4, FileIsUsable
  <2> QED BY <2>2, <2>3, <2>5, PartsGrow
<1>4. CASE SessionGuard
  <2>1. files["standalone"].at["bond"] # 0 BY <1>4 DEF SessionGuard, PartsInv, Needed
  <2>2. files' = files /\ run'.script = "session_guard"
        /\ NewContract("guard", [NoAddresses EXCEPT !["bond"] = files["standalone"].at["bond"]], Nobody)
        /\ run'.out = [NoFile EXCEPT !.at["bond"] = files["standalone"].at["bond"], !.at["guard"] = deployed + 1]
    BY <1>4 DEF SessionGuard, OnlyChainAndRuns
  <2>3. run'.out.at["bond"] = files["standalone"].at["bond"] /\ run'.out.at["guard"] = deployed + 1
    <3> DEFINE a == files["standalone"].at["bond"]
               b == deployed + 1
    <3>1. "bond" \in Kinds /\ "guard" \in Kinds \ {"bond"} OBVIOUS
    <3>2. run'.out = FileOfTwo("bond", a, "guard", b) BY <2>2 DEF FileOfTwo
    <3> HIDE DEF a, b
    <3>3. run'.out.at["bond"] = a /\ run'.out.at["guard"] = b BY <3>1, <3>2, TwoNamed
    <3> QED BY <3>3 DEF a, b
  <2>4. RunHas' BY <1>0, <2>1, <2>2, <2>3 DEF RunHas, Needed
  <2>5. \A k \in Kinds : Needs("guard", k) => k = "bond" BY DEF Needs
  <2> QED BY <2>1, <2>2, <2>4, <2>5, FileIsUsable, PartsGrow
<1>5. CASE ActivateGuard
  <2>1. OnlyChain /\ Goto("save") /\ SetRole(Made("bond"), Made("guard")) /\ run.script = "session_guard"
    BY <1>5 DEF ActivateGuard, At
  <2>2. Missing(run.script, "save") = Missing(run.script, run.step) BY <2>1 DEF Missing
  <2> QED BY <2>1, <2>2, MadeType, PartsRole
<1>6. CASE ActivationReverts \/ PostReverts
  <2>1. run' = Idle /\ files' = files /\ UNCHANGED chainVars BY <1>6 DEF ActivationReverts, PostReverts, Abort
  <2> QED BY <2>1, Still, PartsIdle
<1>7. CASE SaveBondV2 \/ SaveAdapter \/ SaveRightsClaimBond \/ SaveSessionGuard \/ SaveUsyc
  BY <1>7, PartsSave DEF SaveBondV2, SaveAdapter, SaveRightsClaimBond, SaveSessionGuard, SaveUsyc
<1>8. CASE UsycBond
  <2>1. PICK r \in Registries :
          /\ NewContract("bond", [NoAddresses EXCEPT !["registry"] = r], Deployer)
          /\ run' = [script |-> "usyc", step |-> "post", wallet |-> Deployer,
                     out |-> [NoFile EXCEPT !.at["bond"] = deployed + 1]]
    BY <1>8 DEF UsycBond, DeployBond
  <2>2. files' = files BY <1>8 DEF UsycBond, OnlyChainAndRuns
  <2>3. run'.script = "usyc" /\ run'.out.at["bond"] = deployed + 1
    <3> DEFINE b == deployed + 1
    <3>1. run'.script = "usyc" /\ run'.out = FileOf("bond", b) BY <2>1 DEF FileOf
    <3> HIDE DEF b
    <3>2. run'.out.at["bond"] = b BY <3>1, OneNamed
    <3> QED BY <3>1, <3>2 DEF b
  <2>4. RunHas' BY <1>0, <2>3 DEF RunHas, Needed
  <2>5. r # 0 /\ r <= deployed /\ contracts[r].kind = "registry" /\ r \in AddressOrZero
    BY RegistryIsThere
  <2>6. [NoAddresses EXCEPT !["registry"] = r] \in Maps
        /\ \A k \in Kinds : [NoAddresses EXCEPT !["registry"] = r][k] = IF k = "registry" THEN r ELSE 0
    BY <2>5, BuildingOnRegistry
  <2>7. Usable("bond", [NoAddresses EXCEPT !["registry"] = r]) BY <2>5, <2>6 DEF Usable, Needs
  <2> QED BY <2>1, <2>2, <2>4, <2>6, <2>7, PartsGrow
<1>9. CASE UsycPost
  <2>1. OnlyChain /\ Goto("save") /\ AddMember(Made("bond"), Deployer) /\ run.script = "usyc"
    BY <1>9 DEF UsycPost, At
  <2>2. Missing(run.script, "save") = Missing(run.script, run.step) BY <2>1 DEF Missing
  <2> QED BY <2>1, <2>2, PartsMember
<1>10. CASE UsycUnposted
  <2>1. OnlyChain /\ Goto("save") /\ UNCHANGED chainVars /\ run.script = "usyc" BY <1>10 DEF UsycUnposted, At
  <2>2. Missing(run.script, "save") = Missing(run.script, run.step) BY <2>1 DEF Missing
  <2>3. files' = files BY <2>1 DEF OnlyChain
  <2> QED BY <2>1, <2>2, <2>3, Still, Going, PartsQuiet
<1> QED BY <1>1, <1>2, <1>3, <1>4, <1>5, <1>6, <1>7, <1>8, <1>9, <1>10 DEF Upgrades

(* The scripts of the bounty, the rail and the claims build on what they have made. *)
LEMMA PartsVerticals == ASSUME Inv, PartsInv, Verticals PROVE PartsInv'
<1> USE InvTyped, Names, People
<1>0. deployed + 1 # 0 BY AtTypes
<1>1. CASE Bounty
  <2>1. files["standalone"].at["registry"] # 0 BY <1>1 DEF Bounty, PartsInv, Needed
  <2>2. files' = files /\ run'.script = "exploit_bounty"
        /\ NewContract("bounty", [NoAddresses EXCEPT !["registry"] = files["standalone"].at["registry"]], Deployer)
        /\ run'.out = [NoFile EXCEPT !.at["registry"] = files["standalone"].at["registry"], !.at["bounty"] = deployed + 1]
    BY <1>1 DEF Bounty, OnlyChainAndRuns
  <2>3. run'.out.at["registry"] = files["standalone"].at["registry"] /\ run'.out.at["bounty"] = deployed + 1
    <3> DEFINE a == files["standalone"].at["registry"]
               b == deployed + 1
    <3>1. "registry" \in Kinds /\ "bounty" \in Kinds \ {"registry"} OBVIOUS
    <3>2. run'.out = FileOfTwo("registry", a, "bounty", b) BY <2>2 DEF FileOfTwo
    <3> HIDE DEF a, b
    <3>3. run'.out.at["registry"] = a /\ run'.out.at["bounty"] = b BY <3>1, <3>2, TwoNamed
    <3> QED BY <3>3 DEF a, b
  <2>4. RunHas' BY <1>0, <2>1, <2>2, <2>3 DEF RunHas, Needed
  <2>5. \A k \in Kinds : Needs("bounty", k) => k = "registry" BY DEF Needs
  <2> QED BY <2>1, <2>2, <2>4, <2>5, FileIsUsable, PartsGrow
<1>2. CASE BountyProvision \/ TrainingProvision
  <2>1. PICK name \in KeyNames, step \in {"wire", "upsert"} : Provision(name, step)
    BY <1>2 DEF BountyProvision, TrainingProvision
  <2>2. files' = files /\ UNCHANGED chainVars /\ run.script \in {"exploit_bounty", "training_compensation"}
        /\ run.step = "provision"
    BY <1>2 DEF BountyProvision, TrainingProvision, At
  <2>3. run'.script = run.script /\ run'.out.at = run.out.at /\ run'.step \in {"register", "wire", "upsert"}
    BY <2>1 DEF Provision, Runs, File
  <2>4. Missing(run'.script, run'.step) = Missing(run.script, run.step) BY <2>2, <2>3 DEF Missing
  <2> QED BY <2>2, <2>3, <2>4, Still, PartsQuiet
<1>3. CASE BountyRegister \/ TrainingRegister
  <2>1. PICK step \in {"wire", "upsert"} : Goto(step) BY <1>3 DEF BountyRegister, TrainingRegister
  <2>2. OnlyChain /\ AddMember(Made("registry"), run.wallet) /\ run.step = "register"
        /\ run.script \in {"exploit_bounty", "training_compensation"}
    BY <1>3 DEF BountyRegister, TrainingRegister, RegisterAgent, At
  <2>3. Missing(run.script, step) = Missing(run.script, run.step) BY <2>2 DEF Missing
  <2> QED BY <2>1, <2>2, <2>3, PartsMember
<1>4. CASE BountyWire
  <2>1. PICK step \in {"save", "upsert"} : Goto(step) BY <1>4 DEF BountyWire
  <2>2. OnlyChain /\ SetRole(Made("bounty"), run.wallet) /\ run.script = "exploit_bounty" BY <1>4 DEF BountyWire, At
  <2>3. Missing(run.script, step) = Missing(run.script, run.step) BY <2>2 DEF Missing
  <2> QED BY <2>1, <2>2, <2>3, PartsRole
<1>5. CASE BountyUpsert \/ TrainingUpsert
  <2>1. PICK step \in {"save", "wire"} : Goto(step) BY <1>5 DEF BountyUpsert, TrainingUpsert
  <2>2. files' = files /\ UNCHANGED chainVars /\ run.step = "upsert" /\ run.script \in {"exploit_bounty", "training_compensation"}
    BY <1>5 DEF BountyUpsert, TrainingUpsert, At
  <2>3. Missing(run.script, step) = Missing(run.script, run.step) BY <2>2 DEF Missing
  <2> QED BY <2>1, <2>2, <2>3, Still, Going, PartsQuiet
<1>6. CASE SaveBounty \/ SaveTraining
  BY <1>6, PartsSave DEF SaveBounty, SaveTraining
<1>7. CASE Training
  <2>1. files["standalone"].at["registry"] # 0 BY <1>7 DEF Training, PartsInv, Needed
  <2>2. files' = files /\ run'.script = "training_compensation" /\ run'.step = "pool"
        /\ NewContract("artists", NoAddresses, Nobody)
        /\ run'.out = [NoFile EXCEPT !.at["registry"] = files["standalone"].at["registry"], !.at["artists"] = deployed + 1]
    BY <1>7 DEF Training, OnlyChainAndRuns
  <2>3. run'.out.at["registry"] = files["standalone"].at["registry"]
    <3> DEFINE a == files["standalone"].at["registry"]
               b == deployed + 1
    <3>1. "registry" \in Kinds /\ "artists" \in Kinds \ {"registry"} OBVIOUS
    <3>2. run'.out = FileOfTwo("registry", a, "artists", b) BY <2>2 DEF FileOfTwo
    <3> HIDE DEF a, b
    <3>3. run'.out.at["registry"] = a /\ run'.out.at["artists"] = b BY <3>1, <3>2, TwoNamed
    <3> QED BY <3>3 DEF a, b
  <2>4. RunHas' BY <2>1, <2>2, <2>3 DEF RunHas, Needed, Missing
  <2> QED BY <2>2, <2>4, NothingIsUsable, PartsGrow
<1>8. CASE TrainingPool
  <2>1. files' = files /\ run.script = "training_compensation" /\ run.step = "pool"
        /\ NewContract("pool", NoAddresses, Deployer) /\ GotoWith("claim", "pool")
    BY <1>8 DEF TrainingPool, At, OnlyChain
  <2>2. deployed + 1 \in AddressOrZero BY <2>1, NewContractEffect, EmptyFile
  <2>3. run'.script = run.script /\ run'.step = "claim" /\ run'.out.at = [run.out.at EXCEPT !["pool"] = deployed + 1]
    BY <2>1, <2>2, GoingWith
  <2>4. run.out.at["registry"] # 0 BY <2>1 DEF PartsInv, Needed, Missing
  <2>5. run'.out.at["registry"] # 0 /\ run'.out.at["pool"] # 0 BY <1>0, <2>3, <2>4, AtTypes DEF Maps
  <2>6. RunHas' BY <2>1, <2>3, <2>5 DEF RunHas, Needed, Missing
  <2> QED BY <2>1, <2>6, NothingIsUsable, PartsGrow
<1>9. CASE CompensationClaim
  <2> DEFINE built == [NoAddresses EXCEPT !["registry"] = Made("registry"), !["pool"] = Made("pool")]
  <2>1. files' = files /\ run.script = "training_compensation" /\ run.step = "claim"
        /\ NewContract("claim", built, Deployer) /\ GotoWith("provision", "claim")
    BY <1>9 DEF CompensationClaim, At, OnlyChain
  <2>2. built \in Maps
        /\ \A k \in Kinds : built[k] = IF k \in {"registry", "pool"} THEN run.out.at[k] ELSE 0
    BY MadeType, EmptyFile DEF Maps, NoAddresses
  <2> HIDE DEF built
  <2>3. deployed + 1 \in AddressOrZero BY <2>1, <2>2, NewContractEffect DEF Maps
  <2>4. run'.script = run.script /\ run'.step = "provision" /\ run'.out.at = [run.out.at EXCEPT !["claim"] = deployed + 1]
    BY <2>1, <2>3, GoingWith
  <2>5. run.out.at["registry"] # 0 /\ run.out.at["pool"] # 0 BY <2>1 DEF PartsInv, Needed, Missing
  <2>6. run'.out.at["registry"] # 0 /\ run'.out.at["pool"] # 0 /\ run'.out.at["claim"] # 0
    BY <1>0, <2>4, <2>5, AtTypes DEF Maps
  <2>7. RunHas' BY <2>1, <2>4, <2>6 DEF RunHas, Needed
  <2>8. Usable("claim", built) BY <2>2, <2>5 DEF Usable, Needs, Inv, RunFits, Fits
  <2> QED BY <2>1, <2>2, <2>7, <2>8, PartsGrow
<1>10. CASE WireIngestor \/ WireDistributor
  <2>1. PICK step \in {"wirePool", "save"} : Goto(step) /\ step = (IF run.step = "wire" THEN "wirePool" ELSE "save")
    BY <1>10 DEF WireIngestor, WireDistributor, At
  <2>2. PICK a, r \in WalletOrNobody \cup AddressOrZero : SetRole(a, r)
    BY <1>10, MadeType DEF WireIngestor, WireDistributor
  <2>3. OnlyChain /\ run.script = "training_compensation" /\ run.step \in {"wire", "wirePool"}
    BY <1>10 DEF WireIngestor, WireDistributor, At
  <2>4. Missing(run.script, step) = Missing(run.script, run.step) BY <2>1, <2>3 DEF Missing
  <2> QED BY <2>1, <2>2, <2>3, <2>4, PartsRole
<1>11. CASE Catalog
  <2>1. files' = files /\ UNCHANGED chainVars /\ run' = [Idle EXCEPT !.script = "acquisition_catalog", !.step = "company"]
    BY <1>11 DEF Catalog, OnlyChainAndRuns
  <2>2. run'.script = "acquisition_catalog" BY <2>1 DEF Idle
  <2>3. RunHas' BY <2>2 DEF RunHas, Needed
  <2> QED BY <2>1, <2>3, Still, GroundedKept DEF PartsInv, RunHas, Exists
<1>12. CASE CatalogCompany \/ CatalogArtist \/ CatalogFundCompany \/ CatalogFundArtist
  <2>1. files' = files /\ UNCHANGED chainVars /\ run'.script = run.script /\ run'.out.at = run.out.at
        /\ run.script = "acquisition_catalog"
    <3>1. CASE CatalogCompany \/ CatalogArtist
      <4>0. PICK name \in KeyNames, step \in Steps : GetOrCreateWallet(name, step)
        BY <3>1 DEF CatalogCompany, CatalogArtist
      <4>1. PICK w \in GenerateOrReuse(name) :
              run' = [run EXCEPT !.wallet = w, !.out.wallets[name] = w, !.step = step]
        BY <4>0 DEF GetOrCreateWallet
      <4>2. run'.script = run.script /\ run'.out.at = run.out.at BY <4>1 DEF Runs, File
      <4> QED BY <3>1, <4>2 DEF CatalogCompany, CatalogArtist, GetOrCreateWallet, At
    <3>2. CASE CatalogFundCompany \/ CatalogFundArtist
      BY <3>2 DEF CatalogFundCompany, CatalogFundArtist, Fund, Goto, At, Runs
    <3> QED BY <1>12, <3>1, <3>2
  <2>2. Missing(run'.script, run'.step) = Missing(run.script, run.step) BY <2>1 DEF Missing
  <2> QED BY <2>1, <2>2, Still, PartsQuiet
<1>13. CASE RegisterTrack
  <2>1. files' = files /\ run' = run BY <1>13 DEF RegisterTrack, OnlyChain
  <2> QED BY <1>13, <2>1, TracksEffect, PartsQuiet
<1>14. CASE SaveCatalog
  <2>1. files' = [files EXCEPT !["acquisition_catalog"] = run.out] /\ run' = Idle /\ UNCHANGED chainVars
    BY <1>14 DEF SaveCatalog
  <2>2. \A n \in FileNames : files'[n] = IF n = "acquisition_catalog" THEN run.out ELSE files[n] BY <2>1 DEF RestOK
  <2>3. RunHas' BY <2>1, Idling DEF RunHas, Needed
  <2>4. \A n \in FileNames : (Exists(n))' => \A k \in Needed(n) : files'[n].at[k] # 0
    BY <2>2 DEF PartsInv, Exists, Needed
  <2> QED BY <2>1, <2>3, <2>4, Still, GroundedKept DEF PartsInv, RunHas
<1> QED
  BY <1>1, <1>2, <1>3, <1>4, <1>5, <1>6, <1>7, <1>8, <1>9, <1>10, <1>11, <1>12, <1>13, <1>14 DEF Verticals

(* Every step keeps constructor arguments and addresses grounded. *)
LEMMA PartsStep == ASSUME Inv, PartsInv, [Next]_vars PROVE PartsInv'
<1> USE InvTyped, Names, People
<1>1. CASE Stack \/ Upgrades \/ Verticals BY <1>1, PartsStack, PartsUpgrades, PartsVerticals
<1>2. CASE Commands
  <2>1. ASSUME NEW w \in Agents \cup {Deployer}, Register(w) \/ PostBond(w) PROVE PartsInv'
    <3>1. (\E a : AddMember(a, w)) /\ files' = files /\ run' = run
      BY <2>1 DEF Register, PostBond, RegisterAgent, Command, OnlyChainAndRuns
    <3>2. w \in WalletOrNobody OBVIOUS
    <3> QED BY <3>1, <3>2, MemberEffect, PartsQuiet
  <2>2. ASSUME NEW w \in WalletOrNobody \cup AddressOrZero, SetAuthorizedSlasher(w) \/ GrantOrRevoke(w) PROVE PartsInv'
    <3>1. (\E a : SetRole(a, w)) /\ files' = files /\ run' = run
      BY <2>2 DEF SetAuthorizedSlasher, GrantOrRevoke, Command, OnlyChainAndRuns
    <3> QED BY <3>1, RoleEffect, PartsQuiet
  <2>3. ASSUME NEW w \in Agents, TransferOwnership(w) PROVE PartsInv'
    <3>1. files' = files /\ run' = run BY <2>3 DEF TransferOwnership, Command, OnlyChainAndRuns
    <3> QED BY <2>3, <3>1, OwnerEffect, PartsQuiet
  <2>4. ASSUME NEW w \in Agents, SetAgentId(w) PROVE PartsInv'
    <3>1. files' = files /\ run' = run /\ UNCHANGED chainVars BY <2>4 DEF SetAgentId, Command
    <3> QED BY <3>1, Still, PartsQuiet
  <2>5. ASSUME NEW w, NEW force, RegisterIdentity(w, force) PROVE PartsInv'
    <3>1. files' = files /\ UNCHANGED chainVars /\ run'.script = "identity" BY <2>5 DEF RegisterIdentity, Idle
    <3>2. RunHas' BY <3>1 DEF RunHas, Needed
    <3> QED BY <3>1, <3>2, Still, GroundedKept DEF PartsInv, RunHas, Exists
  <2>6. CASE SaveIdentity
    <3>1. files' = files /\ UNCHANGED chainVars /\ run' = Idle BY <2>6 DEF SaveIdentity
    <3> QED BY <3>1, Still, PartsIdle
  <2> QED BY <1>2, <2>1, <2>2, <2>3, <2>4, <2>5, <2>6, AnyIsAccount DEF Commands
<1>3. CASE Crash
  <2>1. files' = files /\ UNCHANGED chainVars /\ run' = Idle BY <1>3 DEF Crash
  <2> QED BY <2>1, Still, PartsIdle
<1>4. CASE UNCHANGED vars
  BY <1>4 DEF vars, PartsInv, Exists
<1> QED BY <1>1, <1>2, <1>3, <1>4 DEF Next

(* What files and running scripts name has been deployed. *)
LEMMA PartsHold == Spec => [](Inv /\ PartsInv)
<1>1. ASSUME Init PROVE PartsInv
  <2>1. Grounded(contracts, deployed) BY <1>1, DeploymentAssumption DEF Init, Grounded, Addresses, DeploymentAssumption
  <2>2. Needed(run.script) = {} BY <1>1 DEF Init, Idle, Needed
  <2> QED BY <1>1, <2>1, <2>2 DEF Init, PartsInv, Exists
<1> QED BY <1>1, PartsStep, InvHolds, PTL DEF Spec

-----------------------------------------------------------------------------
(* What one step does to the chain: nothing, one more contract, a new member  *)
(* (of a bond only if its registry knows him), a new role in a bond or a      *)
(* guard (of a bond to its own guard, but by hand to any address), a role     *)
(* given by the scripts of the bounty and the rail, or a change of owners and *)
(* tracks only.                                                               *)

Growth == \E kind \in Kinds, built \in Maps, role \in WalletOrNobody : NewContract(kind, built, role)
Joining ==
  \E a, w \in WalletOrNobody \cup AddressOrZero :
    /\ AddMember(a, w)
    /\ w \in WalletOrNobody
    /\ a \in Addresses /\ contracts[a].kind = "bond" => MayPost(a, w)
GuardOf(r, a) == r \in Addresses /\ r <= deployed /\ contracts[r].kind = "guard" /\ contracts[r].built["bond"] = a
ByHand == \E r \in AnyAddress : SetAuthorizedSlasher(r)
Appointing ==
  \E a, r \in WalletOrNobody \cup AddressOrZero :
    /\ SetRole(a, r)
    /\ a \in Addresses => contracts[a].kind \in {"bond", "guard"}
    /\ a \in Addresses /\ contracts[a].kind = "bond" => ByHand \/ GuardOf(r, a)
Wiring == BountyWire \/ WireIngestor \/ WireDistributor
Relabelling ==
  /\ deployed' = deployed
  /\ \A a \in Addresses :
       /\ contracts'[a].kind = contracts[a].kind /\ contracts'[a].built = contracts[a].built
       /\ contracts'[a].members = contracts[a].members /\ contracts'[a].role = contracts[a].role

(* Wallets are not addresses. *)
LEMMA Apart == WalletOrNobody \cap AddressOrZero = {} /\ Addresses \subseteq AddressOrZero /\ 0 \notin Addresses
BY DeploymentAssumption DEF WalletOrNobody, Wallets, AddressOrZero, Addresses, DeploymentAssumption

(* The address a file names is of the kind it is listed under. *)
LEMMA NamedKind ==
  ASSUME Inv, NEW n \in FileNames, NEW k \in Kinds
  PROVE  files[n].at[k] \in AddressOrZero /\ (files[n].at[k] \in Addresses => contracts[files[n].at[k]].kind = k)
<1>1. files[n].at \in Maps /\ Fits(contracts, deployed, files[n].at) BY AtTypes DEF Inv
<1> QED BY <1>1, Apart DEF Fits, Maps
(* The same of an address the run has made, and it is deployed. *)
LEMMA MadeKind ==
  ASSUME Inv, NEW k \in Kinds
  PROVE  Made(k) \in AddressOrZero /\ (Made(k) \in Addresses => contracts[Made(k)].kind = k /\ Made(k) <= deployed)
<1>1. run.out.at \in Maps /\ Fits(contracts, deployed, run.out.at) BY AtTypes DEF Inv, RunFits
<1> QED BY <1>1, Apart DEF Fits, Maps, Made

(* What the scripts of the bond stack do to the chain. *)
LEMMA StackChain == ASSUME Inv, PartsInv, Stack PROVE UNCHANGED chainVars \/ Growth \/ Joining
<1> USE Names, People
<1>1. CASE StandaloneRegistry \/ NetworkMockRegistry
  <2>1. NewContract("registry", NoAddresses, Nobody) BY <1>1 DEF StandaloneRegistry, NetworkMockRegistry
  <2> QED BY <2>1, NoneMap DEF Growth
<1>2. CASE StandaloneRegister \/ NetworkVerify
  <2>1. AddMember(Made("registry"), Deployer) BY <1>2 DEF StandaloneRegister, NetworkVerify, RegisterAgent
  <2> QED BY <2>1, MadeKind DEF Joining
<1>3. CASE StandaloneBond \/ NetworkBond
  <2>1. NewContract("bond", [NoAddresses EXCEPT !["registry"] = Made("registry")], Deployer)
    BY <1>3 DEF StandaloneBond, NetworkBond, DeployBond
  <2>2. [NoAddresses EXCEPT !["registry"] = Made("registry")] \in Maps BY MadeType, BuildingOnRegistry
  <2> QED BY <2>1, <2>2 DEF Growth
<1>4. CASE StandalonePost \/ NetworkPost
  <2>1. AddMember(Made("bond"), Deployer) /\ MayPost(Made("bond"), Deployer) BY <1>4 DEF StandalonePost, NetworkPost
  <2> QED BY <2>1, MadeKind DEF Joining
<1>5. CASE SaveStandalone \/ SaveNetwork \/ NetworkLiveRegistry
  BY <1>5 DEF SaveStandalone, SaveNetwork, SaveFile, NetworkLiveRegistry
<1> QED BY <1>1, <1>2, <1>3, <1>4, <1>5 DEF Stack

(* What the scripts that replace or extend the stack do to the chain. *)
LEMMA UpgradesChain == ASSUME Inv, PartsInv, Upgrades PROVE UNCHANGED chainVars \/ Growth \/ Joining \/ Appointing
<1> USE Names, People
<1>1. CASE BondV2 \/ RightsClaimBond \/ Adapter \/ SessionGuard
  <2>1. PICK kind \in Kinds, n \in FileNames, l \in Kinds, role \in WalletOrNobody :
          NewContract(kind, [NoAddresses EXCEPT ![l] = files[n].at[l]], role)
    BY <1>1 DEF BondV2, DeployBond, RightsClaimBond, Adapter, SessionGuard
  <2> QED BY <2>1, Reading DEF Growth
<1>2. CASE ActivateGuard
  <2>1. SetRole(Made("bond"), Made("guard")) /\ run.script = "session_guard" BY <1>2 DEF ActivateGuard, At
  <2>2. Made("bond") # 0 /\ Made("guard") # 0 BY <2>1 DEF PartsInv, Needed, Missing, Made
  <2>3. Made("bond") \in Addresses /\ Made("guard") \in Addresses BY <2>2, MadeKind DEF Addresses, AddressOrZero
  <2>4. contracts[Made("guard")].built["bond"] # 0 BY <2>3, MadeKind DEF PartsInv, Grounded, Needs
  <2>5. contracts[Made("guard")].built["bond"] = Made("bond")
    <3>1. Fits(contracts, deployed, run.out.at) BY DEF Inv, RunFits
    <3> QED BY <2>2, <2>4, <3>1 DEF Fits, Made
  <2> QED BY <2>1, <2>3, <2>5, MadeKind DEF Appointing, GuardOf
<1>3. CASE UsycBond
  <2>1. PICK r \in Registries : NewContract("bond", [NoAddresses EXCEPT !["registry"] = r], Deployer)
    BY <1>3 DEF UsycBond, DeployBond
  <2>2. [NoAddresses EXCEPT !["registry"] = r] \in Maps BY RegistryIsThere, BuildingOnRegistry
  <2> QED BY <2>1, <2>2 DEF Growth
<1>4. CASE UsycPost
  <2>1. AddMember(Made("bond"), Deployer) /\ MayPost(Made("bond"), Deployer) BY <1>4 DEF UsycPost
  <2> QED BY <2>1, MadeKind DEF Joining
<1>5. CASE \/ ActivationReverts \/ PostReverts \/ UsycUnposted
           \/ SaveBondV2 \/ SaveAdapter \/ SaveRightsClaimBond \/ SaveSessionGuard \/ SaveUsyc
  BY <1>5 DEF ActivationReverts, PostReverts, Abort, UsycUnposted, SaveBondV2, SaveAdapter,
              SaveRightsClaimBond, SaveSessionGuard, SaveUsyc, SaveFile
<1> QED BY <1>1, <1>2, <1>3, <1>4, <1>5 DEF Upgrades

(* What the scripts of the bounty, the rail and the claims do to the chain. *)
LEMMA VerticalsChain ==
  ASSUME Inv, PartsInv, Verticals PROVE UNCHANGED chainVars \/ Growth \/ Joining \/ Wiring \/ Relabelling
<1> USE Names, People
<1>1. CASE Bounty
  <2>1. NewContract("bounty", [NoAddresses EXCEPT !["registry"] = files["standalone"].at["registry"]], Deployer)
    BY <1>1 DEF Bounty
  <2> QED BY <2>1, Reading DEF Growth
<1>2. CASE Training \/ TrainingPool
  <2>1. \E kind \in Kinds, role \in WalletOrNobody : NewContract(kind, NoAddresses, role) BY <1>2 DEF Training, TrainingPool
  <2> QED BY <2>1, NoneMap DEF Growth
<1>3. CASE CompensationClaim
  <2> DEFINE built == [NoAddresses EXCEPT !["registry"] = Made("registry"), !["pool"] = Made("pool")]
  <2>1. NewContract("claim", built, Deployer) BY <1>3 DEF CompensationClaim
  <2>2. built \in Maps BY MadeType, EmptyFile DEF Maps, NoAddresses
  <2> HIDE DEF built
  <2> QED BY <2>1, <2>2 DEF Growth
<1>4. CASE BountyRegister \/ TrainingRegister
  <2>1. AddMember(Made("registry"), run.wallet) BY <1>4 DEF BountyRegister, TrainingRegister, RegisterAgent
  <2> QED BY <2>1, MadeKind, InvTyped DEF Joining
<1>5. CASE RegisterTrack
  <2>1. PICK t \in Tracks : contracts' = [contracts EXCEPT ![CatalogArtists].tracks[t] =
                                                              run.out.wallets["ACQ_ARTIST"]]
    BY <1>5 DEF RegisterTrack, Unregistered
  <2>2. deployed' = deployed /\ contracts \in [Addresses -> Contract] BY <1>5, InvTyped DEF RegisterTrack, ChainOK
  <2> QED BY <2>1, <2>2 DEF Relabelling, Contract
<1>6. CASE \/ Catalog \/ CatalogCompany \/ CatalogArtist \/ CatalogFundCompany \/ CatalogFundArtist \/ SaveCatalog
  BY <1>6 DEF Catalog, CatalogCompany, CatalogArtist, CatalogFundCompany, CatalogFundArtist, SaveCatalog,
              GetOrCreateWallet, Fund
<1>7. CASE \/ BountyProvision \/ TrainingProvision \/ BountyUpsert \/ TrainingUpsert \/ SaveBounty \/ SaveTraining
  BY <1>7 DEF BountyProvision, TrainingProvision, BountyUpsert, TrainingUpsert, SaveBounty, SaveTraining, SaveFile
<1> QED BY <1>1, <1>2, <1>3, <1>4, <1>5, <1>6, <1>7 DEF Verticals, Wiring

(* What the operator's commands do to the chain. *)
LEMMA CommandsChain ==
  ASSUME Inv, PartsInv, Commands PROVE UNCHANGED chainVars \/ Joining \/ Appointing \/ Relabelling
<1> USE Names, People
<1>1. ASSUME NEW w \in Agents \cup {Deployer}, Register(w) PROVE Joining
  <2>1. AddMember(files["standalone"].at["registry"], w) BY <1>1 DEF Register, RegisterAgent
  <2> QED BY <2>1, NamedKind DEF Joining
<1>2. ASSUME NEW w \in Agents \cup {Deployer}, PostBond(w) PROVE Joining
  <2>1. AddMember(files["standalone"].at["bond"], w) /\ MayPost(files["standalone"].at["bond"], w)
    BY <1>2 DEF PostBond
  <2> QED BY <2>1, NamedKind DEF Joining
<1>3. ASSUME NEW r \in AnyAddress, SetAuthorizedSlasher(r) PROVE Appointing
  <2>1. SetRole(files["standalone"].at["bond"], r) BY <1>3 DEF SetAuthorizedSlasher
  <2>2. ByHand BY <1>3 DEF ByHand
  <2>3. r \in WalletOrNobody \cup AddressOrZero BY AnyIsAccount
  <2> QED BY <2>1, <2>2, <2>3, NamedKind DEF Appointing
<1>4. ASSUME NEW w \in Agents \cup {Nobody}, GrantOrRevoke(w) PROVE Appointing
  <2>1. SetRole(files["session_guard"].at["guard"], w) BY <1>4 DEF GrantOrRevoke
  <2> QED BY <2>1, NamedKind DEF Appointing
<1>5. ASSUME NEW w \in Agents, TransferOwnership(w) PROVE Relabelling
  <2>1. PICK a : contracts' = [contracts EXCEPT ![a].owner = w] BY <1>5 DEF TransferOwnership
  <2>2. deployed' = deployed /\ contracts \in [Addresses -> Contract] BY <1>5, InvTyped DEF TransferOwnership, ChainOK
  <2> QED BY <2>1, <2>2 DEF Relabelling, Contract
<1>6. ASSUME NEW w, NEW force, SetAgentId(w) \/ RegisterIdentity(w, force) \/ SaveIdentity PROVE UNCHANGED chainVars
  BY <1>6 DEF SetAgentId, RegisterIdentity, SaveIdentity
<1> QED BY <1>1, <1>2, <1>3, <1>4, <1>5, <1>6 DEF Commands

(* Every step does one of these to the chain. *)
LEMMA ChainStep ==
  ASSUME Inv, PartsInv, [Next]_vars
  PROVE  UNCHANGED chainVars \/ Growth \/ Joining \/ Appointing \/ Wiring \/ Relabelling
<1>1. CASE Crash \/ UNCHANGED vars BY <1>1 DEF Crash, vars, chainVars
<1> QED BY <1>1, StackChain, UpgradesChain, VerticalsChain, CommandsChain DEF Next

-----------------------------------------------------------------------------
(* Bonds: stakers are registered. *)
BondsInv == \A a \in Addresses : IsBond(a) => StakersAreRegistered(a)

(* The registry of a bond is another contract, already deployed. *)
LEMMA RegistryOfBond ==
  ASSUME Inv, PartsInv, NEW a \in Addresses, a <= deployed, contracts[a].kind = "bond"
  PROVE  LET r == contracts[a].built["registry"] IN
           r \in Addresses /\ r <= deployed /\ contracts[r].kind = "registry" /\ r # a
<1>1. contracts[a].built["registry"] \in AddressOrZero BY InvTyped, Names DEF ChainOK, Contract
<1>2. contracts[a].built["registry"] # 0 /\ contracts[a].built["registry"] <= deployed
      /\ contracts[contracts[a].built["registry"]].kind = "registry"
  BY Names DEF PartsInv, Grounded, Needs
<1> QED BY <1>1, <1>2 DEF Addresses, AddressOrZero

(* A new contract has no members. *)
LEMMA BondsGrow == ASSUME Inv, PartsInv, BondsInv, Growth PROVE BondsInv'
<1>1. PICK kind \in Kinds, built \in Maps, role \in WalletOrNobody : NewContract(kind, built, role) BY DEF Growth
<1>2. /\ deployed + 1 \in Addresses /\ deployed' = deployed + 1 /\ deployed \in Nat
      /\ \A a \in Addresses : a # deployed + 1 => contracts'[a] = contracts[a]
  BY <1>1, InvTyped, AtTypes, NewContractEffect DEF Maps
<1>3. contracts'[deployed + 1].members = {} BY <1>1, <1>2, InvTyped DEF NewContract, ChainOK
<1> SUFFICES ASSUME NEW a \in Addresses, a <= deployed + 1, contracts'[a].kind = "bond"
             PROVE  contracts'[a].members \subseteq contracts'[contracts'[a].built["registry"]].members
  BY <1>2 DEF BondsInv, IsBond, StakersAreRegistered
<1>4. CASE a = deployed + 1 BY <1>3, <1>4
<1>5. CASE a # deployed + 1
  <2>1. contracts'[a] = contracts[a] /\ a <= deployed BY <1>2, <1>5 DEF Addresses
  <2> DEFINE r == contracts[a].built["registry"]
  <2>2. r \in Addresses /\ r <= deployed BY <2>1, RegistryOfBond
  <2>3. contracts'[r] = contracts[r] BY <1>2, <2>2
  <2>4. contracts[a].members \subseteq contracts[r].members
    BY <2>1 DEF BondsInv, IsBond, StakersAreRegistered
  <2> QED BY <2>1, <2>3, <2>4
<1> QED BY <1>4, <1>5

(* Steps that keep shape and lose no member, and whose new stakers are registered. *)
LEMMA BondsKept ==
  ASSUME Inv, PartsInv, BondsInv, SameShape,
         \A a \in Addresses : contracts[a].members \subseteq contracts'[a].members,
         \A a \in Addresses : a <= deployed /\ contracts[a].kind = "bond" =>
           contracts'[a].members \subseteq contracts[a].members \cup contracts[contracts[a].built["registry"]].members
  PROVE  BondsInv'
<1> SUFFICES ASSUME NEW a \in Addresses, a <= deployed, contracts[a].kind = "bond"
             PROVE  contracts'[a].members \subseteq contracts'[contracts'[a].built["registry"]].members
  BY DEF BondsInv, SameShape, IsBond, StakersAreRegistered
<1>1. contracts[a].members \subseteq contracts[contracts[a].built["registry"]].members
  BY DEF BondsInv, IsBond, StakersAreRegistered
<1>2. contracts[a].built["registry"] \in Addresses BY RegistryOfBond
<1>3. contracts'[a].built = contracts[a].built BY DEF SameShape
<1> QED BY <1>1, <1>2, <1>3

(* A new staker or member leaves every bond with registered stakers. *)
LEMMA BondsJoin == ASSUME Inv, PartsInv, BondsInv, Joining PROVE BondsInv'
<1>1. PICK a, w \in WalletOrNobody \cup AddressOrZero :
        /\ AddMember(a, w) /\ w \in WalletOrNobody
        /\ a \in Addresses /\ contracts[a].kind = "bond" => MayPost(a, w)
  BY DEF Joining
<1>2. SameShape BY <1>1, InvTyped, MemberEffect
<1>3. \A b \in Addresses :
        contracts'[b].members = IF b = a THEN contracts[b].members \cup {w} ELSE contracts[b].members
  BY <1>1, InvTyped DEF AddMember, ChainOK, Contract
<1>4. \A b \in Addresses : contracts[b].kind = "bond" =>
        contracts'[b].members \subseteq contracts[b].members \cup contracts[contracts[b].built["registry"]].members
  BY <1>1, <1>3 DEF MayPost
<1> QED BY <1>2, <1>3, <1>4, BondsKept

(* A role takes away no member. *)
LEMMA BondsRole ==
  ASSUME Inv, PartsInv, BondsInv, NEW a, NEW r \in WalletOrNobody \cup AddressOrZero, SetRole(a, r)
  PROVE  BondsInv'
<1>1. SameShape BY InvTyped, RoleEffect
<1>2. \A b \in Addresses : contracts'[b].members = contracts[b].members
  BY InvTyped DEF SetRole, ChainOK, Contract
<1> QED BY <1>1, <1>2, BondsKept

(* The scripts of the bounty and the rail give a role, to no bond. *)
LEMMA WiringIsRole ==
  ASSUME Inv, Wiring
  PROVE  \E a, r \in WalletOrNobody \cup AddressOrZero :
            SetRole(a, r) /\ \A b \in Addresses : contracts[b].kind = "bond" => b # a
<1>1. PICK k \in {"bounty", "claim", "pool"}, r \in WalletOrNobody \cup AddressOrZero : SetRole(Made(k), r)
  BY InvTyped, MadeType, Names DEF Wiring, BountyWire, WireIngestor, WireDistributor
<1>2. \A b \in Addresses : contracts[b].kind = "bond" => b # Made(k) BY MadeKind, Names
<1>3. Made(k) \in AddressOrZero BY MadeType, Names
<1> QED BY <1>1, <1>2, <1>3

(* Every step leaves every bond with registered stakers. *)
LEMMA BondsStep == ASSUME Inv, PartsInv, BondsInv, [Next]_vars PROVE BondsInv'
<1>1. CASE UNCHANGED chainVars BY <1>1 DEF chainVars, BondsInv, IsBond, StakersAreRegistered
<1>2. CASE Relabelling
  <2>1. SameShape BY <1>2 DEF Relabelling, SameShape
  <2> QED BY <1>2, <2>1, BondsKept DEF Relabelling
<1>3. CASE Appointing BY <1>3, BondsRole DEF Appointing
<1>4. CASE Wiring BY <1>4, WiringIsRole, BondsRole
<1> QED BY <1>1, <1>2, <1>3, <1>4, ChainStep, BondsGrow, BondsJoin

(* A step changes the slasher of a bond only for the bond's own guard, unless *)
(* the operator rotates it by hand.                                           *)
LEMMA SlasherStep ==
  ASSUME Inv, PartsInv, [Next]_vars, NEW a \in Addresses, contracts'[a].kind = "bond",
         contracts'[a].role # contracts[a].role, ~ByHand
  PROVE  LET slasher == contracts'[a].role IN
         slasher \in Addresses => contracts'[slasher].kind = "guard" /\ contracts'[slasher].built["bond"] = a
<1>1. CASE UNCHANGED chainVars \/ Relabelling BY <1>1 DEF chainVars, Relabelling
<1>2. CASE Growth
  <2>1. PICK kind \in Kinds, built \in Maps, role \in WalletOrNobody : NewContract(kind, built, role) BY <1>2 DEF Growth
  <2>2. contracts'[a].role = role BY <2>1, InvTyped DEF NewContract, ChainOK
  <2> QED BY <2>1, <2>2, Apart
<1>3. CASE Joining
  <2>1. contracts'[a].role = contracts[a].role BY <1>3, InvTyped DEF Joining, AddMember, ChainOK, Contract
  <2> QED BY <2>1
<1>4. CASE Appointing
  <2>1. PICK b, r \in WalletOrNobody \cup AddressOrZero :
          SetRole(b, r) /\ (b \in Addresses /\ contracts[b].kind = "bond" => ByHand \/ GuardOf(r, b))
    BY <1>4 DEF Appointing
  <2>2. SameShape BY <2>1, InvTyped, RoleEffect
  <2>3. contracts'[a].role = IF a = b THEN r ELSE contracts[a].role
    BY <2>1, InvTyped DEF SetRole, ChainOK, Contract
  <2>4. a = b /\ contracts'[a].role = r /\ GuardOf(r, a) BY <2>1, <2>2, <2>3 DEF SameShape
  <2> QED BY <2>2, <2>4 DEF GuardOf, SameShape
<1>5. CASE Wiring
  <2>1. PICK b, r \in WalletOrNobody \cup AddressOrZero :
          SetRole(b, r) /\ \A c \in Addresses : contracts[c].kind = "bond" => c # b
    BY <1>5, WiringIsRole
  <2>2. SameShape BY <2>1, InvTyped, RoleEffect
  <2>3. a # b BY <2>1, <2>2 DEF SameShape
  <2>4. contracts'[a].role = contracts[a].role BY <2>1, <2>3, InvTyped DEF SetRole, ChainOK, Contract
  <2> QED BY <2>4
<1> QED BY <1>1, <1>2, <1>3, <1>4, <1>5, ChainStep

(* BondsFitTheirParts for any number of contracts, wallets, runs and deaths:  *)
(* no script makes a contract the slasher of a bond it does not forward to,   *)
(* only the rotation by hand can, to whatever address it is given; and        *)
(* whoever staked in a bond is known to the registry it asks                  *)
(* (deploy_session_guard.js, set-authorized-slasher.js, post-bond.js).        *)
THEOREM BondsKeepTheirParts == Spec => BondsFitTheirParts
<1> DEFINE Kept ==
      \A a \in Addresses : IsBond(a)' =>
        /\ StakersAreRegistered(a)'
        /\ contracts'[a].role # contracts[a].role =>
             SlasherForwards(a)' \/ \E r \in AnyAddress : SetAuthorizedSlasher(r)
<1>1. ASSUME Init PROVE BondsInv
  BY <1>1, DeploymentAssumption DEF Init, BondsInv, IsBond, Addresses, DeploymentAssumption
<1>2. Inv /\ PartsInv /\ BondsInv /\ [Next]_vars => BondsInv' BY BondsStep
<1>3. Inv /\ PartsInv /\ BondsInv' /\ [Next]_vars => Kept
  <2> SUFFICES ASSUME Inv, PartsInv, BondsInv', [Next]_vars, NEW a \in Addresses, IsBond(a)'
               PROVE  /\ StakersAreRegistered(a)'
                      /\ contracts'[a].role # contracts[a].role => SlasherForwards(a)' \/ ByHand
    BY DEF ByHand
  <2>1. StakersAreRegistered(a)' BY DEF BondsInv
  <2>2. contracts'[a].role # contracts[a].role => SlasherForwards(a)' \/ ByHand
    BY SlasherStep DEF SlasherForwards, IsBond
  <2> QED BY <2>1, <2>2
<1>4. Kept => [Kept]_vars OBVIOUS
<1>5. BondsFitTheirParts <=> [][Kept]_vars BY DEF BondsFitTheirParts
<1> HIDE DEF Kept
<1> QED BY <1>1, <1>2, <1>3, <1>4, <1>5, PartsHold, PTL DEF Spec

-----------------------------------------------------------------------------
(* Wallets and keys. What the scripts of the bounty and the rail know of the  *)
(* wallet they wire, at every step, and what their files say when they end.   *)

Registered(at, w) == w \in contracts[at["registry"]].members

(* The wallet the script works with is the one it will save, and the one of   *)
(* the key file if that has one.                                              *)
KeyOK(name) ==
  /\ run.wallet \in FreshWallets /\ run.wallet = run.out.wallets[name]
  /\ Reused(name) => env["root"][name] = run.wallet

(* The contract a script wires is not the one its file names. *)
Elsewhere(n, k) == run.out.at[k] # 0 => run.out.at[k] # files[n].at[k]

BountyRun ==
  /\ run.step \in {"provision", "register", "wire", "upsert", "save"}
  /\ Elsewhere("exploit_bounty", "bounty")
  /\ run.step = "provision" => run.wallet = Nobody
  /\ run.step # "provision" => KeyOK("BOUNTY_VERIFIER")
  /\ run.step \in {"wire", "upsert", "save"} => Registered(run.out.at, run.wallet)
  /\ run.step \in {"upsert", "save"} => contracts[run.out.at["bounty"]].role = run.wallet
  /\ run.step = "upsert" => ~Reused("BOUNTY_VERIFIER")
  /\ run.step = "save" => Reused("BOUNTY_VERIFIER")

TrainingRun ==
  /\ run.step \in {"pool", "claim", "provision", "register", "upsert", "wire", "wirePool", "save"}
  /\ Elsewhere("training_compensation", "claim") /\ Elsewhere("training_compensation", "pool")
  /\ run.step \in {"pool", "claim", "provision"} => run.wallet = Nobody
  /\ run.step \notin {"pool", "claim", "provision"} => KeyOK("INGESTOR")
  /\ run.step \in {"upsert", "wire", "wirePool", "save"} => Registered(run.out.at, run.wallet)
  /\ run.step = "upsert" => ~Reused("INGESTOR")
  /\ run.step \in {"wire", "wirePool", "save"} => Reused("INGESTOR")
  /\ run.step \in {"wirePool", "save"} => contracts[run.out.at["claim"]].role = run.wallet
  /\ run.step = "save" => contracts[run.out.at["pool"]].role = run.out.at["claim"]

BountyFile ==
  LET f == files["exploit_bounty"]  w == f.wallets["BOUNTY_VERIFIER"] IN
  /\ contracts[f.at["bounty"]].role = w
  /\ Registered(f.at, w)
  /\ env["root"]["BOUNTY_VERIFIER"] = w /\ w \in FreshWallets

TrainingFile ==
  LET f == files["training_compensation"]  w == f.wallets["INGESTOR"] IN
  /\ contracts[f.at["claim"]].role = w
  /\ Registered(f.at, w)
  /\ env["root"]["INGESTOR"] = w /\ w \in FreshWallets
  /\ contracts[f.at["pool"]].role = f.at["claim"]

EnvOK == \A f \in {"root", "acquisition"}, n \in KeyNames : env[f][n] \in FreshWallets \cup {Nobody}
RunWired ==
  /\ run.script = "exploit_bounty" => BountyRun
  /\ run.script = "training_compensation" => TrainingRun
FilesWired ==
  /\ Exists("exploit_bounty") => BountyFile
  /\ Exists("training_compensation") => TrainingFile
WiredInv == EnvOK /\ RunWired /\ FilesWired

(* Outside the two scripts contracts lose no members, and those that carry    *)
(* the wiring keep their roles.                                               *)
MembersGrow == \A a \in Addresses : a <= deployed => contracts[a].members \subseteq contracts'[a].members
Wirable(a) == a \in Addresses /\ a <= deployed /\ contracts[a].kind \in {"bounty", "claim", "pool"}

(* A new contract changes no contract that carries the wiring. *)
LEMMA GrowthKeepsWiring ==
  ASSUME Inv, Growth PROVE MembersGrow /\ \A a : Wirable(a) => contracts'[a] = contracts[a]
<1>1. PICK kind \in Kinds, built \in Maps, role \in WalletOrNobody : NewContract(kind, built, role) BY DEF Growth
<1>2. deployed \in Nat /\ \A a \in Addresses : a # deployed + 1 => contracts'[a] = contracts[a]
  BY <1>1, InvTyped, AtTypes, NewContractEffect DEF Maps
<1> QED BY <1>2 DEF MembersGrow, Wirable, Addresses

(* A new member takes away nobody's role or membership. *)
LEMMA JoiningKeepsWiring ==
  ASSUME Inv, NEW a, NEW w, AddMember(a, w) PROVE MembersGrow /\ \A b : Wirable(b) => contracts'[b].role = contracts[b].role
BY InvTyped DEF AddMember, ChainOK, Contract, MembersGrow, Wirable

(* Giving one contract a role leaves the roles of the others. *)
LEMMA RoleKeepsWiring ==
  ASSUME Inv, NEW a, NEW r, SetRole(a, r)
  PROVE  MembersGrow /\ \A b \in Addresses : contracts'[b].role = IF b = a THEN r ELSE contracts[b].role
BY InvTyped DEF SetRole, ChainOK, Contract, MembersGrow

(* A step that is no wiring step. *)
LEMMA OtherKeepsWiring ==
  ASSUME Inv, PartsInv, [Next]_vars, ~Wiring
  PROVE  MembersGrow /\ \A a : Wirable(a) => contracts'[a].role = contracts[a].role
<1>1. CASE UNCHANGED chainVars BY <1>1 DEF chainVars, MembersGrow
<1>2. CASE Relabelling BY <1>2 DEF Relabelling, MembersGrow, Wirable
<1>3. CASE Growth BY <1>3, GrowthKeepsWiring
<1>4. CASE Joining BY <1>4, JoiningKeepsWiring DEF Joining
<1>5. CASE Appointing
  <2>1. PICK a, r \in WalletOrNobody \cup AddressOrZero :
          SetRole(a, r) /\ (a \in Addresses => contracts[a].kind \in {"bond", "guard"})
    BY <1>5 DEF Appointing
  <2>2. \A b : Wirable(b) => b # a BY <2>1 DEF Wirable
  <2> QED BY <2>1, <2>2, RoleKeepsWiring DEF Wirable
<1> QED BY <1>1, <1>2, <1>3, <1>4, <1>5, ChainStep

(* What a finished file names. *)
LEMMA FileNames2 ==
  ASSUME Inv, PartsInv, NEW n \in FileNames, Exists(n), NEW k \in Needed(n)
  PROVE  k \in Kinds /\ files[n].at[k] \in Addresses /\ files[n].at[k] <= deployed /\ contracts[files[n].at[k]].kind = k
<1>1. k \in Kinds BY Names DEF Needed
<1>2. files[n].at[k] # 0 /\ files[n].at[k] \in AddressOrZero BY <1>1, NamedKind DEF PartsInv
<1>3. files[n].at[k] <= deployed BY <1>1, <1>2 DEF Inv, Fits
<1> QED BY <1>1, <1>2, <1>3, NamedKind DEF Addresses, AddressOrZero

RolesKept ==
  /\ Exists("exploit_bounty") =>
       LET a == files["exploit_bounty"].at["bounty"] IN contracts'[a].role = contracts[a].role
  /\ Exists("training_compensation") => \A k \in {"claim", "pool"} :
       LET a == files["training_compensation"].at[k] IN contracts'[a].role = contracts[a].role

(* Wiring that files describe stays, if members stay and roles of wired contracts do. *)
LEMMA FilesWiredKept ==
  ASSUME Inv, PartsInv, FilesWired, MembersGrow, RolesKept, env'["root"] = env["root"],
         files'["exploit_bounty"] = files["exploit_bounty"],
         files'["training_compensation"] = files["training_compensation"]
  PROVE  FilesWired'
<1>1. ASSUME Exists("exploit_bounty") PROVE BountyFile'
  <2> DEFINE f == files["exploit_bounty"]
             w == f.wallets["BOUNTY_VERIFIER"]
  <2>1. "registry" \in Needed("exploit_bounty") BY DEF Needed
  <2>2. f.at["registry"] \in Addresses /\ f.at["registry"] <= deployed BY <1>1, <2>1, FileNames2, Names
  <2>3. BountyFile BY <1>1 DEF FilesWired
  <2>4. w \in contracts[f.at["registry"]].members BY <2>3 DEF BountyFile, Registered
  <2>5. w \in contracts'[f.at["registry"]].members BY <2>2, <2>4 DEF MembersGrow
  <2> QED BY <1>1, <2>3, <2>5 DEF BountyFile, Registered, RolesKept
<1>2. ASSUME Exists("training_compensation") PROVE TrainingFile'
  <2> DEFINE f == files["training_compensation"]
             w == f.wallets["INGESTOR"]
  <2>1. "registry" \in Needed("training_compensation") BY DEF Needed
  <2>2. f.at["registry"] \in Addresses /\ f.at["registry"] <= deployed BY <1>2, <2>1, FileNames2, Names
  <2>3. TrainingFile BY <1>2 DEF FilesWired
  <2>4. w \in contracts[f.at["registry"]].members BY <2>3 DEF TrainingFile, Registered
  <2>5. w \in contracts'[f.at["registry"]].members BY <2>2, <2>4 DEF MembersGrow
  <2> QED BY <1>2, <2>3, <2>5 DEF TrainingFile, Registered, RolesKept
<1> QED BY <1>1, <1>2 DEF FilesWired, Exists

(* The contracts those two files name carry the wiring. *)
LEMMA WirableFiles ==
  ASSUME Inv, PartsInv
  PROVE  /\ Exists("exploit_bounty") => Wirable(files["exploit_bounty"].at["bounty"])
         /\ Exists("training_compensation") =>
              Wirable(files["training_compensation"].at["claim"]) /\ Wirable(files["training_compensation"].at["pool"])
<1>1. "bounty" \in Needed("exploit_bounty") /\ {"claim", "pool"} \subseteq Needed("training_compensation")
  BY DEF Needed
<1> QED BY <1>1, FileNames2, Names DEF Wirable

(* A step outside the two scripts keeps what their files say. *)
LEMMA WiredOutside ==
  ASSUME Inv, PartsInv, WiredInv, [Next]_vars, ~Wiring, env'["root"] = env["root"], EnvOK',
         files'["exploit_bounty"] = files["exploit_bounty"],
         files'["training_compensation"] = files["training_compensation"],
         run'.script \notin {"exploit_bounty", "training_compensation"} \/ RunWired'
  PROVE  WiredInv'
<1>1. MembersGrow /\ RolesKept BY OtherKeepsWiring, WirableFiles DEF RolesKept
<1>2. FilesWired' BY <1>1, FilesWiredKept DEF WiredInv
<1> QED BY <1>2 DEF WiredInv, RunWired

(* Only three steps wire. *)
LEMMA NoWiring ==
  /\ run.step \notin {"wire", "wirePool"} => ~Wiring
  /\ run.script \notin {"exploit_bounty", "training_compensation"} => ~Wiring
BY DEF Wiring, BountyWire, WireIngestor, WireDistributor, At

(* The scripts that deploy the bond stack leave the wiring alone. *)
LEMMA WiredStack == ASSUME Inv, PartsInv, WiredInv, Stack PROVE WiredInv'
<1> DEFINE Two == {"exploit_bounty", "training_compensation"}
<1>1. run \in Runs /\ files \in [FileNames -> File] BY InvTyped DEF RestOK
<1>2. env' = env /\ run.script \notin Two /\ run'.script \notin Two
      /\ files'["exploit_bounty"] = files["exploit_bounty"]
      /\ files'["training_compensation"] = files["training_compensation"]
  <2>1. CASE StandaloneRegistry \/ NetworkMockRegistry \/ NetworkLiveRegistry
    BY <2>1 DEF StandaloneRegistry, NetworkMockRegistry, NetworkLiveRegistry, Begin, Idle, OnlyChainAndRuns
  <2>2. CASE StandaloneRegister \/ StandaloneBond \/ StandalonePost \/ NetworkVerify \/ NetworkBond \/ NetworkPost
    BY <1>1, <2>2 DEF StandaloneRegister, StandaloneBond, StandalonePost, NetworkVerify, NetworkBond, NetworkPost,
                At, Goto, GotoWith, OnlyChain, Runs
  <2>3. CASE SaveStandalone \/ SaveNetwork
    BY <1>1, <2>3, Names DEF SaveStandalone, SaveNetwork, SaveFile, At, Idle
  <2> QED BY <2>1, <2>2, <2>3 DEF Stack
<1>3. [Next]_vars BY DEF Next
<1>4. EnvOK' BY <1>2 DEF WiredInv, EnvOK
<1> QED BY <1>2, <1>3, <1>4, NoWiring, WiredOutside

(* The scripts that replace or extend the stack leave the wiring alone. *)
LEMMA WiredUpgrades == ASSUME Inv, PartsInv, WiredInv, Upgrades PROVE WiredInv'
<1> DEFINE Two == {"exploit_bounty", "training_compensation"}
<1>1. run \in Runs /\ files \in [FileNames -> File] BY InvTyped DEF RestOK
<1>2. env' = env /\ run.script \notin Two /\ run'.script \notin Two
      /\ files'["exploit_bounty"] = files["exploit_bounty"]
      /\ files'["training_compensation"] = files["training_compensation"]
  <2>1. CASE BondV2 \/ Adapter \/ RightsClaimBond \/ SessionGuard \/ UsycBond
    BY <2>1 DEF BondV2, Adapter, RightsClaimBond, SessionGuard, UsycBond, Begin, Idle, OnlyChainAndRuns
  <2>2. CASE ActivateGuard \/ UsycPost \/ UsycUnposted
    BY <1>1, <2>2 DEF ActivateGuard, UsycPost, UsycUnposted, At, Goto, OnlyChain, Runs
  <2>3. CASE SaveBondV2 \/ SaveAdapter \/ SaveRightsClaimBond \/ SaveSessionGuard \/ SaveUsyc
    BY <1>1, <2>3, Names DEF SaveBondV2, SaveAdapter, SaveRightsClaimBond, SaveSessionGuard, SaveUsyc, SaveFile, At, Idle
  <2>4. CASE ActivationReverts \/ PostReverts
    BY <2>4 DEF ActivationReverts, PostReverts, Abort, At, Idle
  <2> QED BY <2>1, <2>2, <2>3, <2>4 DEF Upgrades
<1>3. [Next]_vars BY DEF Next
<1>4. EnvOK' BY <1>2 DEF WiredInv, EnvOK
<1> QED BY <1>2, <1>3, <1>4, NoWiring, WiredOutside

(* The operator's commands leave the wiring alone. *)
LEMMA WiredCommands == ASSUME Inv, PartsInv, WiredInv, Commands PROVE WiredInv'
<1> DEFINE Two == {"exploit_bounty", "training_compensation"}
<1>2. env' = env /\ files' = files /\ run.script \notin Two /\ run'.script \notin Two
  <2>1. ASSUME NEW w, Register(w) \/ PostBond(w) \/ SetAuthorizedSlasher(w) \/ TransferOwnership(w) \/ GrantOrRevoke(w)
        PROVE  env' = env /\ files' = files /\ run.script \notin Two /\ run'.script \notin Two
    BY <2>1 DEF Register, PostBond, SetAuthorizedSlasher, TransferOwnership, GrantOrRevoke, Command, Begin, Idle,
                OnlyChainAndRuns
  <2>2. ASSUME NEW w, SetAgentId(w) \/ SaveIdentity
        PROVE  env' = env /\ files' = files /\ run.script \notin Two /\ run'.script \notin Two
    BY <2>2 DEF SetAgentId, SaveIdentity, Command, Begin, Idle, At
  <2>3. ASSUME NEW w, NEW force, RegisterIdentity(w, force)
        PROVE  env' = env /\ files' = files /\ run.script \notin Two /\ run'.script \notin Two
    <3>1. run = Idle /\ run' = [Idle EXCEPT !.script = "identity", !.step = "cache", !.wallet = w]
      BY <2>3 DEF RegisterIdentity, Begin
    <3>2. run.script = "none" /\ run'.script = "identity" BY <3>1 DEF Idle
    <3> QED BY <2>3, <3>2 DEF RegisterIdentity
  <2> QED BY <2>1, <2>2, <2>3 DEF Commands
<1>3. [Next]_vars BY DEF Next
<1>4. EnvOK' BY <1>2 DEF WiredInv, EnvOK
<1> QED BY <1>2, <1>3, <1>4, NoWiring, WiredOutside

(* The catalog writes keys of its own into a file of its own. *)
LEMMA WiredCatalog ==
  ASSUME Inv, PartsInv, WiredInv,
         \/ Catalog \/ CatalogCompany \/ CatalogFundCompany \/ CatalogArtist
         \/ CatalogFundArtist \/ RegisterTrack \/ SaveCatalog
  PROVE  WiredInv'
<1> DEFINE Two == {"exploit_bounty", "training_compensation"}
<1>1. run \in Runs /\ files \in [FileNames -> File]
      /\ env \in [{"root", "acquisition"} -> [KeyNames -> WalletOrNobody]]
  BY InvTyped DEF RestOK
<1>2. env'["root"] = env["root"] /\ run.script \notin Two /\ run'.script \notin Two
      /\ files'["exploit_bounty"] = files["exploit_bounty"]
      /\ files'["training_compensation"] = files["training_compensation"] /\ EnvOK'
  <2>1. CASE Catalog
    BY <2>1 DEF Catalog, Begin, Idle, OnlyChainAndRuns, WiredInv, EnvOK
  <2>2. CASE CatalogFundCompany \/ CatalogFundArtist \/ RegisterTrack
    BY <1>1, <2>2 DEF CatalogFundCompany, CatalogFundArtist, RegisterTrack, Fund, At, Goto, OnlyChain, Runs, WiredInv, EnvOK
  <2>3. CASE SaveCatalog
    BY <1>1, <2>3, Names DEF SaveCatalog, At, Idle, WiredInv, EnvOK
  <2>4. CASE CatalogCompany \/ CatalogArtist
    <3>1. PICK name \in KeyNames, step \in Steps : GetOrCreateWallet(name, step)
      BY <2>4, Names DEF CatalogCompany, CatalogArtist
    <3>2. PICK w \in GenerateOrReuse(name) :
            Upsert("acquisition", name, w) /\ run' = [run EXCEPT !.wallet = w, !.out.wallets[name] = w, !.step = step]
      BY <3>1 DEF GetOrCreateWallet
    <3>3. files' = files BY <3>1 DEF GetOrCreateWallet
    <3>4. run.script = "acquisition_catalog" BY <2>4 DEF CatalogCompany, CatalogArtist, At
    <3>5. run'.script = run.script BY <1>1, <3>2 DEF Runs
    <3>6. w \in FreshWallets \cup {Nobody} BY DEF GenerateOrReuse, Fresh, WiredInv, EnvOK
    <3>7. env'["root"] = env["root"] BY <1>1, <3>2 DEF Upsert
    <3>8. EnvOK' BY <1>1, <3>2, <3>6 DEF Upsert, WiredInv, EnvOK
    <3> QED BY <3>3, <3>4, <3>5, <3>7, <3>8
  <2> QED BY <2>1, <2>2, <2>3, <2>4
<1>3. [Next]_vars BY DEF Next, Verticals
<1> QED BY <1>2, <1>3, NoWiring, WiredOutside

(* Goto leaves the rest of the run alone. *)
LEMMA GoesOn ==
  ASSUME run \in Runs, NEW step, Goto(step)
  PROVE  run'.script = run.script /\ run'.out = run.out /\ run'.wallet = run.wallet /\ run'.step = step
BY DEF Runs, Goto

(* The address of a new contract is in no file. *)
LEMMA NewIsElsewhere ==
  ASSUME Inv, NEW kind \in Kinds, NEW built \in Maps, NEW role \in WalletOrNobody, NewContract(kind, built, role),
         NEW n \in FileNames, NEW k \in Kinds
  PROVE  deployed + 1 # files[n].at[k]
<1>1. files[n].at[k] # 0 => files[n].at[k] <= deployed BY AtTypes DEF Inv, Fits
<1>2. deployed \in Nat BY AtTypes
<1> QED BY <1>1, <1>2

(* Generating the wallet, or finding its key. *)
LEMMA ProvisionEffect ==
  ASSUME Inv, EnvOK, NEW name \in KeyNames, NEW step, Provision(name, step)
  PROVE  /\ run'.script = run.script /\ run'.out.at = run.out.at
         /\ run'.wallet \in FreshWallets /\ run'.wallet = run'.out.wallets[name]
         /\ Reused(name) => env["root"][name] = run'.wallet
         /\ run'.step = IF Registered(run.out.at, run'.wallet) THEN step ELSE "register"
<1>1. PICK w \in GenerateOrReuse(name) :
        run' = [run EXCEPT !.wallet = w, !.out.wallets[name] = w,
                           !.step = IF Registered(run.out.at, w) THEN step ELSE "register"]
  BY DEF Provision, Made, Registered
<1>2. w \in FreshWallets /\ (Reused(name) => env["root"][name] = w)
  BY DEF GenerateOrReuse, Reused, Fresh, EnvOK
<1>3. run'.script = run.script /\ run'.wallet = w
      /\ run'.step = IF Registered(run.out.at, w) THEN step ELSE "register"
  BY <1>1, InvTyped DEF Runs
<1>4. run'.out.at = run.out.at /\ run'.out.wallets[name] = w
  BY <1>1, InvTyped DEF Runs, File
<1> QED BY <1>2, <1>3, <1>4

(* A running script's registration survives steps that lose no member. *)
LEMMA RegisteredStays ==
  ASSUME Inv, PartsInv, MembersGrow, NEW w, Registered(run.out.at, w),
         run.script \in {"exploit_bounty", "training_compensation"}
  PROVE  w \in contracts'[run.out.at["registry"]].members
<1>1. run.out.at["registry"] # 0 BY DEF PartsInv, Needed, Missing
<1>2. run.out.at["registry"] \in Addresses /\ run.out.at["registry"] <= deployed
  BY <1>1, MadeKind, Names DEF Made, Addresses, AddressOrZero
<1> QED BY <1>2 DEF MembersGrow, Registered

(* The contracts a running script has made carry its wiring. *)
LEMMA MadeIsWirable ==
  ASSUME Inv, PartsInv, NEW k \in {"bounty", "claim", "pool"}, k \in Needed(run.script) \ Missing(run.script, run.step)
  PROVE  Wirable(run.out.at[k])
<1>1. run.out.at[k] # 0 /\ k \in Kinds BY Names DEF PartsInv
<1> QED BY <1>1, MadeKind DEF Made, Wirable, Addresses, AddressOrZero

(* Whom a script registers is registered. *)
LEMMA AddedIsRegistered ==
  ASSUME Inv, PartsInv, run.script \in {"exploit_bounty", "training_compensation"},
         AddMember(Made("registry"), run.wallet), run'.out = run.out, run'.wallet = run.wallet
  PROVE  Registered(run.out.at, run.wallet)'
<1>1. run.out.at["registry"] # 0 BY DEF PartsInv, Needed, Missing
<1>2. run.out.at["registry"] \in Addresses BY <1>1, MadeKind, Names DEF Made, Addresses, AddressOrZero
<1>3. run.wallet \in contracts'[run.out.at["registry"]].members
  BY <1>2, InvTyped DEF AddMember, Made, ChainOK, Contract
<1> QED BY <1>3 DEF Registered

(* deploy_exploit_bounty.js *)
LEMMA WiredBounty ==
  ASSUME Inv, PartsInv, WiredInv, Bounty \/ BountyProvision \/ BountyRegister
  PROVE  WiredInv'
<1> USE Names, People
<1>1. [Next]_vars /\ ~Wiring
  BY NoWiring DEF Next, Verticals, Bounty, BountyProvision, BountyRegister, Begin, Idle, At
<1>2. files' = files /\ env' = env
  BY DEF Bounty, BountyProvision, BountyRegister, OnlyChain, OnlyChainAndRuns
<1>3. EnvOK' BY <1>2 DEF WiredInv, EnvOK
<1>4. MembersGrow /\ \A a : Wirable(a) => contracts'[a].role = contracts[a].role BY <1>1, OtherKeepsWiring
<1>5. CASE Bounty
  <2> DEFINE r == files["standalone"].at["registry"]
  <2>1. NewContract("bounty", [NoAddresses EXCEPT !["registry"] = r], Deployer)
        /\ run' = [script |-> "exploit_bounty", step |-> "provision", wallet |-> Nobody,
                  out |-> [NoFile EXCEPT !.at["registry"] = r, !.at["bounty"] = deployed + 1]]
    BY <1>5 DEF Bounty
  <2>2. [NoAddresses EXCEPT !["registry"] = r] \in Maps BY Reading
  <2>3. deployed + 1 # files["exploit_bounty"].at["bounty"]
    <3> DEFINE built == [NoAddresses EXCEPT !["registry"] = r]
    <3>1. built \in Maps /\ NewContract("bounty", built, Deployer) BY <2>1, <2>2
    <3> HIDE DEF built, r
    <3> QED BY <3>1, NewIsElsewhere
  <2>4. run'.out.at["bounty"] = deployed + 1
    <3> DEFINE b == deployed + 1
    <3>1. run'.out = FileOfTwo("registry", r, "bounty", b) BY <2>1 DEF FileOfTwo
    <3>2. "registry" \in Kinds /\ "bounty" \in Kinds \ {"registry"} OBVIOUS
    <3> HIDE DEF r, b
    <3>3. run'.out.at["bounty"] = b BY <3>1, <3>2, TwoNamed
    <3> QED BY <3>3 DEF b
  <2>5. run'.script = "exploit_bounty" /\ run'.step = "provision" /\ run'.wallet = Nobody BY <2>1
  <2>6. BountyRun' BY <1>2, <2>3, <2>4, <2>5 DEF BountyRun, Elsewhere
  <2>7. RunWired' BY <2>5, <2>6 DEF RunWired
  <2> QED BY <1>1, <1>2, <1>3, <2>7, WiredOutside
<1>6. CASE BountyProvision
  <2>1. run.script = "exploit_bounty" /\ run.step = "provision" /\ Provision("BOUNTY_VERIFIER", "wire")
        /\ contracts' = contracts
    BY <1>6 DEF BountyProvision, At, chainVars
  <2>2. /\ run'.script = run.script /\ run'.out.at = run.out.at
        /\ run'.wallet \in FreshWallets /\ run'.wallet = run'.out.wallets["BOUNTY_VERIFIER"]
        /\ Reused("BOUNTY_VERIFIER") => env["root"]["BOUNTY_VERIFIER"] = run'.wallet
        /\ run'.step = IF Registered(run.out.at, run'.wallet) THEN "wire" ELSE "register"
    BY <2>1, ProvisionEffect DEF WiredInv
  <2>3. BountyRun BY <2>1 DEF WiredInv, RunWired
  <2>4. KeyOK("BOUNTY_VERIFIER")' BY <1>2, <2>2 DEF KeyOK, Reused
  <2>5. Elsewhere("exploit_bounty", "bounty")' BY <1>2, <2>2, <2>3 DEF BountyRun, Elsewhere
  <2>6. run'.step = "wire" => Registered(run.out.at, run.wallet)' BY <2>1, <2>2 DEF Registered
  <2>7. BountyRun' BY <2>2, <2>4, <2>5, <2>6 DEF BountyRun
  <2>8. RunWired' BY <2>1, <2>2, <2>7 DEF RunWired
  <2> QED BY <1>1, <1>2, <1>3, <2>8, WiredOutside
<1>7. CASE BountyRegister
  <2>1. run.script = "exploit_bounty" /\ run.step = "register" /\ Goto("wire")
        /\ AddMember(Made("registry"), run.wallet)
    BY <1>7 DEF BountyRegister, RegisterAgent, At
  <2>2. run'.script = run.script /\ run'.out = run.out /\ run'.wallet = run.wallet /\ run'.step = "wire"
    BY <2>1, InvTyped, GoesOn
  <2>3. BountyRun BY <2>1 DEF WiredInv, RunWired
  <2>4. KeyOK("BOUNTY_VERIFIER")' BY <1>2, <2>1, <2>2, <2>3 DEF BountyRun, KeyOK, Reused
  <2>5. Elsewhere("exploit_bounty", "bounty")' BY <1>2, <2>2, <2>3 DEF BountyRun, Elsewhere
  <2>6. Registered(run.out.at, run.wallet)' BY <2>1, <2>2, AddedIsRegistered
  <2>7. BountyRun' BY <2>2, <2>4, <2>5, <2>6 DEF BountyRun
  <2>8. RunWired' BY <2>1, <2>2, <2>7 DEF RunWired
  <2> QED BY <1>1, <1>2, <1>3, <2>8, WiredOutside
<1> QED BY <1>5, <1>6, <1>7

(* The role of the bounty goes to the wallet, and no other wiring changes. *)
LEMMA WiredBountyWire == ASSUME Inv, PartsInv, WiredInv, BountyWire PROVE WiredInv'
<1> USE Names, People
<1>1. /\ run.script = "exploit_bounty" /\ run.step = "wire" /\ SetRole(Made("bounty"), run.wallet)
      /\ Goto(IF Reused("BOUNTY_VERIFIER") THEN "save" ELSE "upsert")
      /\ files' = files /\ env' = env
  BY DEF BountyWire, At, OnlyChain
<1>2. /\ run'.script = run.script /\ run'.out = run.out /\ run'.wallet = run.wallet
      /\ run'.step = IF Reused("BOUNTY_VERIFIER") THEN "save" ELSE "upsert"
  BY <1>1, InvTyped, GoesOn
<1>3. BountyRun BY <1>1 DEF WiredInv, RunWired
<1> DEFINE b == run.out.at["bounty"]
<1>4. MembersGrow /\ \A a \in Addresses : contracts'[a].role = IF a = b THEN run.wallet ELSE contracts[a].role
  BY <1>1, RoleKeepsWiring DEF Made
<1>5. Wirable(b) /\ contracts[b].kind = "bounty"
  <2>1. "bounty" \in Needed(run.script) \ Missing(run.script, run.step) BY <1>1 DEF Needed, Missing
  <2>2. Wirable(b) BY <2>1, MadeIsWirable
  <2> QED BY <2>2, MadeKind DEF Made, Wirable
<1>6. RolesKept
  <2>1. ASSUME Exists("exploit_bounty") PROVE files["exploit_bounty"].at["bounty"] # b
    BY <1>3, <1>5, Apart DEF BountyRun, Elsewhere, Wirable
  <2>2. ASSUME Exists("training_compensation"), NEW k \in {"claim", "pool"}
        PROVE  files["training_compensation"].at[k] # b
    BY <1>5, NamedKind DEF Wirable
  <2>3. Exists("exploit_bounty") => files["exploit_bounty"].at["bounty"] \in Addresses
        BY WirableFiles DEF Wirable
  <2>4. Exists("training_compensation") => \A k \in {"claim", "pool"} : files["training_compensation"].at[k] \in Addresses
        BY WirableFiles DEF Wirable
  <2> HIDE DEF b
  <2> QED BY <1>4, <2>1, <2>2, <2>3, <2>4 DEF RolesKept
<1>7. FilesWired' BY <1>1, <1>4, <1>6, FilesWiredKept DEF WiredInv
<1>8. EnvOK' BY <1>1 DEF WiredInv, EnvOK
<1>9. KeyOK("BOUNTY_VERIFIER")' BY <1>1, <1>2, <1>3 DEF BountyRun, KeyOK, Reused
<1>10. Elsewhere("exploit_bounty", "bounty")' BY <1>1, <1>2, <1>3 DEF BountyRun, Elsewhere
<1>11. Registered(run.out.at, run.wallet)'
  <2>1. Registered(run.out.at, run.wallet) BY <1>1, <1>3 DEF BountyRun
  <2> QED BY <1>1, <1>2, <1>4, <2>1, RegisteredStays DEF Registered
<1>12. contracts'[run'.out.at["bounty"]].role = run'.wallet BY <1>2, <1>4, <1>5 DEF Wirable
<1>13. (Reused("BOUNTY_VERIFIER"))' <=> Reused("BOUNTY_VERIFIER") BY <1>1 DEF Reused
<1>14. BountyRun'
  BY <1>2, <1>9, <1>10, <1>11, <1>12, <1>13 DEF BountyRun
<1>15. RunWired' BY <1>1, <1>2, <1>14 DEF RunWired
<1> QED BY <1>7, <1>8, <1>15 DEF WiredInv

(* A key that nobody has is in no file. *)
LEMMA KeyIsTaken ==
  ASSUME WiredInv
  PROVE  /\ Exists("exploit_bounty") => Reused("BOUNTY_VERIFIER")
         /\ Exists("training_compensation") => Reused("INGESTOR")
BY DeploymentAssumption DEF WiredInv, FilesWired, BountyFile, TrainingFile, Reused, DeploymentAssumption

(* upsertEnvVar writes one key and no other. *)
LEMMA UpsertEffect ==
  ASSUME Inv, EnvOK, NEW name \in KeyNames, Upsert("root", name, run.wallet), run.wallet \in FreshWallets
  PROVE  EnvOK' /\ \A n \in KeyNames : env'["root"][n] = IF n = name THEN run.wallet ELSE env["root"][n]
<1>1. env \in [{"root", "acquisition"} -> [KeyNames -> WalletOrNobody]] BY InvTyped DEF RestOK
<1>2. \A n \in KeyNames : env'["root"][n] = IF n = name THEN run.wallet ELSE env["root"][n]
  BY <1>1 DEF Upsert
<1>3. env'["acquisition"] = env["acquisition"] BY <1>1 DEF Upsert
<1> QED BY <1>2, <1>3 DEF EnvOK

(* The key of the harness is written after its wallet was wired. *)
LEMMA WiredBountyUpsert == ASSUME Inv, PartsInv, WiredInv, BountyUpsert PROVE WiredInv'
<1> USE Names, People
<1>1. /\ run.script = "exploit_bounty" /\ run.step = "upsert" /\ Goto("save")
      /\ Upsert("root", "BOUNTY_VERIFIER", run.wallet) /\ files' = files /\ contracts' = contracts
  BY DEF BountyUpsert, At, chainVars
<1>2. run'.script = run.script /\ run'.out = run.out /\ run'.wallet = run.wallet /\ run'.step = "save"
  BY <1>1, InvTyped, GoesOn
<1>3. BountyRun BY <1>1 DEF WiredInv, RunWired
<1>4. run.wallet \in FreshWallets /\ ~Reused("BOUNTY_VERIFIER") /\ run.wallet = run.out.wallets["BOUNTY_VERIFIER"]
  BY <1>1, <1>3 DEF BountyRun, KeyOK
<1>5. EnvOK' /\ \A n \in KeyNames : env'["root"][n] = IF n = "BOUNTY_VERIFIER" THEN run.wallet ELSE env["root"][n]
  BY <1>1, <1>4, UpsertEffect DEF WiredInv
<1>6. ~Exists("exploit_bounty") BY <1>4, KeyIsTaken
<1>7. FilesWired'
  <2>1. env'["root"]["INGESTOR"] = env["root"]["INGESTOR"] BY <1>5
  <2> QED BY <1>1, <1>6, <2>1 DEF WiredInv, FilesWired, Exists, TrainingFile, Registered
<1>8. env'["root"]["BOUNTY_VERIFIER"] = run.wallet BY <1>5
<1>9. KeyOK("BOUNTY_VERIFIER")' /\ (Reused("BOUNTY_VERIFIER"))'
  BY <1>2, <1>4, <1>8, DeploymentAssumption DEF KeyOK, Reused, DeploymentAssumption
<1>10. Elsewhere("exploit_bounty", "bounty")' BY <1>1, <1>2, <1>3 DEF BountyRun, Elsewhere
<1>11. Registered(run.out.at, run.wallet)' /\ contracts'[run'.out.at["bounty"]].role = run'.wallet
  BY <1>1, <1>2, <1>3 DEF BountyRun, Registered
<1>12. BountyRun' BY <1>2, <1>9, <1>10, <1>11 DEF BountyRun
<1>13. RunWired' BY <1>1, <1>2, <1>12 DEF RunWired
<1> QED BY <1>5, <1>7, <1>13 DEF WiredInv

(* The bounty file is written after both steps. *)
LEMMA WiredSaveBounty == ASSUME Inv, PartsInv, WiredInv, SaveBounty PROVE WiredInv'
<1> USE Names, People
<1>1. /\ run.script = "exploit_bounty" /\ run.step = "save" /\ run' = Idle
      /\ files' = [files EXCEPT !["exploit_bounty"] = run.out] /\ env' = env /\ contracts' = contracts
  BY DEF SaveBounty, SaveFile, At, chainVars
<1>2. files'["exploit_bounty"] = run.out /\ files'["training_compensation"] = files["training_compensation"]
  BY <1>1, InvTyped DEF RestOK
<1>3. BountyRun BY <1>1 DEF WiredInv, RunWired
<1>4. BountyFile'
  BY <1>1, <1>2, <1>3 DEF BountyRun, KeyOK, BountyFile, Registered
<1>5. FilesWired' BY <1>1, <1>2, <1>4 DEF WiredInv, FilesWired, Exists, TrainingFile, Registered
<1>6. RunWired' BY <1>1, Idling DEF RunWired
<1>7. EnvOK' BY <1>1 DEF WiredInv, EnvOK
<1> QED BY <1>5, <1>6, <1>7 DEF WiredInv

(* deploy_training_compensation.js *)
LEMMA WiredTraining ==
  ASSUME Inv, PartsInv, WiredInv, Training \/ TrainingPool \/ CompensationClaim
  PROVE  WiredInv'
<1> USE Names, People
<1>1. [Next]_vars /\ ~Wiring
  BY NoWiring DEF Next, Verticals, Training, TrainingPool, CompensationClaim, Begin, Idle, At
<1>2. files' = files /\ env' = env
  BY DEF Training, TrainingPool, CompensationClaim, OnlyChain, OnlyChainAndRuns
<1>3. EnvOK' BY <1>2 DEF WiredInv, EnvOK
<1>4. CASE Training
  <2> DEFINE r == files["standalone"].at["registry"]
             b == deployed + 1
  <2>1. run'.out = [NoFile EXCEPT !.at["registry"] = r, !.at["artists"] = b]
        /\ run'.script = "training_compensation" /\ run'.step = "pool" /\ run'.wallet = Nobody
    BY <1>4 DEF Training
  <2>2. run'.out.at["claim"] = 0 /\ run'.out.at["pool"] = 0
    <3> HIDE DEF r, b
    <3> QED BY <2>1 DEF NoFile, NoAddresses
  <2>3. TrainingRun' BY <2>1, <2>2 DEF TrainingRun, Elsewhere
  <2>4. RunWired' BY <2>1, <2>3 DEF RunWired
  <2> QED BY <1>1, <1>2, <1>3, <2>4, WiredOutside
<1>5. CASE TrainingPool
  <2>1. NewContract("pool", NoAddresses, Deployer) /\ GotoWith("claim", "pool")
        /\ run.script = "training_compensation" /\ run.step = "pool"
    BY <1>5 DEF TrainingPool, At
  <2>2. deployed + 1 \in AddressOrZero BY <2>1, NewAddress, NoneMap
  <2>3. run'.script = run.script /\ run'.step = "claim" /\ run'.out.at = [run.out.at EXCEPT !["pool"] = deployed + 1]
    BY <2>1, <2>2, GoingWith, InvTyped
  <2>4. run'.wallet = run.wallet BY <2>1, InvTyped DEF GotoWith, Runs
  <2>5. TrainingRun BY <2>1 DEF WiredInv, RunWired
  <2>6. deployed + 1 # files["training_compensation"].at["pool"] BY <2>1, NoneMap, NewIsElsewhere
  <2>7. run'.out.at["pool"] = deployed + 1 /\ run'.out.at["claim"] = run.out.at["claim"]
    BY <2>3, AtTypes DEF Maps
  <2>8. (Elsewhere("training_compensation", "claim") /\ Elsewhere("training_compensation", "pool"))'
    BY <1>2, <2>5, <2>6, <2>7 DEF TrainingRun, Elsewhere
  <2>9. TrainingRun' BY <2>1, <2>3, <2>4, <2>5, <2>8 DEF TrainingRun
  <2>10. RunWired' BY <2>1, <2>3, <2>9 DEF RunWired
  <2> QED BY <1>1, <1>2, <1>3, <2>10, WiredOutside
<1>6. CASE CompensationClaim
  <2> DEFINE built == [NoAddresses EXCEPT !["registry"] = Made("registry"), !["pool"] = Made("pool")]
  <2>1. NewContract("claim", built, Deployer) /\ GotoWith("provision", "claim")
        /\ run.script = "training_compensation" /\ run.step = "claim"
    BY <1>6 DEF CompensationClaim, At
  <2>0. built \in Maps BY MadeType, EmptyFile DEF Maps, NoAddresses
  <2> HIDE DEF built
  <2>2. deployed + 1 \in AddressOrZero BY <2>0, <2>1, NewAddress
  <2>3. run'.script = run.script /\ run'.step = "provision" /\ run'.out.at = [run.out.at EXCEPT !["claim"] = deployed + 1]
    BY <2>1, <2>2, GoingWith, InvTyped
  <2>4. run'.wallet = run.wallet BY <2>1, InvTyped DEF GotoWith, Runs
  <2>5. TrainingRun BY <2>1 DEF WiredInv, RunWired
  <2>6. deployed + 1 # files["training_compensation"].at["claim"] BY <2>0, <2>1, NewIsElsewhere
  <2>7. run'.out.at["claim"] = deployed + 1 /\ run'.out.at["pool"] = run.out.at["pool"]
    BY <2>3, AtTypes DEF Maps
  <2>8. (Elsewhere("training_compensation", "claim") /\ Elsewhere("training_compensation", "pool"))'
    BY <1>2, <2>5, <2>6, <2>7 DEF TrainingRun, Elsewhere
  <2>9. TrainingRun' BY <2>1, <2>3, <2>4, <2>5, <2>8 DEF TrainingRun
  <2>10. RunWired' BY <2>1, <2>3, <2>9 DEF RunWired
  <2> QED BY <1>1, <1>2, <1>3, <2>10, WiredOutside
<1> QED BY <1>4, <1>5, <1>6

(* ... generates or finds the ingestor's wallet and registers it... *)
LEMMA WiredIngestor ==
  ASSUME Inv, PartsInv, WiredInv, TrainingProvision \/ TrainingRegister
  PROVE  WiredInv'
<1> USE Names, People
<1> DEFINE next == IF Reused("INGESTOR") THEN "wire" ELSE "upsert"
<1>1. [Next]_vars /\ ~Wiring
  BY NoWiring DEF Next, Verticals, TrainingProvision, TrainingRegister, At
<1>2. files' = files /\ env' = env /\ run.script = "training_compensation"
  BY DEF TrainingProvision, TrainingRegister, OnlyChain, At
<1>3. EnvOK' BY <1>2 DEF WiredInv, EnvOK
<1>4. TrainingRun BY <1>2 DEF WiredInv, RunWired
<1>5. (Reused("INGESTOR"))' <=> Reused("INGESTOR") BY <1>2 DEF Reused
<1>6. CASE TrainingProvision
  <2>1. run.step = "provision" /\ Provision("INGESTOR", next) /\ contracts' = contracts
    BY <1>6 DEF TrainingProvision, At, chainVars
  <2>2. /\ run'.script = run.script /\ run'.out.at = run.out.at
        /\ run'.wallet \in FreshWallets /\ run'.wallet = run'.out.wallets["INGESTOR"]
        /\ Reused("INGESTOR") => env["root"]["INGESTOR"] = run'.wallet
        /\ run'.step = IF Registered(run.out.at, run'.wallet) THEN next ELSE "register"
    BY <2>1, ProvisionEffect DEF WiredInv
  <2>4. KeyOK("INGESTOR")' BY <1>2, <2>2 DEF KeyOK, Reused
  <2>5. (Elsewhere("training_compensation", "claim") /\ Elsewhere("training_compensation", "pool"))'
    BY <1>2, <1>4, <2>2 DEF TrainingRun, Elsewhere
  <2>6. run'.step # "register" => Registered(run.out.at, run.wallet)' BY <2>1, <2>2 DEF Registered
  <2>7. TrainingRun' BY <1>5, <2>2, <2>4, <2>5, <2>6 DEF TrainingRun
  <2>8. RunWired' BY <1>2, <2>2, <2>7 DEF RunWired
  <2> QED BY <1>1, <1>2, <1>3, <2>8, WiredOutside
<1>7. CASE TrainingRegister
  <2>1. run.step = "register" /\ Goto(next) /\ AddMember(Made("registry"), run.wallet)
    BY <1>7 DEF TrainingRegister, RegisterAgent, At
  <2>2. run'.script = run.script /\ run'.out = run.out /\ run'.wallet = run.wallet /\ run'.step = next
    BY <2>1, InvTyped, GoesOn
  <2>4. KeyOK("INGESTOR")' BY <1>2, <1>4, <2>1, <2>2 DEF TrainingRun, KeyOK, Reused
  <2>5. (Elsewhere("training_compensation", "claim") /\ Elsewhere("training_compensation", "pool"))'
    BY <1>2, <1>4, <2>2 DEF TrainingRun, Elsewhere
  <2>6. Registered(run.out.at, run.wallet)' BY <1>2, <2>1, <2>2, AddedIsRegistered
  <2>7. TrainingRun' BY <1>5, <2>2, <2>4, <2>5, <2>6 DEF TrainingRun
  <2>8. RunWired' BY <1>2, <2>2, <2>7 DEF RunWired
  <2> QED BY <1>1, <1>2, <1>3, <2>8, WiredOutside
<1> QED BY <1>6, <1>7

(* ... saves its key... *)
LEMMA WiredTrainingUpsert == ASSUME Inv, PartsInv, WiredInv, TrainingUpsert PROVE WiredInv'
<1> USE Names, People
<1>1. /\ run.script = "training_compensation" /\ run.step = "upsert" /\ Goto("wire")
      /\ Upsert("root", "INGESTOR", run.wallet) /\ files' = files /\ contracts' = contracts
  BY DEF TrainingUpsert, At, chainVars
<1>2. run'.script = run.script /\ run'.out = run.out /\ run'.wallet = run.wallet /\ run'.step = "wire"
  BY <1>1, InvTyped, GoesOn
<1>3. TrainingRun BY <1>1 DEF WiredInv, RunWired
<1>4. run.wallet \in FreshWallets /\ ~Reused("INGESTOR") /\ run.wallet = run.out.wallets["INGESTOR"]
  BY <1>1, <1>3 DEF TrainingRun, KeyOK
<1>5. EnvOK' /\ \A n \in KeyNames : env'["root"][n] = IF n = "INGESTOR" THEN run.wallet ELSE env["root"][n]
  BY <1>1, <1>4, UpsertEffect DEF WiredInv
<1>6. ~Exists("training_compensation") BY <1>4, KeyIsTaken
<1>7. FilesWired'
  <2>1. env'["root"]["BOUNTY_VERIFIER"] = env["root"]["BOUNTY_VERIFIER"] BY <1>5
  <2> QED BY <1>1, <1>6, <2>1 DEF WiredInv, FilesWired, Exists, BountyFile, Registered
<1>8. env'["root"]["INGESTOR"] = run.wallet BY <1>5
<1>9. KeyOK("INGESTOR")' /\ (Reused("INGESTOR"))'
  BY <1>2, <1>4, <1>8, DeploymentAssumption DEF KeyOK, Reused, DeploymentAssumption
<1>10. (Elsewhere("training_compensation", "claim") /\ Elsewhere("training_compensation", "pool"))'
  BY <1>1, <1>2, <1>3 DEF TrainingRun, Elsewhere
<1>11. Registered(run.out.at, run.wallet)' BY <1>1, <1>2, <1>3 DEF TrainingRun, Registered
<1>12. TrainingRun' BY <1>2, <1>9, <1>10, <1>11 DEF TrainingRun
<1>13. RunWired' BY <1>1, <1>2, <1>12 DEF RunWired
<1> QED BY <1>5, <1>7, <1>13 DEF WiredInv

(* ... gives the claim to the wallet and the pool to the claim... *)
LEMMA WiredTrainingWire == ASSUME Inv, PartsInv, WiredInv, WireIngestor \/ WireDistributor PROVE WiredInv'
<1> USE Names, People
<1> DEFINE k == IF run.step = "wire" THEN "claim" ELSE "pool"
           a == run.out.at[k]
           role == IF run.step = "wire" THEN run.wallet ELSE run.out.at["claim"]
           next == IF run.step = "wire" THEN "wirePool" ELSE "save"
<1>1. /\ run.script = "training_compensation" /\ run.step \in {"wire", "wirePool"}
      /\ SetRole(a, role) /\ Goto(next) /\ files' = files /\ env' = env
  BY DEF WireIngestor, WireDistributor, At, OnlyChain, Made
<1>2. run'.script = run.script /\ run'.out = run.out /\ run'.wallet = run.wallet /\ run'.step = next
  BY <1>1, InvTyped, GoesOn
<1>3. TrainingRun BY <1>1 DEF WiredInv, RunWired
<1>4. Wirable(run.out.at["claim"]) /\ Wirable(run.out.at["pool"])
  <2>1. {"claim", "pool"} \subseteq Needed(run.script) \ Missing(run.script, run.step) BY <1>1 DEF Needed, Missing
  <2> QED BY <2>1, MadeIsWirable
<1>5. contracts[run.out.at["claim"]].kind = "claim" /\ contracts[run.out.at["pool"]].kind = "pool"
  BY <1>4, MadeKind DEF Made, Wirable
<1>6. k \in {"claim", "pool"} /\ contracts[a].kind = k /\ a \in Addresses BY <1>4, <1>5 DEF Wirable
<1> HIDE DEF role
<1>7. MembersGrow /\ \A b \in Addresses : contracts'[b].role = IF b = a THEN role ELSE contracts[b].role
  BY <1>1, RoleKeepsWiring
<1>8. RolesKept
  <2> HIDE DEF a
  <2>1. ASSUME Exists("exploit_bounty")
        PROVE  files["exploit_bounty"].at["bounty"] # a /\ files["exploit_bounty"].at["bounty"] \in Addresses
    BY <2>1, <1>6, NamedKind, WirableFiles DEF Wirable
  <2>2. ASSUME Exists("training_compensation"), NEW l \in {"claim", "pool"}
        PROVE  files["training_compensation"].at[l] # a /\ files["training_compensation"].at[l] \in Addresses
    <3>1. files["training_compensation"].at[l] \in Addresses BY <2>2, WirableFiles DEF Wirable
    <3>2. contracts[files["training_compensation"].at[l]].kind = l BY <3>1, NamedKind
    <3>3. CASE l # k BY <3>1, <3>2, <3>3, <1>6
    <3>4. CASE l = k
      BY <3>1, <3>4, <1>3, <1>4, Apart DEF TrainingRun, Elsewhere, Wirable, a
    <3> QED BY <3>3, <3>4
  <2> QED BY <1>7, <2>1, <2>2 DEF RolesKept
<1>9. FilesWired' BY <1>1, <1>7, <1>8, FilesWiredKept DEF WiredInv
<1>10. EnvOK' BY <1>1 DEF WiredInv, EnvOK
<1>11. KeyOK("INGESTOR")' /\ (Reused("INGESTOR"))' BY <1>1, <1>2, <1>3 DEF TrainingRun, KeyOK, Reused
<1>12. (Elsewhere("training_compensation", "claim") /\ Elsewhere("training_compensation", "pool"))'
  BY <1>1, <1>2, <1>3 DEF TrainingRun, Elsewhere
<1>13. Registered(run.out.at, run.wallet)'
  <2>1. Registered(run.out.at, run.wallet) BY <1>1, <1>3 DEF TrainingRun
  <2> QED BY <1>1, <1>2, <1>7, <2>1, RegisteredStays DEF Registered
<1>14. contracts'[run'.out.at["claim"]].role = run'.wallet
  BY <1>1, <1>2, <1>3, <1>4, <1>5, <1>7 DEF TrainingRun, Wirable, role
<1>15. run'.step = "save" => contracts'[run'.out.at["pool"]].role = run'.out.at["claim"]
  BY <1>1, <1>2, <1>4, <1>7 DEF Wirable, role
<1>16. run'.step \in {"wirePool", "save"} BY <1>2
<1>17. TrainingRun' BY <1>11, <1>12, <1>13, <1>14, <1>15, <1>16 DEF TrainingRun
<1>18. RunWired' BY <1>1, <1>2, <1>17 DEF RunWired
<1> QED BY <1>9, <1>10, <1>18 DEF WiredInv

(* ... and names them in its file. *)
LEMMA WiredSaveTraining == ASSUME Inv, PartsInv, WiredInv, SaveTraining PROVE WiredInv'
<1> USE Names, People
<1>1. /\ run.script = "training_compensation" /\ run.step = "save" /\ run' = Idle
      /\ files' = [files EXCEPT !["training_compensation"] = run.out] /\ env' = env /\ contracts' = contracts
  BY DEF SaveTraining, SaveFile, At, chainVars
<1>2. files'["training_compensation"] = run.out /\ files'["exploit_bounty"] = files["exploit_bounty"]
  BY <1>1, InvTyped DEF RestOK
<1>3. TrainingRun BY <1>1 DEF WiredInv, RunWired
<1>4. TrainingFile'
  BY <1>1, <1>2, <1>3 DEF TrainingRun, KeyOK, TrainingFile, Registered
<1>5. FilesWired' BY <1>1, <1>2, <1>4 DEF WiredInv, FilesWired, Exists, BountyFile, Registered
<1>6. RunWired' BY <1>1, Idling DEF RunWired
<1>7. EnvOK' BY <1>1 DEF WiredInv, EnvOK
<1> QED BY <1>5, <1>6, <1>7 DEF WiredInv

(* Every step keeps wired wallets able to act. *)
LEMMA WiredStep == ASSUME Inv, PartsInv, WiredInv, [Next]_vars PROVE WiredInv'
<1>1. CASE UNCHANGED vars
  <2>1. contracts' = contracts /\ files' = files /\ env' = env /\ run' = run
    BY <1>1 DEF vars, chainVars
  <2>2. EnvOK' BY <2>1 DEF WiredInv, EnvOK
  <2>3. FilesWired'
    BY <2>1 DEF WiredInv, FilesWired, Exists, BountyFile, TrainingFile, KeyOK, Registered
  <2>4. BountyRun <=> BountyRun' BY <2>1 DEF BountyRun, KeyOK, Reused, Elsewhere, Registered, Exists
  <2>5. TrainingRun <=> TrainingRun' BY <2>1 DEF TrainingRun, KeyOK, Reused, Elsewhere, Registered, Exists
  <2>6. RunWired' BY <2>1, <2>4, <2>5 DEF WiredInv, RunWired
  <2> QED BY <2>2, <2>3, <2>6 DEF WiredInv
<1>2. CASE Crash
  <2>1. files' = files /\ env' = env /\ contracts' = contracts /\ run' = Idle BY <1>2 DEF Crash, chainVars
  <2>2. FilesWired' /\ EnvOK'
    BY <2>1 DEF WiredInv, FilesWired, EnvOK, Exists, BountyFile, TrainingFile, Registered
  <2>3. RunWired' BY <2>1, Idling DEF RunWired
  <2> QED BY <2>2, <2>3 DEF WiredInv
<1>3. CASE Verticals
  BY <1>3, WiredBounty, WiredBountyWire, WiredBountyUpsert, WiredSaveBounty, WiredTraining, WiredIngestor,
     WiredTrainingUpsert, WiredTrainingWire, WiredSaveTraining, WiredCatalog DEF Verticals
<1> QED BY <1>1, <1>2, <1>3, WiredStack, WiredUpgrades, WiredCommands DEF Next

(* The invariants of parts and wiring hold in every reachable state. *)
LEMMA WiredHolds == Spec => [](Inv /\ PartsInv /\ WiredInv)
<1>1. ASSUME Init PROVE WiredInv
  <2>1. EnvOK BY <1>1 DEF Init, EnvOK, NoWallets
  <2>2. RunWired BY <1>1, Idling DEF Init, RunWired
  <2>3. FilesWired BY <1>1, Names DEF Init, FilesWired, Exists
  <2> QED BY <2>1, <2>2, <2>3 DEF WiredInv
<1> QED BY <1>1, WiredStep, PartsHold, PTL DEF Spec

(* WiredWalletsCanAct for any number of runs, wallets and deaths: whenever a  *)
(* file says that the bounty or the rail is wired, its wallet holds the role, *)
(* is registered where the contract asks, and its key is in .env              *)
(* (deploy_exploit_bounty.js, deploy_training_compensation.js).               *)
THEOREM WiredWalletsAct == Spec => []WiredWalletsCanAct
<1>1. ASSUME Inv, PartsInv, WiredInv PROVE WiredWalletsCanAct
  <2>1. ASSUME NEW n \in {"exploit_bounty", "training_compensation"}, Exists(n),
               NEW k \in {"bounty", "claim"}, k \in Needed(n)
        PROVE  contracts[files[n].at[k]].built["registry"] = files[n].at["registry"]
    <3>1. n \in FileNames /\ "registry" \in Needed(n) BY Names DEF Needed
    <3>2. files[n].at[k] \in Addresses /\ files[n].at[k] <= deployed /\ contracts[files[n].at[k]].kind = k
          /\ files[n].at["registry"] \in Addresses
      BY <1>1, <2>1, <3>1, FileNames2
    <3>3. contracts[files[n].at[k]].built["registry"] # 0
      BY <1>1, <3>2, Names DEF PartsInv, Grounded, Needs
    <3> QED BY <1>1, <3>1, <3>2, <3>3, Names, Apart DEF Inv, Fits
  <2>2. "bounty" \in Needed("exploit_bounty") /\ "claim" \in Needed("training_compensation") BY DEF Needed
  <2> QED BY <1>1, <2>1, <2>2 DEF WiredInv, FilesWired, BountyFile, TrainingFile, Registered, WiredWalletsCanAct
<1> QED BY <1>1, WiredHolds, PTL

-----------------------------------------------------------------------------

(* Generated wallets. The catalog's wallet is in its key file as soon as it   *)
(* exists, the other scripts work with wallets of the operator, and at most   *)
(* one funded wallet was lost at each death and each overwritten key.         *)
Generating == {"exploit_bounty", "training_compensation", "acquisition_catalog"}
Lost == funded \ (SavedKeys \cup {run.wallet})
LossIsCounted == Cardinality(Lost) <= crashes + overwritten

CatalogRun ==
  /\ run.step = "company" => run.wallet = Nobody
  /\ run.step # "company" => run.wallet \in SavedKeys

KeysInv ==
  /\ funded \subseteq FreshWallets
  /\ run.script = "acquisition_catalog" => CatalogRun
  /\ run.script \notin Generating => run.wallet \notin FreshWallets
  /\ LossIsCounted

(* Saved keys are keys of generated wallets, and are those of the variables. *)
LEMMA SavedAre ==
  ASSUME EnvOK
  PROVE  /\ SavedKeys \subseteq FreshWallets
         /\ \A f \in {"root", "acquisition"}, n \in KeyNames : env[f][n] # Nobody => env[f][n] \in SavedKeys
BY DEF EnvOK, SavedKeys

(* Nobody loses a wallet that is not funded, and counts are of finite sets. *)
LEMMA LostIsFinite ==
  ASSUME funded \subseteq FreshWallets
  PROVE  /\ IsFiniteSet(Lost) /\ Cardinality(Lost) \in Nat
         /\ \A S : S \subseteq Lost => Cardinality(S) <= Cardinality(Lost)
         /\ \A S, x : S \subseteq Lost \cup {x} => Cardinality(S) <= Cardinality(Lost) + 1
<1>1. IsFiniteSet(Lost) /\ Cardinality(Lost) \in Nat
  <2>1. Lost \in SUBSET FreshWallets BY DEF Lost
  <2> QED BY <2>1, DeploymentAssumption, FS_Subset, FS_CardinalityType DEF DeploymentAssumption
<1>2. \A S : S \subseteq Lost => Cardinality(S) <= Cardinality(Lost)
  BY <1>1, FS_Subset
<1>3. ASSUME NEW S, NEW x, S \subseteq Lost \cup {x} PROVE Cardinality(S) <= Cardinality(Lost) + 1
  <2>1. IsFiniteSet(Lost \cup {x}) /\ Cardinality(Lost \cup {x}) \in {Cardinality(Lost), Cardinality(Lost) + 1}
    BY <1>1, FS_AddElement
  <2>2. Cardinality(S) <= Cardinality(Lost \cup {x}) /\ Cardinality(S) \in Nat
    BY <1>3, <2>1, FS_Subset, FS_CardinalityType
  <2> QED BY <1>1, <2>1, <2>2
<1> QED BY <1>1, <1>2, <1>3

Counts == crashes \in Nat /\ overwritten \in Nat

(* The counters of deaths and of keys overwritten are natural numbers. *)
LEMMA CountsAre == ASSUME Inv PROVE Counts
BY InvTyped, DeploymentAssumption DEF Counts, RestOK, DeploymentAssumption

(* A step that loses nothing. *)
LEMMA NothingLost ==
  ASSUME Inv, KeysInv, Lost' \subseteq Lost, UNCHANGED <<crashes, overwritten>> PROVE LossIsCounted'
<1>1. Cardinality(Lost') <= Cardinality(Lost) BY LostIsFinite DEF KeysInv
<1>2. Cardinality(Lost') \in Nat
  <2>1. IsFiniteSet(Lost') BY LostIsFinite, FS_Subset DEF KeysInv
  <2> QED BY <2>1, FS_CardinalityType
<1> QED BY <1>1, <1>2, LostIsFinite, CountsAre DEF KeysInv, LossIsCounted, Counts

(* A step that loses one wallet, and is counted. *)
LEMMA OneLost ==
  ASSUME Inv, KeysInv, NEW x, Lost' \subseteq Lost \cup {x},
         crashes' + overwritten' = crashes + overwritten + 1
  PROVE  LossIsCounted'
<1>1. Cardinality(Lost') <= Cardinality(Lost) + 1 BY LostIsFinite DEF KeysInv
<1>2. Cardinality(Lost') \in Nat
  <2>1. IsFiniteSet(Lost \cup {x}) BY LostIsFinite, FS_AddElement DEF KeysInv
  <2>2. IsFiniteSet(Lost') BY <2>1, FS_Subset
  <2> QED BY <2>2, FS_CardinalityType
<1> QED BY <1>1, <1>2, LostIsFinite, CountsAre DEF KeysInv, LossIsCounted, Counts

(* Steps that neither fund nor write keys, and leave no wallet behind. *)
LEMMA KeysKept ==
  ASSUME Inv, KeysInv, UNCHANGED <<funded, crashes, overwritten>>, SavedKeys \subseteq SavedKeys',
         run'.wallet = run.wallet \/ run.wallet \notin FreshWallets \ SavedKeys,
         run'.script = "acquisition_catalog" => CatalogRun',
         run'.script \notin Generating => run'.wallet \notin FreshWallets
  PROVE  KeysInv'
<1>1. Lost' \subseteq Lost BY DEF Lost, KeysInv
<1>2. LossIsCounted' BY <1>1, NothingLost
<1> QED BY <1>2 DEF KeysInv, Generating

(* Wallets the operator has are not generated. *)
LEMMA Own == Deployer \notin FreshWallets /\ Nobody \notin FreshWallets /\ Agents \cap FreshWallets = {}
BY DeploymentAssumption DEF DeploymentAssumption

(* Scripts that work with the operator's own wallets. *)
OwnStep ==
  /\ UNCHANGED <<env, funded, crashes, overwritten>>
  /\ run.script \notin Generating /\ run'.script \notin Generating /\ run'.wallet \notin FreshWallets

(* A script that generates no wallet loses none. *)
LEMMA OwnKeeps == ASSUME Inv, KeysInv, OwnStep PROVE KeysInv'
<1>1. SavedKeys' = SavedKeys BY DEF OwnStep, SavedKeys
<1>2. run.wallet \notin FreshWallets BY DEF OwnStep, KeysInv
<1> QED BY <1>1, <1>2, KeysKept DEF OwnStep, Generating

(* The scripts that deploy the bond stack generate no wallet. *)
LEMMA StackIsOwn == ASSUME Inv, KeysInv, Stack PROVE OwnStep
<1> USE Own DEF OwnStep, Generating
<1>0. run \in Runs BY InvTyped
<1>1. CASE StandaloneRegistry \/ NetworkMockRegistry \/ NetworkLiveRegistry
  BY <1>1 DEF StandaloneRegistry, NetworkMockRegistry, NetworkLiveRegistry, Begin, Idle, OnlyChainAndRuns
<1>2. CASE StandaloneRegister \/ StandaloneBond \/ StandalonePost \/ NetworkVerify \/ NetworkBond \/ NetworkPost
  <2>1. run.script \in {"standalone", "network"} /\ UNCHANGED <<env, funded, crashes, overwritten>>
    BY <1>2 DEF StandaloneRegister, StandaloneBond, StandalonePost, NetworkVerify, NetworkBond, NetworkPost, At, OnlyChain
  <2>2. run'.script = run.script /\ run'.wallet = run.wallet
    BY <1>0, <1>2 DEF StandaloneRegister, StandaloneBond, StandalonePost, NetworkVerify, NetworkBond, NetworkPost,
                      Goto, GotoWith, Runs
  <2> QED BY <2>1, <2>2 DEF KeysInv
<1>3. CASE SaveStandalone \/ SaveNetwork
  BY <1>3 DEF SaveStandalone, SaveNetwork, SaveFile, At, Idle
<1> QED BY <1>1, <1>2, <1>3 DEF Stack

(* The scripts that replace or extend the stack generate no wallet. *)
LEMMA UpgradesAreOwn == ASSUME Inv, KeysInv, Upgrades PROVE OwnStep
<1> USE Own DEF OwnStep, Generating
<1>0. run \in Runs BY InvTyped
<1>1. CASE BondV2 \/ Adapter \/ RightsClaimBond \/ SessionGuard \/ UsycBond
  BY <1>1 DEF BondV2, Adapter, RightsClaimBond, SessionGuard, UsycBond, Begin, Idle, OnlyChainAndRuns
<1>2. CASE ActivateGuard \/ UsycPost \/ UsycUnposted
  <2>1. run.script \in {"session_guard", "usyc"} /\ UNCHANGED <<env, funded, crashes, overwritten>>
    BY <1>2 DEF ActivateGuard, UsycPost, UsycUnposted, At, OnlyChain
  <2>2. run'.script = run.script /\ run'.wallet = run.wallet
    BY <1>0, <1>2 DEF ActivateGuard, UsycPost, UsycUnposted, Goto, Runs
  <2> QED BY <2>1, <2>2 DEF KeysInv
<1>3. CASE SaveBondV2 \/ SaveAdapter \/ SaveRightsClaimBond \/ SaveSessionGuard \/ SaveUsyc
  BY <1>3 DEF SaveBondV2, SaveAdapter, SaveRightsClaimBond, SaveSessionGuard, SaveUsyc, SaveFile, At, Idle
<1>4. CASE ActivationReverts \/ PostReverts
  BY <1>4 DEF ActivationReverts, PostReverts, Abort, At, Idle
<1> QED BY <1>1, <1>2, <1>3, <1>4 DEF Upgrades

(* The operator's commands generate no wallet. *)
LEMMA CommandsAreOwn == ASSUME Inv, KeysInv, Commands PROVE OwnStep
<1> USE Own DEF OwnStep, Generating
<1>1. ASSUME NEW w, Register(w) \/ PostBond(w) \/ SetAuthorizedSlasher(w) \/ TransferOwnership(w) \/ GrantOrRevoke(w)
      PROVE OwnStep
  BY <1>1 DEF Register, PostBond, SetAuthorizedSlasher, TransferOwnership, GrantOrRevoke, Command, Begin, Idle,
              OnlyChainAndRuns
<1>2. ASSUME NEW w, SetAgentId(w) \/ SaveIdentity PROVE OwnStep
  BY <1>2 DEF SetAgentId, SaveIdentity, Command, Begin, Idle, At
<1>3. ASSUME NEW w \in Agents, NEW force, RegisterIdentity(w, force) PROVE OwnStep
  <2>1. run = Idle /\ run' = [Idle EXCEPT !.script = "identity", !.step = "cache", !.wallet = w]
    BY <1>3 DEF RegisterIdentity, Begin
  <2>2. run.script = "none" /\ run'.script = "identity" /\ run'.wallet = w BY <2>1 DEF Idle
  <2>3. UNCHANGED <<env, funded, crashes, overwritten>> BY <1>3 DEF RegisterIdentity
  <2> QED BY <2>2, <2>3
<1> QED BY <1>1, <1>2, <1>3 DEF Commands

(* The scripts of the bounty and the rail. *)
LEMMA KeysWired ==
  ASSUME Inv, EnvOK, RunWired, KeysInv,
         \/ Bounty \/ BountyProvision \/ BountyRegister \/ BountyWire \/ BountyUpsert \/ SaveBounty
         \/ Training \/ TrainingPool \/ CompensationClaim \/ TrainingProvision
         \/ TrainingRegister \/ TrainingUpsert \/ WireIngestor \/ WireDistributor \/ SaveTraining
  PROVE  KeysInv'
<1> USE Own, Names
<1> DEFINE Two == {"exploit_bounty", "training_compensation"}
<1>0. run \in Runs /\ env \in [{"root", "acquisition"} -> [KeyNames -> WalletOrNobody]]
  BY InvTyped DEF RestOK
<1>1. CASE Bounty \/ Training
  <2>1. run.script = "none" /\ run'.script \in Two /\ UNCHANGED <<env, funded, crashes, overwritten>>
    BY <1>1 DEF Bounty, Training, Begin, Idle, OnlyChainAndRuns
  <2>2. SavedKeys' = SavedKeys BY <2>1 DEF SavedKeys
  <2>3. run.wallet \notin FreshWallets BY <2>1 DEF KeysInv, Generating
  <2> QED BY <2>1, <2>2, <2>3, KeysKept DEF Generating
<1>2. CASE \/ BountyRegister \/ BountyWire
           \/ TrainingPool \/ CompensationClaim \/ TrainingRegister \/ WireIngestor \/ WireDistributor
  <2>1. run.script \in Two /\ UNCHANGED <<env, funded, crashes, overwritten>>
    BY <1>2 DEF BountyRegister, BountyWire, TrainingPool, CompensationClaim, TrainingRegister, WireIngestor,
                WireDistributor, At, OnlyChain
  <2>2. run'.script = run.script /\ run'.wallet = run.wallet
    BY <1>0, <1>2 DEF BountyRegister, BountyWire, TrainingPool, CompensationClaim, TrainingRegister, WireIngestor,
                WireDistributor, Goto, GotoWith, Runs
  <2>3. SavedKeys' = SavedKeys BY <2>1 DEF SavedKeys
  <2> QED BY <2>1, <2>2, <2>3, KeysKept DEF Generating
<1>3. CASE SaveBounty \/ SaveTraining
  <2>1. run' = Idle /\ UNCHANGED <<env, funded, crashes, overwritten>> /\ run.script \in Two /\ run.step = "save"
    BY <1>3 DEF SaveBounty, SaveTraining, SaveFile, At
  <2>2. \E name \in KeyNames : env["root"][name] = run.wallet
    BY <2>1 DEF RunWired, BountyRun, TrainingRun, KeyOK
  <2>3. run.wallet \notin FreshWallets \ SavedKeys BY <2>2, SavedAre
  <2>4. SavedKeys' = SavedKeys BY <2>1 DEF SavedKeys
  <2>5. run'.script = "none" /\ run'.wallet = Nobody BY <2>1 DEF Idle
  <2> QED BY <2>1, <2>3, <2>4, <2>5, KeysKept DEF Generating
<1>4. CASE BountyProvision \/ TrainingProvision
  <2>1. PICK name \in KeyNames, step \in {"wire", "upsert"} : Provision(name, step)
    BY <1>4 DEF BountyProvision, TrainingProvision
  <2>2. run.script \in Two /\ run.step = "provision" /\ UNCHANGED <<env, crashes, overwritten>>
    BY <1>4 DEF BountyProvision, TrainingProvision, At
  <2>3. run.wallet = Nobody BY <2>2 DEF RunWired, BountyRun, TrainingRun
  <2>4. PICK w \in GenerateOrReuse(name) : funded' \in {funded, funded \cup {w}} /\ run'.wallet = w
    BY <1>0, <2>1 DEF Provision, Runs
  <2>5. w \in FreshWallets /\ run'.script = run.script BY <2>1, <2>4, ProvisionEffect
  <2>6. SavedKeys' = SavedKeys BY <2>2 DEF SavedKeys
  <2>7. Lost' \subseteq Lost BY <2>3, <2>4, <2>6 DEF Lost, KeysInv
  <2>8. LossIsCounted' BY <2>2, <2>7, NothingLost
  <2>9. funded' \subseteq FreshWallets BY <2>4, <2>5 DEF KeysInv
  <2> QED BY <2>2, <2>5, <2>8, <2>9 DEF KeysInv, Generating
<1>5. CASE BountyUpsert \/ TrainingUpsert
  <2>1. PICK name \in KeyNames : Upsert("root", name, run.wallet) /\ env["root"][name] = Nobody
    BY <1>5 DEF BountyUpsert, TrainingUpsert, At, RunWired, BountyRun, TrainingRun, Reused
  <2>2. run.script \in Two /\ UNCHANGED <<funded, crashes, overwritten>> /\ \E step : Goto(step)
    BY <1>5 DEF BountyUpsert, TrainingUpsert, At
  <2>3. run'.script = run.script /\ run'.wallet = run.wallet BY <1>0, <2>2, GoesOn
  <2>4. \A f \in {"root", "acquisition"}, n \in KeyNames : env[f][n] # Nobody => env'[f][n] = env[f][n]
    BY <1>0, <2>1 DEF Upsert
  <2>5. SavedKeys \subseteq SavedKeys' BY <2>4 DEF SavedKeys
  <2> QED BY <2>2, <2>3, <2>5, KeysKept DEF Generating
<1> QED BY <1>1, <1>2, <1>3, <1>4, <1>5

(* The catalog puts every key into its file before it sends money, over the   *)
(* key that was there.                                                        *)
LEMMA KeysCatalog ==
  ASSUME Inv, EnvOK, KeysInv,
         \/ Catalog \/ CatalogCompany \/ CatalogFundCompany \/ CatalogArtist
         \/ CatalogFundArtist \/ RegisterTrack \/ SaveCatalog
  PROVE  KeysInv'
<1> USE Own, Names
<1>0. run \in Runs /\ env \in [{"root", "acquisition"} -> [KeyNames -> WalletOrNobody]]
  BY InvTyped DEF RestOK
<1>1. CASE Catalog
  <2>1. run = Idle /\ run' = [Idle EXCEPT !.script = "acquisition_catalog", !.step = "company"]
        /\ UNCHANGED <<env, funded, crashes, overwritten>>
    BY <1>1 DEF Catalog, Begin, OnlyChainAndRuns
  <2>2. run.wallet = Nobody /\ run'.wallet = Nobody /\ run'.script = "acquisition_catalog" /\ run'.step = "company"
    BY <2>1 DEF Idle
  <2>3. SavedKeys' = SavedKeys BY <2>1 DEF SavedKeys
  <2> QED BY <2>1, <2>2, <2>3, KeysKept DEF CatalogRun
<1>2. CASE CatalogFundCompany \/ CatalogFundArtist
  <2>1. PICK step \in {"artist", "tracks"} : Fund(step) BY <1>2 DEF CatalogFundCompany, CatalogFundArtist
  <2>2. run.script = "acquisition_catalog" /\ run.step # "company" BY <1>2 DEF CatalogFundCompany, CatalogFundArtist, At
  <2>3. funded' = funded \cup {run.wallet} /\ Goto(step) /\ UNCHANGED <<env, crashes, overwritten>> BY <2>1 DEF Fund
  <2>4. run'.script = run.script /\ run'.wallet = run.wallet /\ run'.step = step BY <1>0, <2>3, GoesOn
  <2>5. run.wallet \in SavedKeys /\ run.wallet \in FreshWallets BY <2>2, SavedAre DEF KeysInv, CatalogRun
  <2>6. SavedKeys' = SavedKeys BY <2>3 DEF SavedKeys
  <2>7. Lost' \subseteq Lost BY <2>3, <2>4, <2>5, <2>6 DEF Lost
  <2>8. LossIsCounted' BY <2>3, <2>7, NothingLost
  <2> QED BY <2>2, <2>3, <2>4, <2>5, <2>6, <2>8 DEF KeysInv, CatalogRun, Generating
<1>3. CASE RegisterTrack
  <2>1. UNCHANGED <<run, env, funded, crashes, overwritten>> BY <1>3 DEF RegisterTrack, OnlyChain
  <2> QED BY <2>1 DEF KeysInv, CatalogRun, LossIsCounted, Lost, SavedKeys
<1>4. CASE SaveCatalog
  <2>1. run' = Idle /\ UNCHANGED <<env, funded, crashes, overwritten>>
        /\ run.script = "acquisition_catalog" /\ run.step = "tracks"
    BY <1>4 DEF SaveCatalog, At
  <2>2. run.wallet \in SavedKeys BY <2>1 DEF KeysInv, CatalogRun
  <2>3. SavedKeys' = SavedKeys BY <2>1 DEF SavedKeys
  <2>4. run'.script = "none" /\ run'.wallet = Nobody BY <2>1 DEF Idle
  <2> QED BY <2>1, <2>2, <2>3, <2>4, KeysKept
<1>5. CASE CatalogCompany \/ CatalogArtist
  <2>1. PICK name \in KeyNames, step \in {"fundCompany", "fundArtist"} : GetOrCreateWallet(name, step)
    BY <1>5 DEF CatalogCompany, CatalogArtist
  <2>2. run.script = "acquisition_catalog" BY <1>5 DEF CatalogCompany, CatalogArtist, At
  <2> DEFINE old == env["acquisition"][name]
  <2>3. PICK w \in GenerateOrReuse(name) :
          /\ Upsert("acquisition", name, w)
          /\ overwritten' = IF old \in funded THEN overwritten + 1 ELSE overwritten
          /\ run' = [run EXCEPT !.wallet = w, !.out.wallets[name] = w, !.step = step]
    BY <2>1 DEF GetOrCreateWallet
  <2>4. UNCHANGED <<funded, crashes>> BY <2>1 DEF GetOrCreateWallet
  <2>5. run'.script = run.script /\ run'.wallet = w /\ run'.step = step BY <1>0, <2>3 DEF Runs
  <2>6. w \in FreshWallets BY DEF GenerateOrReuse, Fresh, EnvOK
  <2>7. \A f \in {"root", "acquisition"}, n \in KeyNames :
          env'[f][n] = IF f = "acquisition" /\ n = name THEN w ELSE env[f][n]
    BY <1>0, <2>3 DEF Upsert
  <2>8. SavedKeys \ {old} \subseteq SavedKeys' /\ w \in SavedKeys'
    <3>1. w \in SavedKeys' BY <2>6, <2>7 DEF SavedKeys
    <3>2. ASSUME NEW x \in SavedKeys, x # old PROVE x \in SavedKeys'
      <4>1. PICK f \in {"root", "acquisition"}, n \in KeyNames : x = env[f][n] /\ x # Nobody BY <3>2 DEF SavedKeys
      <4>2. env'[f][n] = x BY <2>7, <3>2, <4>1
      <4> QED BY <4>1, <4>2 DEF SavedKeys
    <3> QED BY <3>1, <3>2
  <2>9. run.wallet = Nobody \/ run.wallet \in SavedKeys BY <2>2 DEF KeysInv, CatalogRun
  <2>10. \A x \in funded : x # Nobody BY DEF KeysInv
  <2> HIDE DEF old
  <2>11. LossIsCounted'
    <3>1. CASE old \in funded
      <4>1. Lost' \subseteq Lost \cup {old} BY <2>4, <2>5, <2>8, <2>9, <2>10 DEF Lost
      <4>2. overwritten' = overwritten + 1 /\ crashes' = crashes BY <2>3, <2>4, <3>1
      <4>3. crashes' + overwritten' = crashes + overwritten + 1 BY <4>2, CountsAre DEF Counts
      <4> QED BY <4>1, <4>3, OneLost
    <3>2. CASE old \notin funded
      <4>1. Lost' \subseteq Lost BY <2>4, <2>5, <2>8, <2>9, <2>10, <3>2 DEF Lost
      <4> QED BY <2>3, <2>4, <3>2, <4>1, NothingLost
    <3> QED BY <3>1, <3>2
  <2>12. CatalogRun' BY <2>5, <2>8 DEF CatalogRun
  <2> QED BY <2>2, <2>4, <2>5, <2>11, <2>12 DEF KeysInv, Generating
<1> QED BY <1>1, <1>2, <1>3, <1>4, <1>5

(* Every step that loses a key of a funded wallet counts a death or an overwritten key. *)
LEMMA KeysStep == ASSUME Inv, PartsInv, WiredInv, KeysInv, [Next]_vars PROVE KeysInv'
<1>1. CASE UNCHANGED vars
  BY <1>1 DEF vars, KeysInv, CatalogRun, LossIsCounted, Lost, SavedKeys
<1>2. CASE Crash
  <2>1. run' = Idle /\ UNCHANGED <<env, funded, overwritten>> /\ crashes' = crashes + 1 BY <1>2 DEF Crash
  <2>2. run'.script = "none" /\ run'.wallet = Nobody BY <2>1 DEF Idle
  <2>3. SavedKeys' = SavedKeys BY <2>1 DEF SavedKeys
  <2>4. Lost' \subseteq Lost \cup {run.wallet} BY <2>1, <2>3 DEF Lost
  <2>5. crashes' + overwritten' = crashes + overwritten + 1 BY <2>1, CountsAre DEF Counts
  <2>6. LossIsCounted' BY <2>4, <2>5, OneLost
  <2> QED BY <2>1, <2>2, <2>6, Own DEF KeysInv
<1>3. CASE Verticals
  BY <1>3, KeysWired, KeysCatalog DEF Verticals, WiredInv
<1> QED BY <1>1, <1>2, <1>3, StackIsOwn, UpgradesAreOwn, CommandsAreOwn, OwnKeeps DEF Next

(* KeysAreLostOnlyByCrashOrRerun for any number of generated wallets, runs    *)
(* and deaths: every funded wallet whose key is neither in a key file nor in  *)
(* the running script was lost at a death or under an overwritten key, one at *)
(* most each time (upsertEnvVar).                                             *)
THEOREM KeyLossIsBounded == Spec => []KeysAreLostOnlyByCrashOrRerun
<1>1. ASSUME Init PROVE KeysInv
  <2>1. funded = {} /\ run = Idle /\ crashes = 0 /\ overwritten = 0 BY <1>1 DEF Init
  <2>2. Lost = {} BY <2>1 DEF Lost
  <2>3. LossIsCounted BY <2>1, <2>2, FS_EmptySet DEF LossIsCounted
  <2>4. run.script = "none" /\ run.wallet = Nobody BY <2>1 DEF Idle
  <2> QED BY <2>1, <2>3, <2>4, Own DEF KeysInv
<1>2. Inv /\ PartsInv /\ WiredInv /\ KeysInv /\ [Next]_vars => KeysInv' BY KeysStep
<1>3. KeysInv => KeysAreLostOnlyByCrashOrRerun
  BY DEF KeysInv, LossIsCounted, Lost, KeysAreLostOnlyByCrashOrRerun
<1> QED BY <1>1, <1>2, <1>3, WiredHolds, PTL DEF Spec
=============================================================================
