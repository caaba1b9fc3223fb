---------------------------- MODULE Deployments ----------------------------
(* The scripts that deploy and administer the system (scripts/*.js,           *)
(* scripts/cli/*.js) on a live network: contracts that are built on each      *)
(* other, the files under deployments/ by which one script and every service  *)
(* finds what another deployed, the keys written to .env and                  *)
(* acquisition/.env, the wallets funded from the deployer's.                  *)
(*                                                                            *)
(* One operator runs one script at a time, in any order and as often as he    *)
(* likes. A script is a sequence of awaited transactions, one step each, and  *)
(* may die at every one of them: the process is killed or the transaction     *)
(* fails. It starts again from the top. Reads and file reads belong to the    *)
(* step they precede. Abstracted: amounts, allowances, gas, the token and the *)
(* stateless DCAP verifier, gating probes by eth_call, the local networks     *)
(* with their mocks, output. The catalog has one artist.                      *)
(* An operator that no other definition uses is a mutant of the first used    *)
(* definition after it.                                                       *)
EXTENDS Naturals, FiniteSets, Sequences

CONSTANTS
  Deployer,       \* wallet of DEPLOYER_PRIVATE_KEY
  Agents,         \* wallets whose keys oracle/.env and consumer/.env hold
  FreshWallets,   \* what Wallet.createRandom() may return
  Nobody,         \* address zero, as a wallet
  Tracks,         \* tracks of the acquisition catalog
  MaxContracts, MaxRuns, MaxCrashes   \* bounds of the instance

ASSUME DeploymentAssumption ==
  /\ MaxContracts \in Nat /\ MaxRuns \in Nat /\ MaxCrashes \in Nat
  /\ IsFiniteSet(Agents) /\ IsFiniteSet(FreshWallets)
  /\ Deployer \notin Agents \cup FreshWallets
  /\ Agents \cap FreshWallets = {}
  /\ Nobody \notin {Deployer} \cup Agents \cup FreshWallets
  /\ (0..MaxContracts) \cap ({Deployer, Nobody} \cup Agents \cup FreshWallets) = {}

Wallets == {Deployer} \cup Agents \cup FreshWallets
WalletOrNobody == Wallets \cup {Nobody}
Addresses == 1..MaxContracts
AddressOrZero == 0..MaxContracts

Kinds == {"registry", "bond", "adapter", "bounty", "artists", "pool", "claim",
          "rights", "guard"}

(* deployments/<network>_<name>.json; "network" is <network>.json *)
FileNames == {"network", "standalone", "bond_v2", "usyc", "erc8004_adapter",
              "exploit_bounty", "training_compensation", "rights_claim_bond",
              "session_guard", "acquisition_catalog"}

(* Key variables of .env and acquisition/.env that scripts write *)
KeyNames == {"BOUNTY_VERIFIER", "INGESTOR", "ACQ_COMPANY", "ACQ_ARTIST"}

(* A contract: the contracts its constructor was given, the one account it    *)
(* authorises, its owner, who is registered or staked in it, track owners.    *)
Contract ==
  [kind : Kinds \cup {"none"}, built : [Kinds -> AddressOrZero],
   role : WalletOrNobody \cup AddressOrZero, owner : WalletOrNobody,
   members : SUBSET WalletOrNobody, tracks : [Tracks -> WalletOrNobody]]

(* A deployment file: the addresses it names, by kind, and its wallets *)
File == [at : [Kinds -> AddressOrZero], wallets : [KeyNames -> WalletOrNobody]]

NoAddresses == [k \in Kinds |-> 0]
NoWallets == [n \in KeyNames |-> Nobody]
NoFile == [at |-> NoAddresses, wallets |-> NoWallets]
NoContract == [kind |-> "none", built |-> NoAddresses, role |-> Nobody,
               owner |-> Nobody, members |-> {}, tracks |-> [t \in Tracks |-> Nobody]]

Steps == {"idle", "register", "bond", "post", "pool", "claim", "provision", "wire",
          "wirePool", "upsert", "activate", "company", "fundCompany", "artist",
          "fundArtist", "tracks", "cache", "save"}

VARIABLES
  contracts,    \* the chain
  deployed,     \* how many contracts it holds
  files,        \* deployments/
  env,          \* .env and acquisition/.env: the key each variable holds
  run,          \* the running script: what it will save, its wallet, where it is
  funded,       \* generated wallets the deployer sent money to
  identities,   \* tokens of the ERC-8004 IdentityRegistry, in order of minting
  cache,        \* deployments/<network>_erc8004_identities.json
  agentId8004,  \* of every adapter: the token a wallet is mapped to
  runs, crashes, overwritten, forced   \* history: events counted by properties

vars == <<contracts, deployed, files, env, run, funded, identities, cache,
          agentId8004, runs, crashes, overwritten, forced>>
chainVars == <<contracts, deployed>>
identityVars == <<identities, cache, agentId8004, forced>>

Idle == [script |-> "none", step |-> "idle", out |-> NoFile, wallet |-> Nobody]
TypeOK ==
  /\ contracts \in [Addresses -> Contract]
  /\ deployed \in AddressOrZero
  /\ files \in [FileNames -> File]
  /\ env \in [{"root", "acquisition"} -> [KeyNames -> WalletOrNobody]]
  /\ run \in [script : FileNames \cup {"identity", "none"}, step : Steps,
              out : File, wallet : WalletOrNobody]
  /\ funded \in SUBSET WalletOrNobody
  /\ identities \in Seq(Agents)
  /\ cache \in [Agents -> Nat]
  /\ agentId8004 \in [Addresses -> [Agents -> Nat]]
  /\ runs \in 0..MaxRuns
  /\ crashes \in 0..MaxCrashes
  /\ overwritten \in Nat
  /\ forced \in Nat

Init ==
  /\ contracts = [a \in Addresses |-> NoContract]
  /\ deployed = 0
  /\ files = [n \in FileNames |-> NoFile]
  /\ env = [f \in {"root", "acquisition"} |-> NoWallets]
  /\ run = Idle
  /\ funded = {}
  /\ identities = << >>
  /\ cache = [w \in Agents |-> 0]
  /\ agentId8004 = [a \in Addresses |-> [w \in Agents |-> 0]]
  /\ runs = 0 /\ crashes = 0 /\ overwritten = 0 /\ forced = 0

-----------------------------------------------------------------------------
(* What scripts have in common *)

Exists(n) == files[n] # NoFile
At(script, step) == run.script = script /\ run.step = step
Made(k) == run.out.at[k]

Begin ==
  /\ run = Idle
  /\ runs < MaxRuns
  /\ runs' = runs + 1

(* factory.deploy(...), the deployer owns what he deploys *)
NewContract(kind, built, role) ==
  /\ deployed < MaxContracts
  /\ deployed' = deployed + 1
  /\ contracts' = [contracts EXCEPT ![deployed + 1] =
       [kind |-> kind, built |-> built, role |-> role, owner |-> Deployer,
        members |-> {}, tracks |-> [t \in Tracks |-> Nobody]]]

DeployBond(registry) ==
  NewContract("bond", [NoAddresses EXCEPT !["registry"] = registry], Deployer)

AddMember(a, w) ==
  /\ contracts' = [contracts EXCEPT ![a].members = @ \cup {w}]
  /\ UNCHANGED deployed

SetRole(a, r) ==
  /\ contracts' = [contracts EXCEPT ![a].role = r]
  /\ UNCHANGED deployed

Goto(step) == run' = [run EXCEPT !.step = step]

(* The contract just deployed goes into what the script will save *)
GotoWith(step, kind) ==
  run' = [run EXCEPT !.step = step, !.out.at[kind] = deployed + 1]

(* JSON.stringify and writeFileSync, the last thing a script does *)
SaveFile(script) ==
  /\ At(script, "save")
  /\ files' = [files EXCEPT ![script] = run.out]
  /\ run' = Idle
  /\ UNCHANGED <<chainVars, env, funded, identityVars, runs, crashes, overwritten>>

(* A wallet is registered with a prototype quote that it signs itself *)
RegisterAgent(registry, w) == AddMember(registry, w)

(* postBond reverts for a wallet the bond's registry does not know *)
MayPost(bond, w) == w \in contracts[contracts[bond].built["registry"]].members

(* The script ends early, by an exception or process.exit *)
Abort ==
  /\ run' = Idle
  /\ UNCHANGED <<chainVars, files, env, funded, identityVars, runs, crashes, overwritten>>

Crash ==
  /\ run # Idle
  /\ crashes < MaxCrashes
  /\ crashes' = crashes + 1
  /\ run' = Idle
  /\ UNCHANGED <<chainVars, files, env, funded, identityVars, runs, overwritten>>

OnlyChain == UNCHANGED <<files, env, funded, identityVars, runs, crashes, overwritten>>
OnlyChainAndRuns == UNCHANGED <<files, env, funded, identityVars, crashes, overwritten>>

Registries == {a \in 1..deployed : contracts[a].kind = "registry"}

-----------------------------------------------------------------------------
(* deploy_standalone.js and deploy.js: registry, registration, bond, stake *)

StandaloneRegistry ==
  /\ Begin
  /\ NewContract("registry", NoAddresses, Nobody)
  /\ run' = [script |-> "standalone", step |-> "register", wallet |-> Deployer,
             out |-> [NoFile EXCEPT !.at["registry"] = deployed + 1]]
  /\ OnlyChainAndRuns

StandaloneRegister ==
  /\ At("standalone", "register")
  /\ RegisterAgent(Made("registry"), Deployer)
  /\ Goto("bond")
  /\ OnlyChain

StandaloneBond ==
  /\ At("standalone", "bond")
  /\ DeployBond(Made("registry"))
  /\ GotoWith("post", "bond")
  /\ OnlyChain

StandalonePost ==
  /\ At("standalone", "post")
  /\ MayPost(Made("bond"), Deployer)
  /\ AddMember(Made("bond"), Deployer)
  /\ Goto("save")
  /\ OnlyChain

SaveStandalone == SaveFile("standalone")

(* Without ARCID_REGISTRY_ADDRESS, deploy.js makes a mock registry even on a *)
(* live network, and marks the deployer verified in it.                      *)
NetworkMockRegistry ==
  /\ Begin
  /\ NewContract("registry", NoAddresses, Nobody)
  /\ run' = [script |-> "network", step |-> "register", wallet |-> Deployer,
             out |-> [NoFile EXCEPT !.at["registry"] = deployed + 1]]
  /\ OnlyChainAndRuns

NetworkVerify ==
  /\ At("network", "register")
  /\ RegisterAgent(Made("registry"), Deployer)
  /\ Goto("bond")
  /\ OnlyChain

NetworkLiveRegistry ==
  /\ Begin
  /\ \E r \in Registries :
       run' = [script |-> "network", step |-> "bond", wallet |-> Deployer,
               out |-> [NoFile EXCEPT !.at["registry"] = r]]
  /\ UNCHANGED chainVars
  /\ OnlyChainAndRuns

NetworkBond ==
  /\ At("network", "bond")
  /\ DeployBond(Made("registry"))
  /\ GotoWith("post", "bond")
  /\ OnlyChain

NetworkPost ==
  /\ At("network", "post")
  /\ MayPost(Made("bond"), Deployer)
  /\ AddMember(Made("bond"), Deployer)
  /\ Goto("save")
  /\ OnlyChain

SaveNetwork == SaveFile("network")

-----------------------------------------------------------------------------
(* Scripts that build one more contract on a file another script wrote *)

(* deploy_bond_v2.js: the bond again, on the registry of the stack *)
BondV2 ==
  /\ Begin
  /\ Exists("standalone")
  /\ LET registry == files["standalone"].at["registry"] IN
       /\ DeployBond(registry)
       /\ run' = [script |-> "bond_v2", step |-> "save", wallet |-> Deployer,
                  out |-> [NoFile EXCEPT !.at["registry"] = registry, !.at["bond"] = deployed + 1]]
  /\ OnlyChainAndRuns

SaveBondV2 == SaveFile("bond_v2")

AdapterNamesOldBond ==
  /\ Begin
  /\ Exists("bond_v2") \/ Exists("standalone")
  /\ LET source == IF Exists("bond_v2") THEN "bond_v2" ELSE "standalone"
     IN  /\ NewContract("adapter",
              [NoAddresses EXCEPT !["bond"] = files[source].at["bond"]], Nobody)
         /\ run' = [script |-> "erc8004_adapter", step |-> "save", wallet |-> Deployer,
                    out |-> [NoFile EXCEPT !.at["bond"] = files["standalone"].at["bond"],
                                           !.at["adapter"] = deployed + 1]]
  /\ OnlyChainAndRuns
(* deploy_erc8004_adapter.js prefers the redeployed bond *)
Adapter ==
  /\ Begin
  /\ Exists("bond_v2") \/ Exists("standalone")
  /\ LET source == IF Exists("bond_v2") THEN "bond_v2" ELSE "standalone"
         bond == files[source].at["bond"]
     IN  /\ NewContract("adapter", [NoAddresses EXCEPT !["bond"] = bond], Nobody)
         /\ run' = [script |-> "erc8004_adapter", step |-> "save", wallet |-> Deployer,
                    out |-> [NoFile EXCEPT !.at["bond"] = bond, !.at["adapter"] = deployed + 1]]
  /\ OnlyChainAndRuns

SaveAdapter == SaveFile("erc8004_adapter")

(* deploy_rights_claim_bond.js: on the track registry of the rail *)
RightsClaimBond ==
  /\ Begin
  /\ Exists("training_compensation")
  /\ LET artists == files["training_compensation"].at["artists"] IN
       /\ NewContract("rights", [NoAddresses EXCEPT !["artists"] = artists], Nobody)
       /\ run' = [script |-> "rights_claim_bond", step |-> "save", wallet |-> Deployer,
                  out |-> [NoFile EXCEPT !.at["artists"] = artists, !.at["rights"] = deployed + 1]]
  /\ OnlyChainAndRuns

SaveRightsClaimBond == SaveFile("rights_claim_bond")

GuardOfNewestBond ==
  /\ Begin
  /\ Exists("standalone")
  /\ LET bond == files["standalone"].at["bond"]
         newest == IF Exists("bond_v2") THEN files["bond_v2"].at["bond"] ELSE bond
     IN  /\ NewContract("guard", [NoAddresses EXCEPT !["bond"] = newest], Nobody)
         /\ \E step \in {"activate", "save"} :
            run' = [script |-> "session_guard", step |-> step, wallet |-> Deployer,
                    out |-> [NoFile EXCEPT !.at["bond"] = bond, !.at["guard"] = deployed + 1]]
  /\ OnlyChainAndRuns
(* deploy_session_guard.js, activated or not *)
SessionGuard ==
  /\ Begin
  /\ Exists("standalone")
  /\ LET bond == files["standalone"].at["bond"] IN
       /\ NewContract("guard", [NoAddresses EXCEPT !["bond"] = bond], Nobody)
       /\ \E step \in {"activate", "save"} :
            run' = [script |-> "session_guard", step |-> step, wallet |-> Deployer,
                    out |-> [NoFile EXCEPT !.at["bond"] = bond, !.at["guard"] = deployed + 1]]
  /\ OnlyChainAndRuns

(* setAuthorizedSlasher is the bond owner's; a guard that could not be *)
(* activated is deployed and not saved                                 *)
ActivateGuard ==
  /\ At("session_guard", "activate")
  /\ contracts[Made("bond")].owner = Deployer
  /\ SetRole(Made("bond"), Made("guard"))
  /\ Goto("save")
  /\ OnlyChain

ActivationReverts ==
  /\ At("session_guard", "activate")
  /\ contracts[Made("bond")].owner # Deployer
  /\ Abort

SaveSessionGuard == SaveFile("session_guard")

(* deploy_usyc.js: a bond on the registry of ARC_REGISTRY_ADDRESS *)
UsycBond ==
  /\ Begin
  /\ \E r \in Registries :
       /\ DeployBond(r)
       /\ run' = [script |-> "usyc", step |-> "post", wallet |-> Deployer,
                  out |-> [NoFile EXCEPT !.at["bond"] = deployed + 1]]
  /\ OnlyChainAndRuns

(* With enough USYC the bond is posted, and an error ends the script unsaved *)
UsycPost ==
  /\ At("usyc", "post")
  /\ MayPost(Made("bond"), Deployer)
  /\ AddMember(Made("bond"), Deployer)
  /\ Goto("save")
  /\ OnlyChain

(* Without, whatever the Teller does, no bond is posted: the minted amount is *)
(* read from a transaction and the exception that follows is caught.          *)
UsycUnposted ==
  /\ At("usyc", "post")
  /\ Goto("save")
  /\ UNCHANGED chainVars
  /\ OnlyChain

SaveUsyc == SaveFile("usyc")

(* postBond on a registry that does not know the deployer *)
PostReverts ==
  /\ run.script \in {"network", "usyc"} /\ run.step = "post"
  /\ ~MayPost(Made("bond"), Deployer)
  /\ Abort

-----------------------------------------------------------------------------
(* deploy_exploit_bounty.js and deploy_training_compensation.js: a contract   *)
(* with a dedicated wallet whose key the script writes to .env                *)

SavedKeys == {env[f][n] : f \in {"root", "acquisition"}, n \in KeyNames} \ {Nobody}
Fresh == FreshWallets \ (funded \cup SavedKeys)

GenerateAlways(name) == Fresh
(* The key variable of .env, or a wallet nobody has seen *)
GenerateOrReuse(name) ==
  IF env["root"][name] # Nobody THEN {env["root"][name]} ELSE Fresh

ProvisionTrustingKey(name, registered) ==
  \E w \in GenerateOrReuse(name) :
    LET known == env["root"][name] = w IN
    /\ funded' = IF known THEN funded ELSE funded \cup {w}
    /\ run' = [run EXCEPT !.wallet = w, !.out.wallets[name] = w,
                          !.step = IF known THEN registered ELSE "register"]
(* Generate or reuse, and fund the wallet unless it is registered already *)
Provision(name, registered) ==
  \E w \in GenerateOrReuse(name) :
    LET known == w \in contracts[Made("registry")].members IN
    /\ funded' = IF known THEN funded ELSE funded \cup {w}
    /\ run' = [run EXCEPT !.wallet = w, !.out.wallets[name] = w,
                          !.step = IF known THEN registered ELSE "register"]

Upsert(file, name, w) == env' = [env EXCEPT ![file][name] = w]

Reused(name) == env["root"][name] # Nobody

Bounty ==
  /\ Begin
  /\ Exists("standalone")
  /\ LET registry == files["standalone"].at["registry"] IN
       /\ NewContract("bounty", [NoAddresses EXCEPT !["registry"] = registry], Deployer)
       /\ run' = [script |-> "exploit_bounty", step |-> "provision", wallet |-> Nobody,
                  out |-> [NoFile EXCEPT !.at["registry"] = registry,
                                         !.at["bounty"] = deployed + 1]]
  /\ OnlyChainAndRuns

BountyProvision ==
  /\ At("exploit_bounty", "provision")
  /\ Provision("BOUNTY_VERIFIER", "wire")
  /\ UNCHANGED <<chainVars, files, env, identityVars, runs, crashes, overwritten>>

BountyRegister ==
  /\ At("exploit_bounty", "register")
  /\ RegisterAgent(Made("registry"), run.wallet)
  /\ Goto("wire")
  /\ OnlyChain

BountyWire ==
  /\ At("exploit_bounty", "wire")
  /\ SetRole(Made("bounty"), run.wallet)
  /\ Goto(IF Reused("BOUNTY_VERIFIER") THEN "save" ELSE "upsert")
  /\ OnlyChain

BountyUpsert ==
  /\ At("exploit_bounty", "upsert")
  /\ Upsert("root", "BOUNTY_VERIFIER", run.wallet)
  /\ Goto("save")
  /\ UNCHANGED <<chainVars, files, funded, identityVars, runs, crashes, overwritten>>

SaveBounty == SaveFile("exploit_bounty")

Training ==
  /\ Begin
  /\ Exists("standalone")
  /\ NewContract("artists", NoAddresses, Nobody)
  /\ run' = [script |-> "training_compensation", step |-> "pool", wallet |-> Nobody,
             out |-> [NoFile EXCEPT !.at["registry"] = files["standalone"].at["registry"],
                                    !.at["artists"] = deployed + 1]]
  /\ OnlyChainAndRuns

TrainingPool ==
  /\ At("training_compensation", "pool")
  /\ NewContract("pool", NoAddresses, Deployer)
  /\ GotoWith("claim", "pool")
  /\ OnlyChain

CompensationClaim ==
  /\ At("training_compensation", "claim")
  /\ NewContract("claim", [NoAddresses EXCEPT !["registry"] = Made("registry"),
                                              !["pool"] = Made("pool")], Deployer)
  /\ GotoWith("provision", "claim")
  /\ OnlyChain

(* The key is on disk before the wallet is wired *)
TrainingProvision ==
  /\ At("training_compensation", "provision")
  /\ Provision("INGESTOR", IF Reused("INGESTOR") THEN "wire" ELSE "upsert")
  /\ UNCHANGED <<chainVars, files, env, identityVars, runs, crashes, overwritten>>

TrainingRegister ==
  /\ At("training_compensation", "register")
  /\ RegisterAgent(Made("registry"), run.wallet)
  /\ Goto(IF Reused("INGESTOR") THEN "wire" ELSE "upsert")
  /\ OnlyChain

TrainingUpsert ==
  /\ At("training_compensation", "upsert")
  /\ Upsert("root", "INGESTOR", run.wallet)
  /\ Goto("wire")
  /\ UNCHANGED <<chainVars, files, funded, identityVars, runs, crashes, overwritten>>

WireIngestor ==
  /\ At("training_compensation", "wire")
  /\ SetRole(Made("claim"), run.wallet)
  /\ Goto("wirePool")
  /\ OnlyChain

WireDistributor ==
  /\ At("training_compensation", "wirePool")
  /\ SetRole(Made("pool"), Made("claim"))
  /\ Goto("save")
  /\ OnlyChain

SaveTraining == SaveFile("training_compensation")

-----------------------------------------------------------------------------
(* setup_acquisition_catalog.js. Keys are looked up in .env, where nothing    *)
(* writes them, and written to acquisition/.env.                              *)

Catalog ==
  /\ Begin
  /\ Exists("training_compensation")
  /\ run' = [Idle EXCEPT !.script = "acquisition_catalog", !.step = "company"]
  /\ UNCHANGED chainVars
  /\ OnlyChainAndRuns

GetOrCreateWallet(name, next) ==
  /\ \E w \in GenerateOrReuse(name) :
       /\ Upsert("acquisition", name, w)
       /\ overwritten' = IF env["acquisition"][name] \in funded
                         THEN overwritten + 1 ELSE overwritten
       /\ run' = [run EXCEPT !.wallet = w, !.out.wallets[name] = w, !.step = next]
  /\ UNCHANGED <<chainVars, files, funded, identityVars, runs, crashes>>

Fund(next) ==
  /\ funded' = funded \cup {run.wallet}
  /\ Goto(next)
  /\ UNCHANGED <<chainVars, files, env, identityVars, runs, crashes, overwritten>>

CatalogCompany ==
  /\ At("acquisition_catalog", "company")
  /\ GetOrCreateWallet("ACQ_COMPANY", "fundCompany")

CatalogFundCompany ==
  /\ At("acquisition_catalog", "fundCompany")
  /\ Fund("artist")

CatalogArtist ==
  /\ At("acquisition_catalog", "artist")
  /\ GetOrCreateWallet("ACQ_ARTIST", "fundArtist")

CatalogFundArtist ==
  /\ At("acquisition_catalog", "fundArtist")
  /\ Fund("tracks")

(* The tracks go into the registry the rail's file names; tracks that are     *)
(* registered, by whomever, are skipped.                                      *)
CatalogArtists == files["training_compensation"].at["artists"]
Unregistered == {t \in Tracks : contracts[CatalogArtists].tracks[t] = Nobody}

RegisterTrack ==
  /\ At("acquisition_catalog", "tracks")
  /\ \E t \in Unregistered :
       contracts' = [contracts EXCEPT ![CatalogArtists].tracks[t] =
                                        run.out.wallets["ACQ_ARTIST"]]
  /\ UNCHANGED <<deployed, run>>
  /\ OnlyChain

SaveCatalog ==
  /\ At("acquisition_catalog", "tracks")
  /\ Unregistered = {}
  /\ files' = [files EXCEPT !["acquisition_catalog"] = run.out]
  /\ run' = Idle
  /\ UNCHANGED <<chainVars, env, funded, identityVars, runs, crashes, overwritten>>

-----------------------------------------------------------------------------
(* Commands (scripts/cli): one transaction on what standalone.json names *)

Command == Begin /\ UNCHANGED run

Register(w) ==
  /\ Command
  /\ Exists("standalone")
  /\ LET registry == files["standalone"].at["registry"] IN
       /\ w \notin contracts[registry].members
       /\ RegisterAgent(registry, w)
  /\ OnlyChainAndRuns

PostBond(w) ==
  /\ Command
  /\ Exists("standalone")
  /\ LET bond == files["standalone"].at["bond"] IN
       /\ w \in contracts[files["standalone"].at["registry"]].members
       /\ w \notin contracts[bond].members
       /\ MayPost(bond, w)
       /\ AddMember(bond, w)
  /\ OnlyChainAndRuns

(* set-authorized-slasher.js takes any address, a guard's or another          *)
(* contract's too, and asks neither it nor the bond what it is                *)
AnyAddress == Agents \cup {Deployer, Nobody} \cup 1..deployed

SetAuthorizedSlasher(r) ==
  /\ Command
  /\ Exists("standalone")
  /\ LET bond == files["standalone"].at["bond"] IN
       /\ contracts[bond].owner = Deployer
       /\ SetRole(bond, r)
  /\ OnlyChainAndRuns

TransferOwnership(w) ==
  /\ Command
  /\ Exists("standalone")
  /\ LET bond == files["standalone"].at["bond"] IN
       /\ contracts[bond].owner = Deployer
       /\ contracts' = [contracts EXCEPT ![bond].owner = w]
  /\ UNCHANGED deployed
  /\ OnlyChainAndRuns

(* session-key.js grants and revokes on the guard of session_guard.json *)
GrantOrRevoke(w) ==
  /\ Command
  /\ Exists("session_guard")
  /\ SetRole(files["session_guard"].at["guard"], w)
  /\ OnlyChainAndRuns

(* register-8004-identity.js: the registry mints as often as it is asked, only *)
(* the cache knows that a wallet has a token.                                  *)
RegisterIdentity(w, force) ==
  /\ Begin
  /\ cache[w] = 0 \/ force
  /\ identities' = Append(identities, w)
  /\ forced' = IF cache[w] # 0 THEN forced + 1 ELSE forced
  /\ run' = [Idle EXCEPT !.script = "identity", !.step = "cache", !.wallet = w]
  /\ UNCHANGED <<chainVars, files, env, funded, cache, agentId8004, crashes, overwritten>>

SaveIdentityBeforeMint ==
  /\ At("identity", "cache")
  /\ cache' = [cache EXCEPT ![run.wallet] = Len(identities) - 1]
  /\ run' = Idle
  /\ UNCHANGED <<chainVars, files, env, funded, identities, agentId8004, runs,
                 crashes, overwritten, forced>>
SaveIdentity ==
  /\ At("identity", "cache")
  /\ cache' = [cache EXCEPT ![run.wallet] = Len(identities)]
  /\ run' = Idle
  /\ UNCHANGED <<chainVars, files, env, funded, identities, agentId8004, runs,
                 crashes, overwritten, forced>>

(* set-8004-agent-id.js, with what the cache says *)
SetAgentId(w) ==
  /\ Command
  /\ Exists("erc8004_adapter")
  /\ cache[w] # 0
  /\ agentId8004' =
       [agentId8004 EXCEPT ![files["erc8004_adapter"].at["adapter"]][w] = cache[w]]
  /\ UNCHANGED <<chainVars, files, env, funded, identities, cache, crashes,
                 overwritten, forced>>

-----------------------------------------------------------------------------
Stack ==
  \/ StandaloneRegistry \/ StandaloneRegister \/ StandaloneBond \/ StandalonePost
  \/ SaveStandalone
  \/ NetworkMockRegistry \/ NetworkVerify \/ NetworkLiveRegistry \/ NetworkBond
  \/ NetworkPost \/ SaveNetwork

Upgrades ==
  \/ BondV2 \/ SaveBondV2 \/ Adapter \/ SaveAdapter
  \/ RightsClaimBond \/ SaveRightsClaimBond
  \/ SessionGuard \/ ActivateGuard \/ ActivationReverts \/ SaveSessionGuard
  \/ UsycBond \/ UsycPost \/ UsycUnposted \/ SaveUsyc \/ PostReverts

Verticals ==
  \/ Bounty \/ BountyProvision \/ BountyRegister \/ BountyWire \/ BountyUpsert
  \/ SaveBounty
  \/ Training \/ TrainingPool \/ CompensationClaim \/ TrainingProvision
  \/ TrainingRegister \/ TrainingUpsert \/ WireIngestor \/ WireDistributor
  \/ SaveTraining
  \/ Catalog \/ CatalogCompany \/ CatalogFundCompany \/ CatalogArtist
  \/ CatalogFundArtist \/ RegisterTrack \/ SaveCatalog

Commands ==
  \/ \E w \in Agents \cup {Deployer} : Register(w) \/ PostBond(w)
  \/ \E r \in AnyAddress : SetAuthorizedSlasher(r)
  \/ \E w \in Agents : TransferOwnership(w) \/ SetAgentId(w)
  \/ \E w \in Agents \cup {Nobody} : GrantOrRevoke(w)
  \/ \E w \in Agents, force \in BOOLEAN : RegisterIdentity(w, force)
  \/ SaveIdentity

Next == Stack \/ Upgrades \/ Verticals \/ Commands \/ Crash

Spec == Init /\ [][Next]_vars

-----------------------------------------------------------------------------
(* A set of addresses, as a file or a running script holds it, is true of the *)
(* chain: every address is of the kind it is listed under, and was built on   *)
(* the other contracts listed.                                                *)
Describes(at) ==
  \A k \in Kinds : at[k] # 0 =>
    /\ at[k] <= deployed
    /\ contracts[at[k]].kind = k
    /\ \A l \in Kinds : at[l] # 0 /\ contracts[at[k]].built[l] # 0
                          => contracts[at[k]].built[l] = at[l]

(* However scripts are repeated, mixed and interrupted, no deployment file    *)
(* pairs a contract with a registry, a bond or a track registry it was not    *)
(* built on: a crashed redeployment leaves the old pair, never half a new one *)
(* (the writeFileSync that ends each deploy_*.js).                            *)
FilesDescribeTheChain == \A n \in FileNames : Describes(files[n].at)

(* What a file says is ready to work does: the verifier and the ingestor it   *)
(* names are authorised by the contract and registered in the registry that   *)
(* the contract asks, and the operator still holds their keys                 *)
(* (deploy_exploit_bounty.js, deploy_training_compensation.js).               *)
WiredWalletsCanAct ==
  /\ Exists("exploit_bounty") =>
       LET f == files["exploit_bounty"]  w == f.wallets["BOUNTY_VERIFIER"] IN
         /\ contracts[f.at["bounty"]].role = w
         /\ w \in contracts[contracts[f.at["bounty"]].built["registry"]].members
         /\ env["root"]["BOUNTY_VERIFIER"] = w
  /\ Exists("training_compensation") =>
       LET f == files["training_compensation"]  w == f.wallets["INGESTOR"] IN
         /\ contracts[f.at["claim"]].role = w
         /\ w \in contracts[contracts[f.at["claim"]].built["registry"]].members
         /\ env["root"]["INGESTOR"] = w
         /\ contracts[f.at["pool"]].role = f.at["claim"]

IsBond(a) == a <= deployed /\ contracts[a].kind = "bond"

(* The stakers of a bond are known to the registry it asks. *)
StakersAreRegistered(a) ==
  contracts[a].members \subseteq contracts[contracts[a].built["registry"]].members

(* The contract that may slash a bond, if one may, forwards to that bond. *)
SlasherForwards(a) ==
  LET slasher == contracts[a].role IN
  slasher \in Addresses => contracts[slasher].kind = "guard" /\ contracts[slasher].built["bond"] = a

(* No script takes the slasher role of a bond away to a contract that cannot  *)
(* use it, and nobody stakes unregistered, through redeployments of registry, *)
(* bond and guard; only the command that rotates the slasher by hand can do   *)
(* the former, which takes any address for the bond standalone.json names by  *)
(* then (deploy_session_guard.js, set-authorized-slasher.js, post-bond.js).   *)
BondsFitTheirParts ==
  [][\A a \in Addresses : IsBond(a)' =>
       /\ StakersAreRegistered(a)'
       /\ contracts'[a].role # contracts[a].role =>
            SlasherForwards(a)' \/ \E r \in AnyAddress : SetAuthorizedSlasher(r)]_vars

(* Money sent to a generated wallet is out of reach only if a script died     *)
(* while it held the only copy of the key, or if the catalog setup wrote a    *)
(* new key over it, which the next property says it never does; at most one   *)
(* wallet each time (upsertEnvVar).                                           *)
KeysAreLostOnlyByCrashOrRerun ==
  Cardinality(funded \ (SavedKeys \cup {run.wallet})) <= crashes + overwritten

(* What setup_acquisition_catalog.js:2 and :90 say: the setup is idempotent,  *)
(* its wallets are generated or reused from acquisition/.env, so a key that   *)
(* was funded stays there.  Refuted: it looks in the root .env.               *)
CatalogReusesItsKeys ==
  [][\A n \in KeyNames : env["acquisition"][n] \in funded
                            => env'["acquisition"][n] = env["acquisition"][n]]_vars

(* A wallet gets a second ERC-8004 identity only by --force or by a death     *)
(* between minting and the cache, and adapters only map wallets to tokens     *)
(* they own (register-8004-identity.js, set-8004-agent-id.js).                *)
IdentitiesAreAccounted ==
  /\ Len(identities) <= Cardinality({w \in Agents : cache[w] # 0}) + crashes + forced
                          + IF run.script = "identity" THEN 1 ELSE 0
  /\ \A a \in 1..deployed, w \in Agents : agentId8004[a][w] # 0
       => agentId8004[a][w] <= Len(identities) /\ identities[agentId8004[a][w]] = w
=============================================================================
