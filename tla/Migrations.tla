------------------------------ MODULE Migrations ------------------------------
(***************************************************************************)
(* The deployment of the system: migrations 0 to 23 of migrations/, run by *)
(* truffle, which records the last one that completed on the network, and  *)
(* the shell scripts that start a deployment and continue one that         *)
(* stopped.                                                                *)
(*                                                                         *)
(* A migration is a sequence of stages, a stage the set of the operations  *)
(* that Promise.all awaits together (most have one).  An operation is one  *)
(* transaction or one call of zos.  The process may stop between any two,  *)
(* and a transaction may revert; only whole migrations are recorded, so    *)
(* what continues begins the migration that stopped again.                 *)
(*                                                                         *)
(* The values of the parameters are left out.  zos is external: create     *)
(* appends a proxy to those of its alias in its network file, setAdmin     *)
(* changes every proxy of an alias that the deployer still administers.    *)
(***************************************************************************)
EXTENDS Integers, Sequences, FiniteSets

CONSTANTS
    MaxCrashes,   \* how often the process may stop half way
    MaxRounds     \* how many deployments may be started, one more for each crash

ASSUME MigrationsAssumption == MaxCrashes \in Nat /\ MaxRounds \in Nat

VARIABLES
    development,  \* isDevelopment(network): governance and mocks are deployed too
    zosFileKept,  \* zos calls the network something `rm zos.dev-*.json' misses
    completed,    \* last_completed_migration of the contract Migrations
    migration,    \* the migration that runs, or that stopped
    stage,        \* its current stage
    done,         \* the operations of that stage that are done
    status,       \* "running", "stopped", "failed" or "finished"
    deployed,     \* the artifacts with an address on this network
    proxies,      \* the proxies of each alias in zos's network file, oldest first
    tokens,       \* the roles of the two tokens
    proxyAdmin,   \* the latest ProxyAdmin: its number and its owner
    delegator,    \* the latest UpgradeDelegator: the ProxyAdmin it was given
    saved,        \* the two files of migration 23: the proxy each names
    crashes, rounds

position == <<completed, migration, stage, done>>
governanceVars == <<proxyAdmin, delegator>>
bounds == <<crashes, rounds>>
fixed == <<development, zosFileKept>>
vars == <<fixed, position, status, deployed, proxies, tokens, governanceVars, saved, bounds>>

Last(s) == s[Len(s)]

\* In the order of deployUpgradable; MoCConverter is skipped.
Upgradable == <<"MoC", "MoCConnector", "MoCRiskProxManager", "MoCSettlement", "MoCState",
                "MoCExchange", "MoCInrate", "CommissionSplitter", "MoCVendors">>
Aliases == {Upgradable[i] : i \in DOMAIN Upgradable}
Tokens == {"StableToken", "RiskProToken"}
Files == {"deployConfig-network", "deployConfig-network-original"}

\* Who may hold a role or administer a proxy: the deployer's account, or the
\* n-th contract of a kind.
Deployer == <<"deployer", 0>>
Configured == <<"configured", 0>>

Op(kind, subject) == [kind |-> kind, subject |-> subject]
One(kind, subject) == <<{Op(kind, subject)}>>
Each(kind, subjects) == [i \in DOMAIN subjects |-> {Op(kind, subjects[i])}]

-----------------------------------------------------------------------------
(* The migrations, one definition per file.                                *)

DeployReserveToken(dev) == IF dev THEN One("deploy", "ReserveToken") ELSE <<>>
InitialMigration == One("deploy", "Migrations")
DeployMocLib(dev) ==
    IF dev THEN Each("deploy", <<"MoCHelperLib", "MoCHelperLibMock">>)
           ELSE One("deploy", "MoCHelperLib")
LinkMocLib == One("link", "MoCHelperLib")

DeployUpgradeDelegator ==
    <<Op("deployDelegator", "UpgradeDelegator"), Op("initializeDelegator", "UpgradeDelegator"),
      Op("transferProxyAdmin", "ProxyAdmin")>>

DeployDevelopOnly(dev) ==
    IF dev
    THEN <<{Op("deploy", x) : x \in {"PriceProviderMock", "Governor", "MoCPriceProviderMock"}},
           {Op("deployProxyAdmin", "ProxyAdmin")},
           {Op("deploy", "Stopper"), DeployUpgradeDelegator[1]},
           {DeployUpgradeDelegator[2]},
           {DeployUpgradeDelegator[3]},
           {Op("deploy", "MoCHelperLibHarness")}>>
    ELSE <<>>

DeployStableToken == One("deployToken", "StableToken")
DeployRiskPro == One("deployToken", "RiskProToken")
DeployMoCToken == One("deploy", "MoCToken")

DeployMoC == One("create", Upgradable[1])
DeployMoCConnector == One("create", Upgradable[2])
DeployMoCRiskProxManager == One("create", Upgradable[3])
DeployMoCSettlement == One("create", Upgradable[4])
DeployMoCState == One("create", Upgradable[5])
DeployMoCExchange == One("create", Upgradable[6])
DeployMoCInrate == One("create", Upgradable[7])
DeployCommissionSplitter == One("create", Upgradable[8])
DeployMoCVendors == One("create", Upgradable[9])

\* Mutant: the deployer gives its right to mint up before MoCExchange has it.
RenounceBeforeAdding(token) ==
    <<{Op("transferOwnership", token)}, {Op("renounceMinter", token)}, {Op("addMinter", token)}>>

TransferOwnershipAndMinting(token) ==
    <<{Op("transferOwnership", token)}, {Op("addMinter", token)}, {Op("renounceMinter", token)}>>

TransferStableTokenRoles == TransferOwnershipAndMinting("StableToken")
TransferRiskProRoles == TransferOwnershipAndMinting("RiskProToken")

InitializeContracts ==
    Each("initialize", <<"MoCConnector", "MoC", "MoCExchange", "MoCInrate", "MoCRiskProxManager",
                         "MoCSettlement", "MoCVendors", "MoCState", "CommissionSplitter">>)

TransferPausingRole ==
    <<{Op("addPauser", "RiskProToken")}, {Op("renouncePauser", "RiskProToken")}>>

\* Mutant: the splitter stays with the deployer.
SetGovernanceWithoutSplitter ==
    Each("setAdmin", <<"MoC", "MoCConnector", "MoCRiskProxManager", "MoCSettlement", "MoCState",
                       "MoCExchange", "MoCInrate", "MoCVendors">>)

SetGovernance ==
    Each("setAdmin", <<"MoC", "MoCConnector", "MoCRiskProxManager", "MoCSettlement", "MoCState",
                       "MoCExchange", "MoCInrate", "CommissionSplitter", "MoCVendors">>)

CreateConfig == Each("saveConfig", <<"deployConfig-network", "deployConfig-network-original">>)

\* There is no migration 12.
Numbers == 0 .. 23 \ {12}
LastNumber == 23

Following(n) == IF n = 11 THEN 13 ELSE n + 1

Program ==
    [n \in Numbers |->
        CASE n = 0 -> DeployReserveToken(development)
          [] n = 1 -> InitialMigration
          [] n = 2 -> DeployMocLib(development)
          [] n = 3 -> LinkMocLib
          [] n = 4 -> DeployDevelopOnly(development)
          [] n = 5 -> DeployStableToken
          [] n = 6 -> DeployRiskPro
          [] n = 7 -> DeployMoCToken
          [] n = 8 -> DeployMoC
          [] n = 9 -> DeployMoCConnector
          [] n = 10 -> DeployMoCRiskProxManager
          [] n = 11 -> DeployMoCSettlement
          [] n = 13 -> DeployMoCState
          [] n = 14 -> DeployMoCExchange
          [] n = 15 -> DeployMoCInrate
          [] n = 16 -> DeployCommissionSplitter
          [] n = 17 -> DeployMoCVendors
          [] n = 18 -> TransferStableTokenRoles
          [] n = 19 -> TransferRiskProRoles
          [] n = 20 -> InitializeContracts
          [] n = 21 -> TransferPausingRole
          [] n = 22 -> SetGovernance
          [] n = 23 -> CreateConfig ]

-----------------------------------------------------------------------------
(* What the operations read, and what each needs to succeed.               *)

\* Mutant: the first proxy of the file, which may be of an earlier deployment.
FirstProxy(alias) == 1

\* The proxy of an alias that every later step uses, by its place in the file.
GetProxyAddress(alias) == Len(proxies[alias])

TheExchange == <<"MoCExchange", GetProxyAddress("MoCExchange")>>
TheMoC == <<"MoC", GetProxyAddress("MoC")>>

\* On a public network ProxyAdmin and its owner are those of the configuration.
ProxyAdminAddress == IF development THEN <<"ProxyAdmin", proxyAdmin.number>> ELSE Configured

\* MoCToken is deployed on every network, the reserve token where none is configured.
CreateInstances ==
    /\ {"StableToken", "RiskProToken", "MoCToken"} \subseteq deployed
    /\ development => "ReserveToken" \in deployed
    /\ \A alias \in Aliases : proxies[alias] # <<>>

NeedsInstances ==
    {"transferOwnership", "addMinter", "renounceMinter", "initialize", "addPauser",
     "renouncePauser", "setAdmin"}

Succeeds(op) ==
    LET s == op.subject
    IN  /\ op.kind \in NeedsInstances => CreateInstances
        /\ op.kind = "transferOwnership" => tokens[s].owner = Deployer
        /\ op.kind = "addMinter" =>
              Deployer \in tokens[s].minters /\ TheExchange \notin tokens[s].minters
        /\ op.kind = "renounceMinter" => Deployer \in tokens[s].minters
        /\ op.kind = "addPauser" =>
              Deployer \in tokens[s].pausers /\ TheMoC \notin tokens[s].pausers
        /\ op.kind = "renouncePauser" => Deployer \in tokens[s].pausers
        /\ op.kind = "initialize" => ~proxies[s][GetProxyAddress(s)].initialized
        /\ op.kind = "transferProxyAdmin" => proxyAdmin.owner = Deployer

-----------------------------------------------------------------------------
(* A deployment.                                                           *)

Pending(op) ==
    /\ status = "running"
    /\ stage <= Len(Program[migration])
    /\ op \in Program[migration][stage] \ done

\* op is done, and with the last one of its stage the next stage begins.
Advance(op) ==
    /\ Pending(op) /\ Succeeds(op)
    /\ IF done \cup {op} = Program[migration][stage]
       THEN stage' = stage + 1 /\ done' = {}
       ELSE stage' = stage /\ done' = done \cup {op}
    /\ UNCHANGED <<fixed, completed, migration, status, bounds>>

Deploy(op) ==
    /\ op.kind \in {"deploy", "link"} /\ Advance(op)
    /\ deployed' = IF op.kind = "deploy" THEN deployed \cup {op.subject} ELSE deployed
    /\ UNCHANGED <<proxies, tokens, governanceVars, saved>>

\* The new token belongs to the account that deployed it.
DeployToken(op) ==
    /\ op.kind = "deployToken" /\ Advance(op)
    /\ deployed' = deployed \cup {op.subject}
    /\ tokens' = [tokens EXCEPT ![op.subject] =
          [owner |-> Deployer, minters |-> {Deployer},
           pausers |-> IF op.subject = "RiskProToken" THEN {Deployer} ELSE {}]]
    /\ UNCHANGED <<proxies, governanceVars, saved>>

\* Mutant: a ProxyAdmin that has an address is not deployed again.
DeployProxyAdminOnce(op) ==
    /\ op.kind = "deployProxyAdmin" /\ Advance(op)
    /\ deployed' = deployed \cup {op.subject}
    /\ proxyAdmin' = IF "ProxyAdmin" \in deployed THEN proxyAdmin
                     ELSE [number |-> proxyAdmin.number + 1, owner |-> Deployer]
    /\ UNCHANGED <<proxies, tokens, delegator, saved>>

DeployProxyAdmin(op) ==
    /\ op.kind = "deployProxyAdmin" /\ Advance(op)
    /\ deployed' = deployed \cup {op.subject}
    /\ proxyAdmin' = [number |-> proxyAdmin.number + 1, owner |-> Deployer]
    /\ UNCHANGED <<proxies, tokens, delegator, saved>>

\* The delegator is deployed, told its ProxyAdmin, and becomes its owner.
UpgradeDelegator(op) ==
    /\ \/ /\ op.kind = "deployDelegator"
          /\ delegator' = [number |-> delegator.number + 1, proxyAdmin |-> 0]
          /\ UNCHANGED proxyAdmin
       \/ /\ op.kind = "initializeDelegator"
          /\ delegator' = [delegator EXCEPT !.proxyAdmin = proxyAdmin.number]
          /\ UNCHANGED proxyAdmin
       \/ /\ op.kind = "transferProxyAdmin"
          /\ proxyAdmin' = [proxyAdmin EXCEPT !.owner = <<"UpgradeDelegator", delegator.number>>]
          /\ UNCHANGED delegator
    /\ Advance(op)
    /\ deployed' = deployed \cup {op.subject}
    /\ UNCHANGED <<proxies, tokens, saved>>

\* add, push and create of zos.
DeployUpgradable(op) ==
    /\ op.kind = "create" /\ Advance(op)
    /\ proxies' = [proxies EXCEPT ![op.subject] =
                      Append(@, [initialized |-> FALSE, admin |-> Deployer])]
    /\ UNCHANGED <<deployed, tokens, governanceVars, saved>>

Initialize(op) ==
    /\ op.kind = "initialize" /\ Advance(op)
    /\ proxies' = [proxies EXCEPT ![op.subject][GetProxyAddress(op.subject)].initialized = TRUE]
    /\ UNCHANGED <<deployed, tokens, governanceVars, saved>>

\* A step of the hand-over of a token.
HandOver(op) ==
    /\ \/ /\ op.kind = "transferOwnership"
          /\ tokens' = [tokens EXCEPT ![op.subject].owner = TheExchange]
       \/ /\ op.kind = "addMinter"
          /\ tokens' = [tokens EXCEPT ![op.subject].minters = @ \cup {TheExchange}]
       \/ /\ op.kind = "renounceMinter"
          /\ tokens' = [tokens EXCEPT ![op.subject].minters = @ \ {Deployer}]
       \/ /\ op.kind = "addPauser"
          /\ tokens' = [tokens EXCEPT ![op.subject].pausers = @ \cup {TheMoC}]
       \/ /\ op.kind = "renouncePauser"
          /\ tokens' = [tokens EXCEPT ![op.subject].pausers = @ \ {Deployer}]
    /\ Advance(op)
    /\ UNCHANGED <<deployed, proxies, governanceVars, saved>>

SetAdmin(op) ==
    /\ op.kind = "setAdmin" /\ Advance(op)
    /\ proxies' = [proxies EXCEPT ![op.subject] =
          [i \in DOMAIN @ |-> IF @[i].admin = Deployer
                              THEN [@[i] EXCEPT !.admin = ProxyAdminAddress] ELSE @[i]]]
    /\ UNCHANGED <<deployed, tokens, governanceVars, saved>>

SaveConfig(op) ==
    /\ op.kind = "saveConfig" /\ Advance(op)
    /\ saved' = [saved EXCEPT ![op.subject] = [alias \in Aliases |-> GetProxyAddress(alias)]]
    /\ UNCHANGED <<deployed, proxies, tokens, governanceVars>>

\* truffle records a migration whose last operation is done, on the contract of
\* migration 1.
CompleteMigration ==
    /\ status = "running" /\ stage > Len(Program[migration])
    /\ completed' = IF "Migrations" \in deployed THEN migration ELSE completed
    /\ IF migration = LastNumber
       THEN status' = "finished" /\ UNCHANGED migration
       ELSE migration' = Following(migration) /\ UNCHANGED status
    /\ stage' = 1 /\ done' = {}
    /\ UNCHANGED <<fixed, deployed, proxies, tokens, governanceVars, saved, bounds>>

\* A transaction reverts, or something it needs is not there.
Revert(op) ==
    /\ Pending(op) /\ ~Succeeds(op)
    /\ status' = "failed"
    /\ UNCHANGED <<fixed, position, deployed, proxies, tokens, governanceVars, saved, bounds>>

\* The process dies, the node does not answer, gas runs out.
Crash ==
    /\ status = "running" /\ crashes < MaxCrashes
    /\ status' = "stopped" /\ crashes' = crashes + 1
    /\ UNCHANGED <<fixed, position, deployed, proxies, tokens, governanceVars, saved, rounds>>

\* Without --reset truffle begins after the last migration it finds recorded; with
\* no contract Migrations it begins with migration 1.
ContinueMigration ==
    /\ status \in {"stopped", "failed"}
    /\ status' = "running" /\ stage' = 1 /\ done' = {}
    /\ migration' = IF "Migrations" \in deployed THEN Following(completed) ELSE 1
    /\ UNCHANGED <<fixed, completed, deployed, proxies, tokens, governanceVars, saved, bounds>>

\* deploy-reset: the artifacts are removed, and the network file of zos where its
\* name matches; every migration runs again.
StartNewMigration ==
    /\ status # "running"
    /\ rounds < (IF status = "failed" THEN MaxRounds ELSE MaxRounds - MaxCrashes)
    /\ rounds' = rounds + 1
    /\ status' = "running" /\ migration' = 0 /\ stage' = 1 /\ done' = {} /\ completed' = 0
    /\ deployed' = {}
    /\ proxies' = IF zosFileKept THEN proxies ELSE [alias \in Aliases |-> <<>>]
    /\ UNCHANGED <<fixed, tokens, governanceVars, saved, crashes>>

-----------------------------------------------------------------------------

Init ==
    /\ development \in BOOLEAN /\ zosFileKept \in BOOLEAN
    /\ completed = 0 /\ migration = 0 /\ stage = 1 /\ done = {} /\ status = "running"
    /\ deployed = {} /\ proxies = [alias \in Aliases |-> <<>>]
    /\ tokens = [t \in Tokens |-> [owner |-> Deployer, minters |-> {}, pausers |-> {}]]
    /\ proxyAdmin = [number |-> 0, owner |-> Configured]
    /\ delegator = [number |-> 0, proxyAdmin |-> 0]
    /\ saved = [f \in Files |-> [alias \in Aliases |-> 0]]
    /\ crashes = 0 /\ rounds = 1

NextOps == IF stage <= Len(Program[migration]) THEN Program[migration][stage] ELSE {}

Step ==
    \/ \E op \in NextOps :
          \/ Deploy(op) \/ DeployToken(op) \/ DeployProxyAdmin(op) \/ UpgradeDelegator(op)
          \/ DeployUpgradable(op) \/ Initialize(op) \/ HandOver(op) \/ SetAdmin(op)
          \/ SaveConfig(op) \/ Revert(op)
    \/ CompleteMigration

Next == Step \/ Crash \/ ContinueMigration \/ StartNewMigration

Spec == Init /\ [][Next]_vars

\* What runs goes on; who watches it continues what stopped, and starts again what
\* fails every time it is continued.
FairSpec ==
    /\ Spec
    /\ WF_vars(Step)
    /\ WF_vars(ContinueMigration)
    /\ SF_vars(status = "failed" /\ StartNewMigration)

-----------------------------------------------------------------------------

Role == {"deployer", "configured", "MoC", "MoCExchange", "ProxyAdmin", "UpgradeDelegator"} \X Nat

TypeOK ==
    /\ development \in BOOLEAN /\ zosFileKept \in BOOLEAN
    /\ completed \in Numbers /\ migration \in Numbers
    /\ stage \in Nat \ {0} /\ done \subseteq NextOps
    /\ status \in {"running", "stopped", "failed", "finished"}
    /\ proxies \in [Aliases -> Seq([initialized : BOOLEAN, admin : Role])]
    /\ tokens \in [Tokens -> [owner : Role, minters : SUBSET Role, pausers : SUBSET Role]]
    /\ proxyAdmin \in [number : Nat, owner : Role]
    /\ delegator \in [number : Nat, proxyAdmin : Nat]
    /\ saved \in [Files -> [Aliases -> Nat]]
    /\ crashes \in 0 .. MaxCrashes /\ rounds \in Nat

\* While the roles are handed over, with one transaction after the other and a crash
\* between any two, somebody can always mint each token: the deployer or the MoCExchange
\* that the rest of the system is given, and nobody else ever.
TokenAlwaysMintable ==
    \A t \in Tokens \cap deployed :
        /\ tokens[t].minters # {}
        /\ tokens[t].minters \subseteq {Deployer, TheExchange}
        /\ tokens[t].owner \in {Deployer, TheExchange}

\* A deployment that finished, however often it stopped and whatever earlier
\* deployments left behind, is in the hands of governance: the tokens are those of its
\* own contracts, each contract is initialized and administered by the ProxyAdmin, which
\* an initialized delegator owns, and both files name its contracts.
FinishedIsHandedOver ==
    status = "finished" =>
        /\ \A t \in Tokens : tokens[t].owner = TheExchange /\ tokens[t].minters = {TheExchange}
        /\ tokens["RiskProToken"].pausers = {TheMoC}
        /\ \A alias \in Aliases :
              /\ proxies[alias] # <<>>
              /\ Last(proxies[alias]) = [initialized |-> TRUE, admin |-> ProxyAdminAddress]
              /\ \A f \in Files : saved[f][alias] = Len(proxies[alias])
        /\ development =>
              /\ proxyAdmin.owner = <<"UpgradeDelegator", delegator.number>>
              /\ delegator.proxyAdmin = proxyAdmin.number

\* Where a deployment stopped it can be continued, but for the four migrations that hand
\* the tokens over and initialize the contracts: only those are not repeatable.
OnlyHandOverFails == status = "failed" => migration \in 18 .. 21

\* Continued when it stops, and started again when continuing does not help, a
\* deployment is finished at last.
DeploymentFinishes == <>[](status = "finished")

=============================================================================
