-------------------------- MODULE Migrations_proofs --------------------------
(***************************************************************************)
(* What Migrations promises, for any number of crashes and deployments:    *)
(* the tokens can be minted at every moment, a deployment that fails fails *)
(* in migrations 18 to 21, and one that finishes is handed over.           *)
(*                                                                         *)
(* The argument: an operation has an effect, and what a migration or a     *)
(* stage that is done had as effect holds as long as the deployment lasts  *)
(* (EffectsInv).  No operation undoes the effect of an earlier one, since  *)
(* each kind of operation has its place (Places), and continuing begins    *)
(* with the migration that stopped, so nothing done is done again once     *)
(* later migrations rely on it (RecordInv).                                *)
(***************************************************************************)
EXTENDS Migrations, SequenceTheorems, TLAPS

\* Stage s of migration n is done in this deployment.
After(n, s) == migration > n \/ (migration = n /\ stage > s)

\* What operation op leaves behind.
Effect(op) ==
    LET s == op.subject
    IN  /\ op.kind \in {"deploy", "deployToken"} => s \in deployed
        /\ op.kind = "create" =>
              /\ proxies[s] # <<>>
              /\ Last(proxies[s]).admin \in {Deployer, ProxyAdminAddress}
        /\ op.kind = "initialize" => proxies[s] # <<>> /\ Last(proxies[s]).initialized
        /\ op.kind = "setAdmin" => proxies[s] # <<>> /\ Last(proxies[s]).admin = ProxyAdminAddress
        /\ op.kind = "saveConfig" => saved[s] = [alias \in Aliases |-> GetProxyAddress(alias)]
        /\ op.kind = "initializeDelegator" => delegator.proxyAdmin = proxyAdmin.number
        /\ op.kind = "transferProxyAdmin" =>
              proxyAdmin.owner = <<"UpgradeDelegator", delegator.number>>
        /\ op.kind = "transferOwnership" => tokens[s].owner = TheExchange
        /\ op.kind = "addMinter" => TheExchange \in tokens[s].minters
        /\ op.kind = "renounceMinter" => Deployer \notin tokens[s].minters
        /\ op.kind = "addPauser" => TheMoC \in tokens[s].pausers
        /\ op.kind = "renouncePauser" => Deployer \notin tokens[s].pausers

\* Migration 0 is the one that continuing may skip.
EffectsInv ==
    /\ \A n \in Numbers \ {0} : \A s \in DOMAIN Program[n] :
          After(n, s) => \A op \in Program[n][s] : Effect(op)
    /\ migration # 0 => \A op \in done : Effect(op)

\* truffle's record and the migration that runs agree.
RecordInv ==
    /\ migration <= 1 => completed = 0
    /\ migration > 1 /\ status # "finished" =>
          "Migrations" \in deployed /\ migration = Following(completed)

\* Who holds the roles of a token, before and while they are handed over.
RolesInv ==
    /\ migration <= 1 => deployed \cap Tokens = {}
    /\ \A t \in Tokens \cap deployed :
        IF migration <= 17
        THEN tokens[t].owner = Deployer /\ tokens[t].minters = {Deployer}
        ELSE /\ tokens[t].owner \in {Deployer, TheExchange}
             /\ tokens[t].minters \subseteq {Deployer, TheExchange}
             /\ Deployer \in tokens[t].minters \/ TheExchange \in tokens[t].minters
    /\ "RiskProToken" \in deployed =>
        IF migration <= 20 THEN tokens["RiskProToken"].pausers = {Deployer}
        ELSE tokens["RiskProToken"].pausers \subseteq {Deployer, TheMoC}

\* What the operations of migrations 4 and 18 to 22 need.
HandOverInv ==
    /\ migration = 4 /\ stage \in 3 .. 5 => proxyAdmin.owner = Deployer
    /\ After(18, 1) => CreateInstances

IInv == TypeOK /\ RecordInv /\ EffectsInv /\ RolesInv /\ HandOverInv

-----------------------------------------------------------------------------
(* The places of the operations: the migration and the stage of each kind.  *)

Where(n, s, op) ==
    /\ op.kind = "deploy" => n \in {0, 1, 2, 4, 7} /\ op.subject \notin Tokens
    /\ op.kind = "link" => n = 3
    /\ op.kind = "deployToken" => n \in {5, 6} /\ op.subject \in Tokens
    /\ op.kind = "deployProxyAdmin" => n = 4 /\ s = 2 /\ op.subject \notin Tokens
    /\ op.kind = "deployDelegator" => n = 4 /\ s = 3 /\ op.subject \notin Tokens
    /\ op.kind = "initializeDelegator" => n = 4 /\ s = 4 /\ op.subject \notin Tokens
    /\ op.kind = "transferProxyAdmin" => n = 4 /\ s = 5 /\ op.subject \notin Tokens
    /\ op.kind = "create" => n \in 8 .. 17 /\ op.subject \in Aliases
    /\ op.kind \in {"transferOwnership", "addMinter", "renounceMinter"} =>
          \/ n = 18 /\ op.subject = "StableToken"
          \/ n = 19 /\ op.subject = "RiskProToken"
    /\ op.kind = "transferOwnership" => s = 1
    /\ op.kind = "addMinter" => s = 2
    /\ op.kind = "renounceMinter" => s = 3
    /\ op.kind = "initialize" => n = 20 /\ op.subject \in Aliases
    /\ op.kind = "addPauser" => n = 21 /\ s = 1 /\ op.subject = "RiskProToken"
    /\ op.kind = "renouncePauser" => n = 21 /\ s = 2 /\ op.subject = "RiskProToken"
    /\ op.kind = "setAdmin" => n = 22 /\ op.subject \in Aliases
    /\ op.kind = "saveConfig" => n = 23 /\ op.subject \in Files
    /\ op.kind \in {"deploy", "link", "deployToken", "deployProxyAdmin", "deployDelegator",
                    "initializeDelegator", "transferProxyAdmin", "create", "transferOwnership",
                    "addMinter", "renounceMinter", "initialize", "addPauser", "renouncePauser",
                    "setAdmin", "saveConfig"}

\* Each file of migrations/ in its place.
LEMMA ProgramIs ==
    /\ Program[0] = DeployReserveToken(development)
    /\ Program[1] = InitialMigration
    /\ Program[2] = DeployMocLib(development)
    /\ Program[3] = LinkMocLib
    /\ Program[4] = DeployDevelopOnly(development)
    /\ Program[5] = DeployStableToken
    /\ Program[6] = DeployRiskPro
    /\ Program[7] = DeployMoCToken
    /\ Program[8] = DeployMoC
    /\ Program[9] = DeployMoCConnector
    /\ Program[10] = DeployMoCRiskProxManager
    /\ Program[11] = DeployMoCSettlement
    /\ Program[13] = DeployMoCState
    /\ Program[14] = DeployMoCExchange
    /\ Program[15] = DeployMoCInrate
    /\ Program[16] = DeployCommissionSplitter
    /\ Program[17] = DeployMoCVendors
    /\ Program[18] = TransferStableTokenRoles
    /\ Program[19] = TransferRiskProRoles
    /\ Program[20] = InitializeContracts
    /\ Program[21] = TransferPausingRole
    /\ Program[22] = SetGovernance
    /\ Program[23] = CreateConfig
<1>1. Program[0] = DeployReserveToken(development)
  BY DEF Program, Numbers
<1>2. Program[1] = InitialMigration
  BY DEF Program, Numbers
<1>3. Program[2] = DeployMocLib(development)
  BY DEF Program, Numbers
<1>4. Program[3] = LinkMocLib
  BY DEF Program, Numbers
<1>5. Program[4] = DeployDevelopOnly(development)
  BY DEF Program, Numbers
<1>6. Program[5] = DeployStableToken
  BY DEF Program, Numbers
<1>7. Program[6] = DeployRiskPro
  BY DEF Program, Numbers
<1>8. Program[7] = DeployMoCToken
  BY DEF Program, Numbers
<1>9. Program[8] = DeployMoC
  BY DEF Program, Numbers
<1>10. Program[9] = DeployMoCConnector
  BY DEF Program, Numbers
<1>11. Program[10] = DeployMoCRiskProxManager
  BY DEF Program, Numbers
<1>12. Program[11] = DeployMoCSettlement
  BY DEF Program, Numbers
<1>13. Program[13] = DeployMoCState
  BY DEF Program, Numbers
<1>14. Program[14] = DeployMoCExchange
  BY DEF Program, Numbers
<1>15. Program[15] = DeployMoCInrate
  BY DEF Program, Numbers
<1>16. Program[16] = DeployCommissionSplitter
  BY DEF Program, Numbers
<1>17. Program[17] = DeployMoCVendors
  BY DEF Program, Numbers
<1>18. Program[18] = TransferStableTokenRoles
  BY DEF Program, Numbers
<1>19. Program[19] = TransferRiskProRoles
  BY DEF Program, Numbers
<1>20. Program[20] = InitializeContracts
  BY DEF Program, Numbers
<1>21. Program[21] = TransferPausingRole
  BY DEF Program, Numbers
<1>22. Program[22] = SetGovernance
  BY DEF Program, Numbers
<1>23. Program[23] = CreateConfig
  BY DEF Program, Numbers
<1>. QED
  BY <1>1, <1>2, <1>3, <1>4, <1>5, <1>6, <1>7, <1>8, <1>9, <1>10, <1>11, <1>12, <1>13, <1>14,
     <1>15, <1>16, <1>17, <1>18, <1>19, <1>20, <1>21, <1>22, <1>23

\* The upgradable contracts.
LEMMA AliasesAre ==
    Aliases = {"MoC", "MoCConnector", "MoCRiskProxManager", "MoCSettlement", "MoCState",
               "MoCExchange", "MoCInrate", "CommissionSplitter", "MoCVendors"}
  BY DEF Aliases, Upgradable

\* The places of the operations of the migrations that depend on the network.
LEMMA DevelopmentPlaces ==
    ASSUME NEW n \in {0, 2, 4}, NEW s \in DOMAIN Program[n], NEW op \in Program[n][s]
    PROVE  Where(n, s, op)
<1>1. CASE n = 0
  <2>1. Program[0] = DeployReserveToken(development)
    BY ProgramIs
  <2>2. QED
    BY <1>1, <2>1 DEF DeployReserveToken, One, Op, Where, Tokens
<1>2. CASE n = 2
  <2>1. Program[2] = DeployMocLib(development)
    BY ProgramIs
  <2>2. QED
    BY <1>2, <2>1 DEF DeployMocLib, One, Each, Op, Where, Tokens
<1>4. CASE n = 4
  <2>1. Program[4] = DeployDevelopOnly(development)
    BY ProgramIs
  <2>2. QED
    BY <1>4, <2>1 DEF DeployDevelopOnly, DeployUpgradeDelegator, Op, Where, Tokens
<1>3. QED
  BY <1>1, <1>2, <1>4

\* The places of those that initialize the contracts and hand them over.
LEMMA TransferPlaces ==
    ASSUME NEW n \in 18 .. 23, NEW s \in DOMAIN Program[n], NEW op \in Program[n][s]
    PROVE  Where(n, s, op)
<1>1. CASE n = 18
  <2>1. Program[18] = TransferOwnershipAndMinting("StableToken")
    BY ProgramIs DEF TransferStableTokenRoles
  <2>2. QED
    BY <1>1, <2>1 DEF TransferOwnershipAndMinting, Op, Where
<1>2. CASE n = 19
  <2>1. Program[19] = TransferOwnershipAndMinting("RiskProToken")
    BY ProgramIs DEF TransferRiskProRoles
  <2>2. QED
    BY <1>2, <2>1 DEF TransferOwnershipAndMinting, Op, Where
<1>3. CASE n = 20
  <2>1. Program[20] = InitializeContracts
    BY ProgramIs
  <2>2. QED
    BY <1>3, <2>1, AliasesAre DEF InitializeContracts, Each, Op, Where
<1>4. CASE n = 21
  <2>1. Program[21] = TransferPausingRole
    BY ProgramIs
  <2>2. QED
    BY <1>4, <2>1 DEF TransferPausingRole, Op, Where
<1>5. CASE n = 22
  <2>1. Program[22] = SetGovernance
    BY ProgramIs
  <2>2. QED
    BY <1>5, <2>1, AliasesAre DEF SetGovernance, Each, Op, Where
<1>6. CASE n = 23
  <2>1. Program[23] = CreateConfig
    BY ProgramIs
  <2>2. QED
    BY <1>6, <2>1 DEF CreateConfig, Each, Op, Where, Files
<1>7. QED
  BY <1>1, <1>2, <1>3, <1>4, <1>5, <1>6

\* The places of those that create a proxy.
LEMMA CreatePlaces ==
    ASSUME NEW n \in Numbers \cap 8 .. 17, NEW s \in DOMAIN Program[n], NEW op \in Program[n][s]
    PROVE  Where(n, s, op)
<1>1. \E alias \in Aliases : Program[n] = One("create", alias)
  <2>1. n \in {8, 9, 10, 11, 13, 14, 15, 16, 17}
    BY DEF Numbers
  <2>2. Program[n] \in {DeployMoC, DeployMoCConnector, DeployMoCRiskProxManager,
                        DeployMoCSettlement, DeployMoCState, DeployMoCExchange, DeployMoCInrate,
                        DeployCommissionSplitter, DeployMoCVendors}
    BY <2>1, ProgramIs
  <2>3. QED
    BY <2>2 DEF Aliases, Upgradable, DeployMoC, DeployMoCConnector, DeployMoCRiskProxManager,
              DeployMoCSettlement, DeployMoCState, DeployMoCExchange, DeployMoCInrate,
              DeployCommissionSplitter, DeployMoCVendors
<1>2. QED
  BY <1>1 DEF One, Op, Where

\* Every operation of every migration is where Where says.
LEMMA Places ==
    ASSUME NEW n \in Numbers, NEW s \in DOMAIN Program[n], NEW op \in Program[n][s]
    PROVE  Where(n, s, op)
<1>1. CASE n \in {0, 2, 4}
  BY <1>1, DevelopmentPlaces
<1>2. CASE n \in 8 .. 17
  BY <1>2, CreatePlaces
<1>3. CASE n \in 18 .. 23
  BY <1>3, TransferPlaces
<1>4. CASE n = 1
  <2>1. Program[1] = InitialMigration
    BY ProgramIs
  <2>2. QED
    BY <1>4, <2>1 DEF InitialMigration, One, Op, Where, Tokens
<1>5. CASE n = 3
  <2>1. Program[3] = LinkMocLib
    BY ProgramIs
  <2>2. QED
    BY <1>5, <2>1 DEF LinkMocLib, One, Op, Where, Tokens
<1>6. CASE n \in {5, 6}
  <2>1. Program[5] = DeployStableToken /\ Program[6] = DeployRiskPro
    BY ProgramIs
  <2>2. QED
    BY <1>6, <2>1 DEF DeployStableToken, DeployRiskPro, One, Op, Where, Tokens
<1>7. CASE n = 7
  <2>1. Program[7] = DeployMoCToken
    BY ProgramIs
  <2>2. QED
    BY <1>7, <2>1 DEF DeployMoCToken, One, Op, Where, Tokens
<1>8. QED
  BY <1>1, <1>2, <1>3, <1>4, <1>5, <1>6, <1>7 DEF Numbers

\* Each alias has a migration that creates it.
LEMMA CreatesEach ==
    ASSUME NEW alias \in Aliases
    PROVE  \E n \in 8 .. 17 : n \in Numbers /\ Program[n] = One("create", alias)
<1>1. /\ Program[8] = One("create", "MoC") /\ Program[9] = One("create", "MoCConnector")
      /\ Program[10] = One("create", "MoCRiskProxManager")
      /\ Program[11] = One("create", "MoCSettlement") /\ Program[13] = One("create", "MoCState")
      /\ Program[14] = One("create", "MoCExchange") /\ Program[15] = One("create", "MoCInrate")
      /\ Program[16] = One("create", "CommissionSplitter")
      /\ Program[17] = One("create", "MoCVendors")
  BY ProgramIs DEF DeployMoC, DeployMoCConnector, DeployMoCRiskProxManager,
              DeployMoCSettlement, DeployMoCState, DeployMoCExchange, DeployMoCInrate,
              DeployCommissionSplitter, DeployMoCVendors, Upgradable
<1>2. {8, 9, 10, 11, 13, 14, 15, 16, 17} \subseteq Numbers
  BY DEF Numbers
<1>3. QED
  BY <1>1, <1>2, AliasesAre

LEMMA OneDomain ==
    ASSUME NEW kind, NEW subject
    PROVE  Len(One(kind, subject)) = 1 /\ DOMAIN One(kind, subject) = 1 .. 1
  BY DEF One

LEMMA EachDomain ==
    ASSUME NEW kind, NEW subjects, Len(subjects) \in Nat, DOMAIN subjects = 1 .. Len(subjects)
    PROVE  /\ Len(Each(kind, subjects)) = Len(subjects)
           /\ DOMAIN Each(kind, subjects) = 1 .. Len(subjects)
  BY DEF Each

\* A migration is a finite sequence of stages.
LEMMA ProgramDomain ==
    ASSUME NEW n \in Numbers
    PROVE  Len(Program[n]) \in Nat /\ DOMAIN Program[n] = 1 .. Len(Program[n])
<1>1. CASE n = 0
  BY <1>1, ProgramIs, OneDomain DEF DeployReserveToken
<1>2. CASE n = 2
  <2>1. CASE development
    <3>1. Program[n] = Each("deploy", <<"MoCHelperLib", "MoCHelperLibMock">>)
      BY <1>2, <2>1, ProgramIs DEF DeployMocLib
    <3>2. QED
      BY <3>1, EachDomain
  <2>2. CASE ~development
    <3>1. Program[n] = One("deploy", "MoCHelperLib")
      BY <1>2, <2>2, ProgramIs DEF DeployMocLib
    <3>2. QED
      BY <3>1, OneDomain
  <2>3. QED
    BY <2>1, <2>2
<1>3. CASE n = 4
  <2>1. CASE development
    BY <1>3, <2>1, ProgramIs DEF DeployDevelopOnly
  <2>2. CASE ~development
    BY <1>3, <2>2, ProgramIs DEF DeployDevelopOnly
  <2>3. QED
    BY <2>1, <2>2
<1>4. CASE n \in {18, 19}
  <2>1. \E token : Program[n] = TransferOwnershipAndMinting(token)
    BY <1>4, ProgramIs DEF TransferStableTokenRoles, TransferRiskProRoles
  <2>2. QED
    BY <2>1 DEF TransferOwnershipAndMinting
<1>5. CASE n = 20
  BY <1>5, ProgramIs, EachDomain DEF InitializeContracts
<1>6. CASE n = 21
  BY <1>6, ProgramIs DEF TransferPausingRole
<1>7. CASE n = 22
  BY <1>7, ProgramIs, EachDomain DEF SetGovernance
<1>8. CASE n = 23
  BY <1>8, ProgramIs, EachDomain DEF CreateConfig
<1>9. CASE n \in {1, 3, 5, 6, 7}
  BY <1>9, ProgramIs, OneDomain DEF InitialMigration, LinkMocLib, DeployStableToken, DeployRiskPro,
                                    DeployMoCToken
<1>10. CASE n \in {8, 9, 10, 11, 13, 14, 15, 16, 17}
  BY <1>10, ProgramIs, OneDomain DEF DeployMoC, DeployMoCConnector, DeployMoCRiskProxManager,
              DeployMoCSettlement, DeployMoCState, DeployMoCExchange, DeployMoCInrate,
              DeployCommissionSplitter, DeployMoCVendors
<1>11. QED
  BY <1>1, <1>2, <1>3, <1>4, <1>5, <1>6, <1>7, <1>8, <1>9, <1>10 DEF Numbers

\* The network, and with it the migrations, never change.
LEMMA ProgramFixed == development' = development => Program' = Program
  BY DEF Program, DeployReserveToken, DeployMocLib, DeployDevelopOnly

\* An operation that is done is one of its stage and had what it needs.
LEMMA AdvanceFacts ==
    ASSUME TypeOK, NEW op, Advance(op)
    PROVE  /\ stage \in DOMAIN Program[migration] /\ op \in Program[migration][stage]
           /\ Where(migration, stage, op) /\ Succeeds(op) /\ status = "running"
           /\ Program' = Program
           /\ UNCHANGED <<fixed, completed, migration, status, bounds>>
           /\ \/ stage' = stage + 1 /\ done' = {} /\ done \cup {op} = Program[migration][stage]
              \/ stage' = stage /\ done' = done \cup {op} /\ done' # Program[migration][stage]
           /\ stage' \in Nat \ {0} /\ done' \subseteq NextOps'
<1>1. /\ status = "running" /\ op \in Program[migration][stage] /\ stage <= Len(Program[migration])
      /\ Succeeds(op)
      /\ UNCHANGED <<fixed, completed, migration, status, bounds>>
      /\ \/ stage' = stage + 1 /\ done' = {} /\ done \cup {op} = Program[migration][stage]
         \/ stage' = stage /\ done' = done \cup {op} /\ done' # Program[migration][stage]
  BY DEF Advance, Pending
<1>2. migration \in Numbers /\ stage \in Nat \ {0} /\ done \subseteq NextOps
  BY DEF TypeOK
<1>3. stage \in DOMAIN Program[migration]
  BY <1>1, <1>2, ProgramDomain
<1>4. Where(migration, stage, op)
  BY <1>1, <1>2, <1>3, Places
<1>5. Program' = Program
  BY <1>1, ProgramFixed DEF fixed
<1>6. stage' \in Nat \ {0}
  BY <1>1, <1>2
<1>7. done' \subseteq NextOps'
  BY <1>1, <1>2, <1>5 DEF NextOps
<1>8. QED
  BY <1>1, <1>3, <1>4, <1>5, <1>6, <1>7

\* Done or being done when stage s of migration n is the current one.
Reached(n, s) == n < migration \/ (n = migration /\ s <= stage)

LEMMA AfterIsReached ==
    ASSUME migration \in Nat, stage \in Nat, NEW n \in Nat, NEW s \in Nat, After(n, s)
    PROVE  Reached(n, s)
<1>1. CASE migration > n
  BY <1>1 DEF Reached
<1>2. CASE migration = n /\ stage > s
  BY <1>2 DEF Reached
<1>3. QED
  BY <1>1, <1>2 DEF After

\* The effects of what is done hold after an operation that has its own effect and
\* undoes none of those reached before.
LEMMA AdvanceEffects ==
    ASSUME TypeOK, EffectsInv, NEW op, Advance(op), Effect(op)',
           \A n \in Numbers \ {0} : \A s \in DOMAIN Program[n] :
              Reached(n, s) => \A o \in Program[n][s] : Effect(o) => Effect(o)'
    PROVE  EffectsInv'
<1>1. /\ Program' = Program /\ migration' = migration /\ stage \in DOMAIN Program[migration]
      /\ \/ stage' = stage + 1 /\ done' = {} /\ done \cup {op} = Program[migration][stage]
         \/ stage' = stage /\ done' = done \cup {op}
      /\ migration \in Numbers /\ stage \in Nat \ {0} /\ done \subseteq Program[migration][stage]
  BY AdvanceFacts DEF TypeOK, NextOps
<1>2. ASSUME migration # 0, NEW o \in done \cup {op}
      PROVE  Effect(o)'
  <2>1. CASE o = op
    BY <2>1
  <2>2. CASE o \in done
    <3>1. Effect(o)
      BY <1>2, <2>2 DEF EffectsInv
    <3>2. Reached(migration, stage)
      BY <1>1 DEF Reached
    <3>3. QED
      BY <1>1, <1>2, <2>2, <3>1, <3>2
  <2>3. QED
    BY <1>2, <2>1, <2>2
<1>3. ASSUME NEW n \in Numbers \ {0}, NEW s \in DOMAIN Program[n], After(n, s)',
             NEW o \in Program[n][s]
      PROVE  Effect(o)'
  <2>0. n \in Nat /\ s \in Nat /\ migration \in Nat /\ stage \in Nat
    BY <1>1, <1>3, ProgramDomain DEF Numbers
  <2>1. CASE After(n, s)
    <3>1. Effect(o)
      BY <1>3, <2>1 DEF EffectsInv
    <3>2. Reached(n, s)
      BY <2>0, <2>1, AfterIsReached
    <3>3. QED
      BY <1>3, <3>1, <3>2
  <2>2. CASE ~After(n, s)
    <3>1. n = migration /\ s = stage /\ done \cup {op} = Program[migration][stage]
      BY <1>1, <1>3, <2>0, <2>2 DEF After
    <3>2. QED
      BY <1>2, <1>3, <3>1
  <2>3. QED
    BY <2>1, <2>2
<1>4. ASSUME migration' # 0, NEW o \in done' PROVE Effect(o)'
  BY <1>1, <1>2, <1>4
<1>5. QED
  BY <1>1, <1>3, <1>4 DEF EffectsInv

-----------------------------------------------------------------------------

\* Who may hold a role; the contracts are never the deployer.
LEMMA TypeConstants ==
    /\ Deployer \in Role /\ Configured \in Role
    /\ TypeOK => /\ \A a \in Aliases : GetProxyAddress(a) \in Nat
                 /\ TheExchange \in Role /\ TheMoC \in Role /\ ProxyAdminAddress \in Role
                 /\ TheExchange # Deployer /\ TheMoC # Deployer
<1>1. Deployer \in Role /\ Configured \in Role
  BY DEF Deployer, Configured, Role
<1>2. ASSUME TypeOK
      PROVE  \A a \in Aliases : GetProxyAddress(a) \in Nat
  BY <1>2 DEF TypeOK, GetProxyAddress
<1>3. ASSUME TypeOK
      PROVE  /\ TheExchange \in Role /\ TheMoC \in Role
             /\ TheExchange # Deployer /\ TheMoC # Deployer
  BY <1>2, <1>3, AliasesAre DEF TheExchange, TheMoC, Deployer, Role
<1>4. ASSUME TypeOK
      PROVE  ProxyAdminAddress \in Role
  BY <1>1, <1>4 DEF TypeOK, ProxyAdminAddress, Role
<1>5. QED
  BY <1>1, <1>2, <1>3, <1>4


\* An operation leaves truffle's record and the migration that runs alone.
LEMMA AdvanceRecord ==
    ASSUME IInv, NEW op, Advance(op), deployed \subseteq deployed'
    PROVE  RecordInv'
<1>1. UNCHANGED <<completed, migration, status>>
  BY AdvanceFacts DEF IInv
<1>2. QED
  BY <1>1 DEF IInv, RecordInv

\* What migrations 4 and 18 to 22 need holds after an operation that removes nothing.
LEMMA AdvanceHandOver ==
    ASSUME IInv, NEW op, Advance(op), deployed \subseteq deployed',
           \A a \in Aliases : proxies[a] # <<>> => proxies'[a] # <<>>,
           op.kind = "deployProxyAdmin" => proxyAdmin'.owner = Deployer,
           op.kind \notin {"deployProxyAdmin", "transferProxyAdmin"} => proxyAdmin' = proxyAdmin
    PROVE  HandOverInv'
<1>1. /\ stage \in DOMAIN Program[migration] /\ op \in Program[migration][stage]
      /\ Where(migration, stage, op) /\ Succeeds(op)
      /\ UNCHANGED <<fixed, migration>>
      /\ \/ stage' = stage + 1 /\ done' = {} /\ done \cup {op} = Program[migration][stage]
         \/ stage' = stage /\ done \cup {op} # Program[migration][stage]
      /\ done \subseteq Program[migration][stage]
  BY AdvanceFacts DEF IInv, TypeOK, NextOps
<1>2. migration \in Nat /\ stage \in Nat
  BY DEF IInv, TypeOK, Numbers
<1>3. ASSUME migration' = 4, stage' \in 3 .. 5
      PROVE  proxyAdmin'.owner = Deployer
  <2>1. migration = 4
    BY <1>1, <1>3
  <2>2. Program[4] = DeployDevelopOnly(development)
    BY ProgramIs
  <2>3. stage = 2 => op.kind = "deployProxyAdmin"
    BY <1>1, <2>1, <2>2 DEF DeployDevelopOnly, Op
  <2>4. stage = 5 => Program[4][stage] = {op} /\ op.kind = "transferProxyAdmin"
    BY <1>1, <2>1, <2>2 DEF DeployDevelopOnly, DeployUpgradeDelegator, Op
  <2>5. op.kind # "transferProxyAdmin"
    <3>1. SUFFICES ASSUME op.kind = "transferProxyAdmin" PROVE FALSE
      OBVIOUS
    <3>2. stage = 5
      BY <1>1, <3>1 DEF Where
    <3>3. done \cup {op} = Program[migration][stage]
      BY <1>1, <2>1, <2>4, <3>2
    <3>4. stage' = 6
      BY <1>1, <3>2, <3>3
    <3>5. QED
      BY <1>3, <3>4
  <2>6. CASE op.kind = "deployProxyAdmin"
    BY <2>6
  <2>7. CASE op.kind # "deployProxyAdmin"
    <3>1. stage \in 3 .. 5
      BY <1>1, <1>2, <1>3, <2>3, <2>7
    <3>2. QED
      BY <2>1, <2>5, <2>7, <3>1 DEF IInv, HandOverInv
  <2>8. QED
    BY <2>6, <2>7
<1>4. ASSUME After(18, 1)' PROVE CreateInstances'
  <2>1. CreateInstances
    <3>1. CASE After(18, 1)
      BY <3>1 DEF IInv, HandOverInv
    <3>2. CASE ~After(18, 1)
      <4>1. migration = 18 /\ stage = 1
        BY <1>1, <1>2, <1>4, <3>2 DEF After
      <4>2. Program[18] = TransferOwnershipAndMinting("StableToken")
        BY ProgramIs DEF TransferStableTokenRoles
      <4>3. op.kind = "transferOwnership"
        BY <1>1, <4>1, <4>2 DEF TransferOwnershipAndMinting, Op
      <4>4. QED
        BY <1>1, <4>3 DEF Succeeds, NeedsInstances
    <3>3. QED
      BY <3>1, <3>2
  <2>2. QED
    BY <1>1, <2>1 DEF CreateInstances, fixed
<1>5. QED
  BY <1>3, <1>4 DEF HandOverInv

\* Where an operation touches neither tokens nor the proxies' number.
LEMMA RolesUntouched ==
    ASSUME IInv, UNCHANGED <<migration, tokens>>, deployed' \cap Tokens = deployed \cap Tokens,
           TheExchange' = TheExchange, TheMoC' = TheMoC
    PROVE  RolesInv'
<1>1. /\ "RiskProToken" \in deployed' <=> "RiskProToken" \in deployed
      /\ Tokens \cap deployed' = Tokens \cap deployed
  BY DEF Tokens
<1>2. QED
  BY <1>1 DEF IInv, RolesInv

\* The operations, one by one.
LEMMA DeployKeeps ==
    ASSUME IInv, NEW op, Deploy(op)
    PROVE  IInv'
<1>0. TypeOK /\ EffectsInv /\ Advance(op)
  BY DEF IInv, Deploy
<1>1. op.kind \in {"deploy", "link"} /\ (op.kind = "deploy" => op.subject \notin Tokens)
  BY <1>0, AdvanceFacts DEF Deploy, Where
<1>2. /\ UNCHANGED <<fixed, completed, migration, status, bounds, proxies, tokens,
                     governanceVars, saved>>
      /\ deployed' = IF op.kind = "deploy" THEN deployed \cup {op.subject} ELSE deployed
      /\ stage' \in Nat \ {0} /\ done' \subseteq NextOps'
  BY <1>0, AdvanceFacts DEF Deploy
<1>3. TypeOK'
  BY <1>0, <1>2 DEF TypeOK, fixed, bounds, governanceVars
<1>4. ASSUME NEW o, Effect(o) PROVE Effect(o)'
  BY <1>2, <1>4 DEF Effect, GetProxyAddress, TheExchange, TheMoC, ProxyAdminAddress, fixed,
     governanceVars
<1>5. Effect(op)'
  BY <1>1, <1>2 DEF Effect
<1>6. EffectsInv'
  BY <1>0, <1>4, <1>5, AdvanceEffects
<1>7. RecordInv'
  BY <1>0, <1>2, AdvanceRecord
<1>8. HandOverInv'
  BY <1>0, <1>1, <1>2, AdvanceHandOver DEF governanceVars
<1>9. RolesInv'
  <2>1. TheExchange' = TheExchange /\ TheMoC' = TheMoC
    BY <1>2 DEF TheExchange, TheMoC, GetProxyAddress
  <2>2. QED
    BY <1>1, <1>2, <2>1, RolesUntouched
<1>10. QED
  BY <1>3, <1>6, <1>7, <1>8, <1>9 DEF IInv

\* Where an operation reached before the current one has its place.
LEMMA Earlier ==
    ASSUME TypeOK, NEW n \in Numbers, NEW s \in DOMAIN Program[n], NEW o \in Program[n][s],
           Reached(n, s)
    PROVE  /\ Where(n, s, o) /\ n \in Nat /\ s \in Nat /\ migration \in Nat /\ stage \in Nat
           /\ n <= migration /\ (n = migration => s <= stage)
<1>1. Where(n, s, o)
  BY Places
<1>a. s \in 1 .. Len(Program[n]) /\ Len(Program[n]) \in Nat
  BY ProgramDomain
<1>b. s \in Nat
  BY <1>a
<1>2. n \in Nat /\ s \in Nat /\ migration \in Nat /\ stage \in Nat
  BY <1>b DEF TypeOK, Numbers
<1>3. n <= migration /\ (n = migration => s <= stage)
  BY <1>2 DEF Reached
<1>4. QED
  BY <1>1, <1>2, <1>3

LEMMA DeployTokenKeeps ==
    ASSUME IInv, NEW op, DeployToken(op)
    PROVE  IInv'
<1>0. TypeOK /\ EffectsInv /\ RolesInv /\ Advance(op)
  BY DEF IInv, DeployToken
<1>1. op.kind = "deployToken" /\ migration \in {5, 6} /\ op.subject \in Tokens
  BY <1>0, AdvanceFacts DEF DeployToken, Where
<1>2. /\ UNCHANGED <<fixed, completed, migration, status, bounds, proxies, governanceVars, saved>>
      /\ deployed' = deployed \cup {op.subject}
      /\ tokens' = [tokens EXCEPT ![op.subject] =
            [owner |-> Deployer, minters |-> {Deployer},
             pausers |-> IF op.subject = "RiskProToken" THEN {Deployer} ELSE {}]]
      /\ stage' \in Nat \ {0} /\ done' \subseteq NextOps'
  BY <1>0, AdvanceFacts DEF DeployToken
<1>3. TypeOK'
  <2>1. tokens' \in [Tokens -> [owner : Role, minters : SUBSET Role, pausers : SUBSET Role]]
    BY <1>0, <1>1, <1>2, TypeConstants DEF TypeOK
  <2>2. QED
    BY <1>0, <1>2, <2>1 DEF TypeOK, fixed, bounds, governanceVars
<1>4. ASSUME NEW n \in Numbers \ {0}, NEW s \in DOMAIN Program[n], Reached(n, s),
             NEW o \in Program[n][s], Effect(o)
      PROVE  Effect(o)'
  <2>1. Where(n, s, o) /\ n \in Nat /\ n <= 6
    BY <1>0, <1>1, <1>4, Earlier
  <2>2. o.kind \notin {"transferOwnership", "addMinter", "renounceMinter", "addPauser",
                      "renouncePauser"}
    BY <2>1 DEF Where
  <2>3. QED
    BY <1>2, <1>4, <2>2 DEF Effect, GetProxyAddress, ProxyAdminAddress, fixed, governanceVars
<1>5. Effect(op)'
  BY <1>1, <1>2 DEF Effect
<1>6. EffectsInv'
  BY <1>0, <1>4, <1>5, AdvanceEffects
<1>7. RecordInv'
  BY <1>0, <1>2, AdvanceRecord
<1>8. HandOverInv'
  BY <1>0, <1>1, <1>2, AdvanceHandOver DEF governanceVars
<1>9. RolesInv'
  <2>1. migration' \in {5, 6}
    BY <1>1, <1>2
  <2>2. \A t \in Tokens : t \in deployed' =>
            tokens'[t].owner = Deployer /\ tokens'[t].minters = {Deployer}
    BY <1>0, <1>1, <1>2 DEF RolesInv, TypeOK
  <2>3. "RiskProToken" \in deployed' => tokens'["RiskProToken"].pausers = {Deployer}
    BY <1>0, <1>1, <1>2 DEF RolesInv, TypeOK, Tokens
  <2>4. QED
    BY <2>1, <2>2, <2>3 DEF RolesInv
<1>10. QED
  BY <1>3, <1>6, <1>7, <1>8, <1>9 DEF IInv

LEMMA DeployProxyAdminKeeps ==
    ASSUME IInv, NEW op, DeployProxyAdmin(op)
    PROVE  IInv'
<1>0. TypeOK /\ EffectsInv /\ RolesInv /\ Advance(op)
  BY DEF IInv, DeployProxyAdmin
<1>1. /\ op.kind = "deployProxyAdmin" /\ migration = 4 /\ stage = 2
      /\ op.subject \notin Tokens
  BY <1>0, AdvanceFacts DEF DeployProxyAdmin, Where
<1>2. /\ UNCHANGED <<fixed, completed, migration, status, bounds, proxies, tokens, delegator,
                     saved>>
      /\ deployed' = deployed \cup {op.subject}
      /\ proxyAdmin' = [number |-> proxyAdmin.number + 1, owner |-> Deployer]
      /\ stage' \in Nat \ {0} /\ done' \subseteq NextOps'
  BY <1>0, AdvanceFacts DEF DeployProxyAdmin
<1>3. TypeOK'
  <2>1. proxyAdmin.number \in Nat
    BY <1>0 DEF TypeOK
  <2>2. proxyAdmin.number + 1 \in Nat
    BY <2>1
  <2>3. proxyAdmin' \in [number : Nat, owner : Role]
    BY <1>2, <2>2, TypeConstants
  <2>4. QED
    BY <1>0, <1>2, <2>3 DEF TypeOK, fixed, bounds
<1>4. ASSUME NEW n \in Numbers \ {0}, NEW s \in DOMAIN Program[n], Reached(n, s),
             NEW o \in Program[n][s], Effect(o)
      PROVE  Effect(o)'
  <2>1. Where(n, s, o) /\ n \in Nat /\ s \in Nat /\ n <= 4 /\ (n = 4 => s <= 2)
    BY <1>0, <1>1, <1>4, Earlier
  <2>2. o.kind \in {"deploy", "link", "deployToken", "deployProxyAdmin"}
    BY <2>1 DEF Where
  <2>3. QED
    BY <1>2, <1>4, <2>2 DEF Effect
<1>5. Effect(op)'
  BY <1>1, <1>2 DEF Effect
<1>6. EffectsInv'
  BY <1>0, <1>4, <1>5, AdvanceEffects
<1>7. RecordInv'
  BY <1>0, <1>2, AdvanceRecord
<1>8. HandOverInv'
  BY <1>0, <1>1, <1>2, AdvanceHandOver
<1>9. RolesInv'
  <2>1. TheExchange' = TheExchange /\ TheMoC' = TheMoC
    BY <1>2 DEF TheExchange, TheMoC, GetProxyAddress
  <2>2. QED
    BY <1>1, <1>2, <2>1, RolesUntouched
<1>10. QED
  BY <1>3, <1>6, <1>7, <1>8, <1>9 DEF IInv

LEMMA UpgradeDelegatorKeeps ==
    ASSUME IInv, NEW op, UpgradeDelegator(op)
    PROVE  IInv'
<1>0. TypeOK /\ EffectsInv /\ RolesInv /\ Advance(op)
  BY DEF IInv, UpgradeDelegator
<1>1. /\ op.kind \in {"deployDelegator", "initializeDelegator", "transferProxyAdmin"}
      /\ migration = 4 /\ stage \in 3 .. 5 /\ op.subject \notin Tokens
      /\ op.kind = "deployDelegator" => stage = 3
      /\ op.kind = "initializeDelegator" => stage = 4
  BY <1>0, AdvanceFacts DEF UpgradeDelegator, Where
<1>2. /\ UNCHANGED <<fixed, completed, migration, status, bounds, proxies, tokens, saved>>
      /\ deployed' = deployed \cup {op.subject}
      /\ \/ /\ op.kind = "deployDelegator" /\ UNCHANGED proxyAdmin
            /\ delegator' = [number |-> delegator.number + 1, proxyAdmin |-> 0]
         \/ /\ op.kind = "initializeDelegator" /\ UNCHANGED proxyAdmin
            /\ delegator' = [delegator EXCEPT !.proxyAdmin = proxyAdmin.number]
         \/ /\ op.kind = "transferProxyAdmin" /\ UNCHANGED delegator
            /\ proxyAdmin' = [proxyAdmin EXCEPT !.owner = <<"UpgradeDelegator", delegator.number>>]
      /\ stage' \in Nat \ {0} /\ done' \subseteq NextOps'
  BY <1>0, AdvanceFacts DEF UpgradeDelegator
<1>a. delegator \in [number : Nat, proxyAdmin : Nat] /\ proxyAdmin \in [number : Nat, owner : Role]
  BY <1>0 DEF TypeOK
<1>3. TypeOK'
  <2>1. delegator.number \in Nat /\ proxyAdmin.number \in Nat
    BY <1>a
  <2>2. delegator.number + 1 \in Nat /\ <<"UpgradeDelegator", delegator.number>> \in Role
    BY <2>1 DEF Role
  <2>3. delegator' \in [number : Nat, proxyAdmin : Nat] /\ proxyAdmin' \in [number : Nat, owner : Role]
    BY <1>2, <1>a, <2>1, <2>2
  <2>4. QED
    BY <1>0, <1>2, <2>3 DEF TypeOK, fixed, bounds
<1>4. ASSUME NEW n \in Numbers \ {0}, NEW s \in DOMAIN Program[n], Reached(n, s),
             NEW o \in Program[n][s], Effect(o), o # op
      PROVE  Effect(o)'
  <2>1. Where(n, s, o) /\ n \in Nat /\ s \in Nat /\ n <= 4 /\ (n = 4 => s <= stage)
    BY <1>0, <1>1, <1>4, Earlier
  <2>2. o.kind \in {"deploy", "link", "deployToken", "deployProxyAdmin", "deployDelegator",
                    "initializeDelegator", "transferProxyAdmin"}
    BY <2>1 DEF Where
  <2>3. Program[4] = DeployDevelopOnly(development) /\ op \in Program[4][stage]
    BY <1>0, <1>1, AdvanceFacts, ProgramIs
  <2>4. o.kind = "initializeDelegator" => op.kind = "transferProxyAdmin"
    BY <1>1, <1>4, <2>1, <2>3
       DEF Where, DeployDevelopOnly, DeployUpgradeDelegator, Op
  <2>5. o.kind # "transferProxyAdmin"
    BY <1>1, <1>4, <2>1, <2>3
       DEF Where, DeployDevelopOnly, DeployUpgradeDelegator, Op
  <2>6. QED
    BY <1>2, <1>4, <1>a, <2>2, <2>4, <2>5 DEF Effect
<1>5. Effect(op)'
  BY <1>1, <1>2, <1>a DEF Effect
<1>6. EffectsInv'
  BY <1>0, <1>4, <1>5, AdvanceEffects
<1>7. RecordInv'
  BY <1>0, <1>2, AdvanceRecord
<1>8. HandOverInv'
  BY <1>0, <1>1, <1>2, AdvanceHandOver
<1>9. RolesInv'
  <2>1. TheExchange' = TheExchange /\ TheMoC' = TheMoC
    BY <1>2 DEF TheExchange, TheMoC, GetProxyAddress
  <2>2. QED
    BY <1>1, <1>2, <2>1, RolesUntouched
<1>10. QED
  BY <1>3, <1>6, <1>7, <1>8, <1>9 DEF IInv

LEMMA DeployUpgradableKeeps ==
    ASSUME IInv, NEW op, DeployUpgradable(op)
    PROVE  IInv'
<1>0. TypeOK /\ EffectsInv /\ RolesInv /\ Advance(op)
  BY DEF IInv, DeployUpgradable
<1>1. op.kind = "create" /\ migration \in 8 .. 17 /\ op.subject \in Aliases
  BY <1>0, AdvanceFacts DEF DeployUpgradable, Where
<1>2. /\ UNCHANGED <<fixed, completed, migration, status, bounds, deployed, tokens,
                     governanceVars, saved>>
      /\ proxies' = [proxies EXCEPT ![op.subject] =
                        Append(proxies[op.subject], [initialized |-> FALSE, admin |-> Deployer])]
      /\ stage' \in Nat \ {0} /\ done' \subseteq NextOps'
  BY <1>0, AdvanceFacts DEF DeployUpgradable
<1>3. TypeOK'
  <2>1. [initialized |-> FALSE, admin |-> Deployer] \in [initialized : BOOLEAN, admin : Role]
    BY TypeConstants
  <2>2. proxies[op.subject] \in Seq([initialized : BOOLEAN, admin : Role])
    BY <1>0, <1>1 DEF TypeOK
  <2>3. Append(proxies[op.subject], [initialized |-> FALSE, admin |-> Deployer])
            \in Seq([initialized : BOOLEAN, admin : Role])
    BY <2>1, <2>2
  <2>4. proxies' \in [Aliases -> Seq([initialized : BOOLEAN, admin : Role])]
    BY <1>0, <1>1, <1>2, <2>3 DEF TypeOK
  <2>5. QED
    BY <1>0, <1>2, <2>4 DEF TypeOK, fixed, bounds, governanceVars
<1>a. proxies'[op.subject] # <<>> /\ Last(proxies'[op.subject]).admin = Deployer
  <2>1. proxies[op.subject] \in Seq([initialized : BOOLEAN, admin : Role])
    BY <1>0, <1>1 DEF TypeOK
  <2>2. proxies'[op.subject] = Append(proxies[op.subject],
                                     [initialized |-> FALSE, admin |-> Deployer])
    BY <1>0, <1>1, <1>2 DEF TypeOK
  <2>3. QED
    BY <2>1, <2>2 DEF Last
<1>b. \A a \in Aliases : a # op.subject => proxies'[a] = proxies[a]
  BY <1>0, <1>1, <1>2 DEF TypeOK
<1>4. ASSUME NEW n \in Numbers \ {0}, NEW s \in DOMAIN Program[n], Reached(n, s),
             NEW o \in Program[n][s], Effect(o)
      PROVE  Effect(o)'
  <2>1. Where(n, s, o) /\ n \in Nat /\ n <= 17
    BY <1>0, <1>1, <1>4, Earlier
  <2>2. /\ o.kind \in {"deploy", "link", "deployToken", "deployProxyAdmin", "deployDelegator",
                       "initializeDelegator", "transferProxyAdmin", "create"}
        /\ o.kind = "create" => o.subject \in Aliases
    BY <2>1 DEF Where
  <2>3. ProxyAdminAddress' = ProxyAdminAddress
    BY <1>2 DEF ProxyAdminAddress, fixed, governanceVars
  <2>4. CASE o.kind = "create"
    BY <1>4, <1>a, <1>b, <2>2, <2>3, <2>4 DEF Effect
  <2>5. CASE o.kind # "create"
    BY <1>2, <1>4, <2>2, <2>5 DEF Effect, governanceVars
  <2>6. QED
    BY <2>4, <2>5
<1>5. Effect(op)'
  BY <1>1, <1>a DEF Effect
<1>6. EffectsInv'
  BY <1>0, <1>4, <1>5, AdvanceEffects
<1>7. RecordInv'
  BY <1>0, <1>2, AdvanceRecord
<1>8. HandOverInv'
  <2>1. \A a \in Aliases : proxies[a] # <<>> => proxies'[a] # <<>>
    BY <1>a, <1>b
  <2>2. QED
    BY <1>0, <1>1, <1>2, <2>1, AdvanceHandOver DEF governanceVars
<1>9. RolesInv'
  BY <1>0, <1>1, <1>2 DEF RolesInv
<1>10. QED
  BY <1>3, <1>6, <1>7, <1>8, <1>9 DEF IInv

LEMMA LastOfSeq ==
    ASSUME NEW S, NEW q \in Seq(S), q # <<>>
    PROVE  Len(q) \in 1 .. Len(q) /\ q[Len(q)] \in S
<1>1. Len(q) \in Nat /\ Len(q) # 0
  BY EmptySeq
<1>2. Len(q) \in 1 .. Len(q)
  BY <1>1
<1>3. QED
  BY <1>2, ElementOfSeq

LEMMA InitializeKeeps ==
    ASSUME IInv, NEW op, Initialize(op)
    PROVE  IInv'
<1>0. TypeOK /\ EffectsInv /\ RolesInv /\ HandOverInv /\ Advance(op)
  BY DEF IInv, Initialize
<1>1. op.kind = "initialize" /\ migration = 20 /\ op.subject \in Aliases /\ CreateInstances
  BY <1>0, AdvanceFacts DEF Initialize, Where, Succeeds, NeedsInstances
<1>2. /\ UNCHANGED <<fixed, completed, migration, status, bounds, deployed, tokens,
                     governanceVars, saved>>
      /\ proxies' = [proxies EXCEPT ![op.subject] =
             [proxies[op.subject] EXCEPT ![Len(proxies[op.subject])] =
                [proxies[op.subject][Len(proxies[op.subject])] EXCEPT !.initialized = TRUE]]]
      /\ stage' \in Nat \ {0} /\ done' \subseteq NextOps'
  BY <1>0, AdvanceFacts DEF Initialize, GetProxyAddress
<1>a. /\ proxies'[op.subject] \in Seq([initialized : BOOLEAN, admin : Role])
      /\ Len(proxies'[op.subject]) = Len(proxies[op.subject])
      /\ proxies[op.subject] # <<>> /\ proxies'[op.subject] # <<>>
      /\ Last(proxies'[op.subject]).initialized
      /\ Last(proxies'[op.subject]).admin = Last(proxies[op.subject]).admin
  <2> DEFINE p == proxies[op.subject]
  <2>1. p \in Seq([initialized : BOOLEAN, admin : Role]) /\ p # <<>>
    BY <1>0, <1>1 DEF TypeOK, CreateInstances
  <2>2. proxies'[op.subject] = [p EXCEPT ![Len(p)] = [p[Len(p)] EXCEPT !.initialized = TRUE]]
    BY <1>0, <1>1, <1>2 DEF TypeOK
  <2>3. Len(p) \in 1 .. Len(p) /\ p[Len(p)] \in [initialized : BOOLEAN, admin : Role]
    BY <2>1, LastOfSeq
  <2>4. [p[Len(p)] EXCEPT !.initialized = TRUE] \in [initialized : BOOLEAN, admin : Role]
    BY <2>3
  <2>5. QED
    BY <2>1, <2>2, <2>3, <2>4 DEF Last
<1>b. \A a \in Aliases : a # op.subject => proxies'[a] = proxies[a]
  BY <1>0, <1>1, <1>2 DEF TypeOK
<1>c. \A a \in Aliases : GetProxyAddress(a)' = GetProxyAddress(a)
  BY <1>a, <1>b DEF GetProxyAddress
<1>d. TheExchange' = TheExchange /\ TheMoC' = TheMoC /\ ProxyAdminAddress' = ProxyAdminAddress
  BY <1>2, <1>c, AliasesAre DEF TheExchange, TheMoC, ProxyAdminAddress, fixed, governanceVars
<1>3. TypeOK'
  <2>1. proxies' \in [Aliases -> Seq([initialized : BOOLEAN, admin : Role])]
    BY <1>0, <1>1, <1>2, <1>a DEF TypeOK
  <2>2. QED
    BY <1>0, <1>2, <2>1 DEF TypeOK, fixed, bounds, governanceVars
<1>4. ASSUME NEW n \in Numbers \ {0}, NEW s \in DOMAIN Program[n], Reached(n, s),
             NEW o \in Program[n][s], Effect(o)
      PROVE  Effect(o)'
  <2>1. Where(n, s, o) /\ n \in Nat /\ n <= 20
    BY <1>0, <1>1, <1>4, Earlier
  <2>2. /\ o.kind \in {"deploy", "link", "deployToken", "deployProxyAdmin", "deployDelegator",
                       "initializeDelegator", "transferProxyAdmin", "create", "transferOwnership",
                       "addMinter", "renounceMinter", "initialize"}
        /\ o.kind \in {"create", "initialize"} => o.subject \in Aliases
    BY <2>1 DEF Where
  <2>4. CASE o.kind \in {"create", "initialize"}
    BY <1>4, <1>a, <1>b, <1>d, <2>2, <2>4 DEF Effect
  <2>5. CASE o.kind \notin {"create", "initialize"}
    BY <1>2, <1>4, <1>d, <2>2, <2>5 DEF Effect, governanceVars
  <2>6. QED
    BY <2>4, <2>5
<1>5. Effect(op)'
  BY <1>1, <1>a DEF Effect
<1>6. EffectsInv'
  BY <1>0, <1>4, <1>5, AdvanceEffects
<1>7. RecordInv'
  BY <1>0, <1>2, AdvanceRecord
<1>8. HandOverInv'
  <2>1. \A a \in Aliases : proxies[a] # <<>> => proxies'[a] # <<>>
    BY <1>a, <1>b
  <2>2. QED
    BY <1>0, <1>1, <1>2, <2>1, AdvanceHandOver DEF governanceVars
<1>9. RolesInv'
  BY <1>1, <1>2, <1>d, RolesUntouched
<1>10. QED
  BY <1>3, <1>6, <1>7, <1>8, <1>9 DEF IInv

LEMMA HandOverKeeps ==
    ASSUME IInv, NEW op, HandOver(op)
    PROVE  IInv'
<1>0. TypeOK /\ EffectsInv /\ RolesInv /\ HandOverInv /\ Advance(op)
  BY DEF IInv, HandOver
<1>1. /\ \/ op.kind \in {"transferOwnership", "addMinter", "renounceMinter"} /\ migration \in {18, 19}
         \/ op.kind \in {"addPauser", "renouncePauser"} /\ migration = 21
      /\ op.subject \in Tokens
      /\ op.kind \in {"addPauser", "renouncePauser"} => op.subject = "RiskProToken"
      /\ CreateInstances /\ Tokens \subseteq deployed
      /\ op.kind = "renounceMinter" => stage = 3
  <2>1. Where(migration, stage, op) /\ Succeeds(op)
    BY <1>0, AdvanceFacts
  <2>2. op.kind \in {"transferOwnership", "addMinter", "renounceMinter", "addPauser",
                     "renouncePauser"}
    BY DEF HandOver
  <2>3. CreateInstances /\ Tokens \subseteq deployed
    BY <2>1, <2>2 DEF Succeeds, NeedsInstances, CreateInstances, Tokens
  <2>4. QED
    BY <2>1, <2>2, <2>3 DEF Where, Tokens
<1>2. /\ UNCHANGED <<fixed, completed, migration, status, bounds, deployed, proxies,
                     governanceVars, saved>>
      /\ stage' \in Nat \ {0} /\ done' \subseteq NextOps'
  BY <1>0, AdvanceFacts DEF HandOver
<1>a. /\ TheExchange' = TheExchange /\ TheMoC' = TheMoC
      /\ TheExchange \in Role /\ TheMoC \in Role /\ TheExchange # Deployer /\ TheMoC # Deployer
  BY <1>0, <1>2, TypeConstants DEF TheExchange, TheMoC, GetProxyAddress
<1>b. tokens \in [Tokens -> [owner : Role, minters : SUBSET Role, pausers : SUBSET Role]]
  BY <1>0 DEF TypeOK
<1>c. PICK r \in [owner : Role, minters : SUBSET Role, pausers : SUBSET Role] :
          /\ tokens' = [tokens EXCEPT ![op.subject] = r]
          /\ \/ /\ op.kind = "transferOwnership"
                /\ r = [tokens[op.subject] EXCEPT !.owner = TheExchange]
             \/ /\ op.kind = "addMinter"
                /\ r = [tokens[op.subject] EXCEPT !.minters = tokens[op.subject].minters \cup {TheExchange}]
             \/ /\ op.kind = "renounceMinter"
                /\ r = [tokens[op.subject] EXCEPT !.minters = tokens[op.subject].minters \ {Deployer}]
             \/ /\ op.kind = "addPauser"
                /\ r = [tokens[op.subject] EXCEPT !.pausers = tokens[op.subject].pausers \cup {TheMoC}]
             \/ /\ op.kind = "renouncePauser"
                /\ r = [tokens[op.subject] EXCEPT !.pausers = tokens[op.subject].pausers \ {Deployer}]
  BY <1>1, <1>a, <1>b DEF HandOver
<1>d. /\ tokens'[op.subject] = r
      /\ \A t \in Tokens : t # op.subject => tokens'[t] = tokens[t]
      /\ tokens[op.subject] \in [owner : Role, minters : SUBSET Role, pausers : SUBSET Role]
  BY <1>1, <1>b, <1>c
<1>3. TypeOK'
  <2>1. tokens' \in [Tokens -> [owner : Role, minters : SUBSET Role, pausers : SUBSET Role]]
    BY <1>1, <1>b, <1>c
  <2>2. QED
    BY <1>0, <1>2, <2>1 DEF TypeOK, fixed, bounds, governanceVars
<1>4. ASSUME NEW o, Effect(o),
             o.kind \in {"transferOwnership", "addMinter", "renounceMinter", "addPauser",
                         "renouncePauser"} => o.subject \in Tokens
      PROVE  Effect(o)'
  <2>1. CASE o.kind \in {"transferOwnership", "addMinter", "renounceMinter", "addPauser",
                         "renouncePauser"}
    <3>1. CASE o.subject = op.subject
      BY <1>4, <1>a, <1>c, <1>d, <2>1, <3>1 DEF Effect
    <3>2. CASE o.subject # op.subject
      BY <1>4, <1>a, <1>d, <2>1, <3>2 DEF Effect
    <3>3. QED
      BY <3>1, <3>2
  <2>2. CASE o.kind \notin {"transferOwnership", "addMinter", "renounceMinter", "addPauser",
                            "renouncePauser"}
    BY <1>2, <1>4, <2>2 DEF Effect, GetProxyAddress, ProxyAdminAddress, fixed, governanceVars
  <2>3. QED
    BY <2>1, <2>2
<1>5. Effect(op)'
  BY <1>1, <1>a, <1>c, <1>d DEF Effect
<1>6. EffectsInv'
  <2>1. ASSUME NEW n \in Numbers \ {0}, NEW s \in DOMAIN Program[n], Reached(n, s),
               NEW o \in Program[n][s], Effect(o)
        PROVE  Effect(o)'
    <3>1. Where(n, s, o)
      BY <1>0, <2>1, Earlier
    <3>2. o.kind \in {"transferOwnership", "addMinter", "renounceMinter", "addPauser",
                      "renouncePauser"} => o.subject \in Tokens
      BY <3>1 DEF Where, Tokens
    <3>3. QED
      BY <1>4, <2>1, <3>2
  <2>2. QED
    BY <1>0, <1>5, <2>1, AdvanceEffects
<1>7. RecordInv'
  BY <1>0, <1>2, AdvanceRecord
<1>8. HandOverInv'
  BY <1>0, <1>1, <1>2, AdvanceHandOver DEF governanceVars
<1>e. op.kind = "renounceMinter" => TheExchange \in tokens[op.subject].minters
  <2>1. SUFFICES ASSUME op.kind = "renounceMinter"
                 PROVE  TheExchange \in tokens[op.subject].minters
    OBVIOUS
  <2>2. /\ migration \in Numbers \ {0} /\ op \in Program[migration][stage] /\ stage = 3
        /\ Where(migration, stage, op)
    BY <1>0, <1>1, <2>1, AdvanceFacts DEF Numbers
  <2>3. Program[migration] = TransferOwnershipAndMinting(op.subject)
    BY <2>1, <2>2, ProgramIs DEF Where, TransferStableTokenRoles, TransferRiskProRoles
  <2>4. /\ 2 \in DOMAIN Program[migration]
        /\ Op("addMinter", op.subject) \in Program[migration][2]
    BY <2>3 DEF TransferOwnershipAndMinting
  <2>5. After(migration, 2)
    BY <2>2 DEF After
  <2>6. Effect(Op("addMinter", op.subject))
    BY <1>0, <2>2, <2>4, <2>5 DEF EffectsInv
  <2>7. QED
    BY <2>6 DEF Effect, Op
<1>9. RolesInv'
  <2>0. migration' = migration /\ deployed' = deployed /\ ~(migration' <= 17) /\ ~(migration' <= 1)
    BY <1>1, <1>2
  <2>1. ASSUME NEW t \in Tokens, t \in deployed
        PROVE  /\ tokens'[t].owner \in {Deployer, TheExchange}
               /\ tokens'[t].minters \subseteq {Deployer, TheExchange}
               /\ Deployer \in tokens'[t].minters \/ TheExchange \in tokens'[t].minters
    <3>1. /\ tokens[t].owner \in {Deployer, TheExchange}
          /\ tokens[t].minters \subseteq {Deployer, TheExchange}
          /\ Deployer \in tokens[t].minters \/ TheExchange \in tokens[t].minters
      BY <1>0, <2>0, <2>1 DEF RolesInv
    <3>2. CASE t = op.subject
      BY <1>a, <1>c, <1>d, <1>e, <3>1, <3>2
    <3>3. CASE t # op.subject
      BY <1>d, <2>1, <3>1, <3>3
    <3>4. QED
      BY <3>2, <3>3
  <2>2. IF migration <= 20 THEN tokens'["RiskProToken"].pausers = {Deployer}
        ELSE tokens'["RiskProToken"].pausers \subseteq {Deployer, TheMoC}
    <3>1. IF migration <= 20 THEN tokens["RiskProToken"].pausers = {Deployer}
          ELSE tokens["RiskProToken"].pausers \subseteq {Deployer, TheMoC}
      BY <1>0, <1>1 DEF RolesInv, Tokens
    <3>2. CASE op.subject = "RiskProToken"
      BY <1>1, <1>c, <1>d, <3>1, <3>2
    <3>3. CASE op.subject # "RiskProToken"
      BY <1>d, <3>1, <3>3 DEF Tokens
    <3>4. QED
      BY <3>2, <3>3
  <2>3. QED
    BY <1>a, <2>0, <2>1, <2>2 DEF RolesInv
<1>10. QED
  BY <1>3, <1>6, <1>7, <1>8, <1>9 DEF IInv

LEMMA SetAdminKeeps ==
    ASSUME IInv, NEW op, SetAdmin(op)
    PROVE  IInv'
<1>0. TypeOK /\ EffectsInv /\ RolesInv /\ HandOverInv /\ Advance(op)
  BY DEF IInv, SetAdmin
<1>1. op.kind = "setAdmin" /\ migration = 22 /\ op.subject \in Aliases /\ CreateInstances
  BY <1>0, AdvanceFacts DEF SetAdmin, Where, Succeeds, NeedsInstances
<1> DEFINE p == proxies[op.subject]
           q == [i \in DOMAIN p |-> IF p[i].admin = Deployer
                                    THEN [p[i] EXCEPT !.admin = ProxyAdminAddress] ELSE p[i]]
<1>2. /\ UNCHANGED <<fixed, completed, migration, status, bounds, deployed, tokens,
                     governanceVars, saved>>
      /\ proxies' = [proxies EXCEPT ![op.subject] = q]
      /\ stage' \in Nat \ {0} /\ done' \subseteq NextOps'
  BY <1>0, AdvanceFacts DEF SetAdmin
<1>p. ProxyAdminAddress' = ProxyAdminAddress /\ ProxyAdminAddress \in Role
  BY <1>0, <1>2, TypeConstants DEF ProxyAdminAddress, fixed, governanceVars
<1>c. Last(p).admin \in {Deployer, ProxyAdminAddress}
  <2>1. PICK n \in 8 .. 17 : n \in Numbers /\ Program[n] = One("create", op.subject)
    BY <1>1, CreatesEach
  <2>2. /\ n \in Numbers \ {0} /\ 1 \in DOMAIN Program[n]
        /\ Op("create", op.subject) \in Program[n][1] /\ After(n, 1)
    BY <1>1, <2>1 DEF One, After
  <2>3. Effect(Op("create", op.subject))
    BY <1>0, <2>2 DEF EffectsInv
  <2>4. QED
    BY <2>3 DEF Effect, Op
<1>a. /\ q \in Seq([initialized : BOOLEAN, admin : Role]) /\ Len(q) = Len(p)
      /\ p # <<>> /\ q # <<>> /\ Last(q).admin = ProxyAdminAddress
      /\ Last(q).initialized = Last(p).initialized
  <2>1. p \in Seq([initialized : BOOLEAN, admin : Role]) /\ p # <<>>
    BY <1>0, <1>1 DEF TypeOK, CreateInstances
  <2>2. Len(p) \in 1 .. Len(p) /\ p[Len(p)] \in [initialized : BOOLEAN, admin : Role]
    BY <2>1, LastOfSeq
  <2>3. Len(p) \in Nat /\ DOMAIN p = 1 .. Len(p)
    BY <2>1
  <2>4. \A i \in 1 .. Len(p) : q[i] \in [initialized : BOOLEAN, admin : Role]
    <3>1. TAKE i \in 1 .. Len(p)
    <3>2. p[i] \in [initialized : BOOLEAN, admin : Role]
      BY <2>1, ElementOfSeq
    <3>3. [p[i] EXCEPT !.admin = ProxyAdminAddress] \in [initialized : BOOLEAN, admin : Role]
      BY <1>p, <3>2
    <3>4. q[i] \in {p[i], [p[i] EXCEPT !.admin = ProxyAdminAddress]}
      BY <2>3
    <3>5. QED
      BY <3>2, <3>3, <3>4
  <2>5. q \in [1 .. Len(p) -> [initialized : BOOLEAN, admin : Role]]
    BY <2>3, <2>4
  <2>6. q \in Seq([initialized : BOOLEAN, admin : Role]) /\ Len(q) = Len(p)
    BY <2>3, <2>5
  <2>7. q[Len(p)].admin = ProxyAdminAddress /\ q[Len(p)].initialized = p[Len(p)].initialized
    BY <1>c, <2>2, <2>3 DEF Last
  <2>8. q # <<>>
    BY <2>2, <2>6
  <2>9. QED
    BY <2>1, <2>6, <2>7, <2>8 DEF Last
<1>e. proxies'[op.subject] = q
  BY <1>0, <1>1, <1>2 DEF TypeOK
<1>b. \A a \in Aliases : a # op.subject => proxies'[a] = proxies[a]
  BY <1>0, <1>1, <1>2 DEF TypeOK
<1> HIDE DEF q
<1>d. \A a \in Aliases : GetProxyAddress(a)' = GetProxyAddress(a)
  BY <1>a, <1>b, <1>e DEF GetProxyAddress
<1>f. TheExchange' = TheExchange /\ TheMoC' = TheMoC
  BY <1>d, AliasesAre DEF TheExchange, TheMoC
<1>3. TypeOK'
  <2>1. proxies' \in [Aliases -> Seq([initialized : BOOLEAN, admin : Role])]
    BY <1>0, <1>1, <1>2, <1>a DEF TypeOK
  <2>2. QED
    BY <1>0, <1>2, <2>1 DEF TypeOK, fixed, bounds, governanceVars
<1>4. ASSUME NEW n \in Numbers \ {0}, NEW s \in DOMAIN Program[n], Reached(n, s),
             NEW o \in Program[n][s], Effect(o)
      PROVE  Effect(o)'
  <2>1. Where(n, s, o) /\ n \in Nat /\ n <= 22
    BY <1>0, <1>1, <1>4, Earlier
  <2>2. /\ o.kind # "saveConfig"
        /\ o.kind \in {"create", "initialize", "setAdmin"} => o.subject \in Aliases
    BY <2>1 DEF Where
  <2>4. CASE o.kind \in {"create", "initialize", "setAdmin"}
    <3>1. CASE o.subject = op.subject
      BY <1>4, <1>a, <1>e, <1>p, <2>4, <3>1 DEF Effect
    <3>2. CASE o.subject # op.subject
      BY <1>4, <1>b, <1>p, <2>2, <2>4, <3>2 DEF Effect
    <3>3. QED
      BY <3>1, <3>2
  <2>5. CASE o.kind \notin {"create", "initialize", "setAdmin"}
    BY <1>2, <1>4, <1>f, <2>2, <2>5 DEF Effect, governanceVars
  <2>6. QED
    BY <2>4, <2>5
<1>5. Effect(op)'
  BY <1>1, <1>a, <1>e, <1>p DEF Effect
<1>6. EffectsInv'
  BY <1>0, <1>4, <1>5, AdvanceEffects
<1>7. RecordInv'
  BY <1>0, <1>2, AdvanceRecord
<1>8. HandOverInv'
  <2>1. \A a \in Aliases : proxies[a] # <<>> => proxies'[a] # <<>>
    BY <1>a, <1>b, <1>e
  <2>2. QED
    BY <1>0, <1>1, <1>2, <2>1, AdvanceHandOver DEF governanceVars
<1>9. RolesInv'
  BY <1>1, <1>2, <1>f, RolesUntouched
<1>10. QED
  BY <1>3, <1>6, <1>7, <1>8, <1>9 DEF IInv

LEMMA SaveConfigKeeps ==
    ASSUME IInv, NEW op, SaveConfig(op)
    PROVE  IInv'
<1>0. TypeOK /\ EffectsInv /\ RolesInv /\ Advance(op)
  BY DEF IInv, SaveConfig
<1>1. op.kind = "saveConfig" /\ op.subject \in Files
  BY <1>0, AdvanceFacts DEF SaveConfig, Where
<1>2. /\ UNCHANGED <<fixed, completed, migration, status, bounds, deployed, proxies, tokens,
                     governanceVars>>
      /\ saved' = [saved EXCEPT ![op.subject] = [alias \in Aliases |-> GetProxyAddress(alias)]]
      /\ stage' \in Nat \ {0} /\ done' \subseteq NextOps'
  BY <1>0, AdvanceFacts DEF SaveConfig
<1>a. \A a : GetProxyAddress(a)' = GetProxyAddress(a)
  BY <1>2 DEF GetProxyAddress
<1>b. TheExchange' = TheExchange /\ TheMoC' = TheMoC /\ ProxyAdminAddress' = ProxyAdminAddress
  BY <1>2, <1>a DEF TheExchange, TheMoC, ProxyAdminAddress, fixed, governanceVars
<1>c. /\ saved'[op.subject] = [alias \in Aliases |-> GetProxyAddress(alias)]
      /\ \A f : f # op.subject => saved'[f] = saved[f]
  BY <1>0, <1>1, <1>2 DEF TypeOK
<1>3. TypeOK'
  <2>1. [alias \in Aliases |-> GetProxyAddress(alias)] \in [Aliases -> Nat]
    BY <1>0, TypeConstants
  <2>2. saved' \in [Files -> [Aliases -> Nat]]
    BY <1>0, <1>1, <1>2, <2>1 DEF TypeOK
  <2>3. QED
    BY <1>0, <1>2, <2>2 DEF TypeOK, fixed, bounds, governanceVars
<1>d. [alias \in Aliases |-> GetProxyAddress(alias)]' = [alias \in Aliases |-> GetProxyAddress(alias)]
  BY <1>2 DEF GetProxyAddress
<1>4. ASSUME NEW o, Effect(o)
      PROVE  Effect(o)'
  <2>1. CASE o.kind = "saveConfig"
    BY <1>4, <1>c, <1>d, <2>1 DEF Effect
  <2>2. CASE o.kind # "saveConfig"
    BY <1>2, <1>4, <1>b, <2>2 DEF Effect, governanceVars
  <2>3. QED
    BY <2>1, <2>2
<1>5. Effect(op)'
  BY <1>1, <1>c, <1>d DEF Effect
<1>6. EffectsInv'
  BY <1>0, <1>4, <1>5, AdvanceEffects
<1>7. RecordInv'
  BY <1>0, <1>2, AdvanceRecord
<1>8. HandOverInv'
  BY <1>0, <1>1, <1>2, AdvanceHandOver DEF governanceVars
<1>9. RolesInv'
  BY <1>1, <1>2, <1>b, RolesUntouched
<1>10. QED
  BY <1>3, <1>6, <1>7, <1>8, <1>9 DEF IInv

\* No migration lies between one and the following.
LEMMA FollowingIsNext ==
    ASSUME NEW n \in Numbers, n # 23
    PROVE  /\ Following(n) \in Numbers /\ n < Following(n) /\ n \in Nat
           /\ \A k \in Numbers : k < Following(n) => k <= n
<1>1. CASE n = 11
  BY <1>1 DEF Following, Numbers
<1>2. CASE n # 11
  <2>1. Following(n) = n + 1 /\ n \in 0 .. 22 /\ n # 12
    BY <1>2 DEF Following, Numbers
  <2>2. QED
    BY <1>2, <2>1 DEF Numbers
<1>3. QED
  BY <1>1, <1>2

LEMMA CompleteMigrationKeeps ==
    ASSUME IInv, CompleteMigration
    PROVE  IInv'
<1>1. TypeOK /\ RecordInv /\ EffectsInv /\ RolesInv /\ HandOverInv
  BY DEF IInv
<1>2. /\ status = "running" /\ stage > Len(Program[migration]) /\ stage' = 1 /\ done' = {}
      /\ completed' = IF "Migrations" \in deployed THEN migration ELSE completed
      /\ \/ migration = 23 /\ status' = "finished" /\ UNCHANGED migration
         \/ migration # 23 /\ migration' = Following(migration) /\ UNCHANGED status
      /\ UNCHANGED <<fixed, deployed, proxies, tokens, governanceVars, saved, bounds>>
  BY DEF CompleteMigration, LastNumber
<1>3. /\ migration \in Numbers /\ migration' \in Numbers /\ migration \in Nat
      /\ migration' >= migration
      /\ \A n \in Numbers : migration < migration' /\ n < migration' => n <= migration
  <2>1. migration \in Numbers /\ migration \in Nat
    BY <1>1 DEF TypeOK, Numbers
  <2>2. CASE migration = 23
    BY <1>2, <2>1, <2>2
  <2>3. CASE migration # 23
    <3>1. PICK m : m = Following(migration)
      OBVIOUS
    <3>2. m \in Numbers /\ migration < m /\ \A k \in Numbers : k < m => k <= migration
      BY <2>1, <2>3, <3>1, FollowingIsNext
    <3>3. migration' = m /\ m \in Nat
      BY <1>2, <2>3, <3>1, <3>2 DEF Numbers
    <3>4. QED
      BY <2>1, <3>2, <3>3
  <2>4. QED
    BY <2>2, <2>3
<1>4. Program' = Program
  BY <1>2, ProgramFixed DEF fixed
<1>5. TypeOK'
  <2>1. done' \subseteq NextOps' /\ stage' \in Nat \ {0} /\ completed' \in Numbers
    BY <1>1, <1>2, <1>3 DEF TypeOK
  <2>2. status' \in {"running", "stopped", "failed", "finished"}
    BY <1>2
  <2>3. QED
    BY <1>1, <1>2, <1>3, <2>1, <2>2 DEF TypeOK, fixed, bounds, governanceVars
<1>6. ASSUME NEW o, Effect(o) PROVE Effect(o)'
  BY <1>2, <1>6 DEF Effect, GetProxyAddress, TheExchange, TheMoC, ProxyAdminAddress, fixed,
     governanceVars
<1>7. ASSUME NEW n \in Numbers, NEW s \in DOMAIN Program[n], After(n, s)'
      PROVE  After(n, s)
  <2>1. s \in 1 .. Len(Program[n]) /\ Len(Program[n]) \in Nat /\ n \in Nat /\ stage \in Nat
    <3>1. s \in 1 .. Len(Program[n]) /\ Len(Program[n]) \in Nat
      BY <1>7, ProgramDomain
    <3>2. n \in Nat /\ stage \in Nat
      BY <1>1 DEF Numbers, TypeOK
    <3>3. QED
      BY <3>1, <3>2
  <2>2. n < migration'
    BY <1>2, <1>3, <1>7, <2>1 DEF After
  <2>3. CASE n < migration
    BY <1>3, <2>1, <2>3 DEF After
  <2>4. CASE n = migration
    BY <1>2, <2>1, <2>4 DEF After
  <2>5. QED
    BY <1>3, <2>1, <2>2, <2>3, <2>4
<1>8. EffectsInv'
  BY <1>1, <1>2, <1>4, <1>6, <1>7 DEF EffectsInv
<1>9. RecordInv'
  <2>1. CASE migration = 0
    BY <1>1, <1>2, <2>1 DEF RecordInv, Following
  <2>2. CASE migration # 0
    <3>1. "Migrations" \in deployed
      <4>1. CASE migration = 1
        <5>1. Program[1] = <<{Op("deploy", "Migrations")}>>
          BY ProgramIs DEF InitialMigration, One
        <5>2. 1 \in Numbers \ {0} /\ 1 \in DOMAIN Program[1] /\ After(1, 1)
          BY <1>2, <4>1, <5>1 DEF After, Numbers
        <5>3. Effect(Op("deploy", "Migrations"))
          BY <1>1, <5>1, <5>2 DEF EffectsInv
        <5>4. QED
          BY <5>3 DEF Effect, Op
      <4>2. CASE migration # 1
        BY <1>1, <1>2, <1>3, <2>2, <4>2 DEF RecordInv
      <4>3. QED
        BY <4>1, <4>2
    <3>2. migration' > 1 /\ completed' = migration /\ deployed' = deployed
      BY <1>2, <1>3, <2>2, <3>1 DEF Following
    <3>3. status' # "finished" => migration' = Following(completed')
      BY <1>2, <3>2
    <3>4. ~(migration' <= 1)
      BY <1>3, <3>2 DEF Numbers
    <3>5. QED
      BY <3>1, <3>2, <3>3, <3>4 DEF RecordInv
  <2>3. QED
    BY <2>1, <2>2
<1>10. HandOverInv'
  <2>1. After(18, 1)' => After(18, 1)
    <3>1. 18 \in Numbers /\ 1 \in DOMAIN Program[18]
      BY ProgramIs DEF Numbers, TransferStableTokenRoles, TransferOwnershipAndMinting
    <3>2. QED
      BY <1>7, <3>1
  <2>2. CreateInstances' <=> CreateInstances
    BY <1>2 DEF CreateInstances, fixed
  <2>3. QED
    BY <1>1, <1>2, <2>1, <2>2 DEF HandOverInv
<1>11. RolesInv'
  <2>1. TheExchange' = TheExchange /\ TheMoC' = TheMoC
    BY <1>2 DEF TheExchange, TheMoC, GetProxyAddress
  <2>2. migration' <= 1 => migration <= 1
    BY <1>3 DEF Numbers
  <2>3. \A k \in {17, 20} : migration' <= k => migration <= k
    BY <1>3 DEF Numbers
  <2>4. QED
    BY <1>1, <1>2, <2>1, <2>2, <2>3 DEF RolesInv
<1>12. QED
  BY <1>5, <1>8, <1>9, <1>10, <1>11 DEF IInv

\* A stop, a failure, or continuing: what was done stays as it was.
LEMMA StopKeeps ==
    ASSUME IInv, Crash \/ (\E op \in NextOps : Revert(op))
    PROVE  IInv'
<1>1. /\ UNCHANGED <<fixed, position, deployed, proxies, tokens, governanceVars, saved, rounds>>
      /\ status = "running" /\ status' \in {"failed", "stopped"}
      /\ crashes' = crashes \/ (crashes < MaxCrashes /\ crashes' = crashes + 1)
  BY DEF Crash, Revert, Pending, bounds
<1>2. Program' = Program
  BY <1>1, ProgramFixed DEF fixed
<1>3. TypeOK'
  <2>1. crashes' \in 0 .. MaxCrashes
    BY <1>1, MigrationsAssumption DEF IInv, TypeOK
  <2>2. NextOps' = NextOps
    BY <1>1, <1>2 DEF NextOps, position
  <2>3. QED
    BY <1>1, <2>1, <2>2 DEF IInv, TypeOK, fixed, position, governanceVars
<1>4. ASSUME NEW o, Effect(o) PROVE Effect(o)'
  BY <1>1, <1>4 DEF Effect, GetProxyAddress, TheExchange, TheMoC, ProxyAdminAddress, fixed,
     governanceVars
<1>5. \A n, s : After(n, s)' <=> After(n, s)
  BY <1>1 DEF After, position
<1>6. EffectsInv'
  BY <1>1, <1>2, <1>4, <1>5 DEF IInv, EffectsInv, position
<1>7. RecordInv'
  BY <1>1 DEF IInv, RecordInv, position
<1>8. HandOverInv'
  BY <1>1 DEF IInv, HandOverInv, After, CreateInstances, fixed, position, governanceVars
<1>9. RolesInv'
  <2>1. TheExchange' = TheExchange /\ TheMoC' = TheMoC
    BY <1>1 DEF TheExchange, TheMoC, GetProxyAddress
  <2>2. QED
    BY <1>1, <2>1, RolesUntouched DEF position
<1>10. QED
  BY <1>3, <1>6, <1>7, <1>8, <1>9 DEF IInv

LEMMA ContinueKeeps ==
    ASSUME IInv, ContinueMigration
    PROVE  IInv'
<1>1. TypeOK /\ RecordInv /\ EffectsInv /\ RolesInv /\ HandOverInv
  BY DEF IInv
<1>2. /\ status \in {"stopped", "failed"} /\ status' = "running" /\ stage' = 1 /\ done' = {}
      /\ migration' = IF "Migrations" \in deployed THEN Following(completed) ELSE 1
      /\ UNCHANGED <<fixed, completed, deployed, proxies, tokens, governanceVars, saved, bounds>>
  BY DEF ContinueMigration
<1>3. migration \in Numbers /\ stage \in Nat \ {0}
  BY <1>1 DEF TypeOK
\* It continues with the migration that stopped, or with 1 where 0 did.
<1>4. \/ migration \in {0, 1} /\ migration' = 1
      \/ migration > 1 /\ migration' = migration
  <2>1. CASE migration > 1
    BY <1>1, <1>2, <2>1 DEF RecordInv
  <2>2. CASE migration \in {0, 1}
    BY <1>1, <1>2, <2>2 DEF RecordInv, Following
  <2>3. QED
    BY <1>3, <2>1, <2>2 DEF Numbers
<1>5. Program' = Program
  BY <1>2, ProgramFixed DEF fixed
<1>6. TypeOK'
  <2>1. done' \subseteq NextOps' /\ stage' \in Nat \ {0}
    BY <1>2
  <2>2. migration' \in Numbers
    BY <1>3, <1>4 DEF Numbers
  <2>3. status' \in {"running", "stopped", "failed", "finished"}
    BY <1>2
  <2>4. QED
    BY <1>1, <1>2, <2>1, <2>2, <2>3 DEF TypeOK, fixed, bounds, governanceVars
<1>7. ASSUME NEW o, Effect(o) PROVE Effect(o)'
  BY <1>2, <1>7 DEF Effect, GetProxyAddress, TheExchange, TheMoC, ProxyAdminAddress, fixed,
     governanceVars
<1>8. ASSUME NEW n \in Numbers \ {0}, NEW s \in DOMAIN Program[n], After(n, s)'
      PROVE  After(n, s)
  <2>1. n \in Nat /\ s \in Nat /\ s >= 1 /\ n # 0
    <3>1. s \in 1 .. Len(Program[n]) /\ Len(Program[n]) \in Nat
      BY <1>8, ProgramDomain
    <3>2. QED
      BY <3>1 DEF Numbers
  <2>2. n < migration'
    BY <1>2, <1>8, <2>1 DEF After
  <2>3. n < migration
    BY <1>4, <2>1, <2>2
  <2>4. QED
    BY <2>1, <2>3 DEF After
<1>9. EffectsInv'
  BY <1>1, <1>2, <1>5, <1>7, <1>8 DEF EffectsInv
<1>10. RecordInv'
  BY <1>1, <1>2, <1>4 DEF RecordInv
<1>11. HandOverInv'
  <2>1. After(18, 1)' => After(18, 1)
    <3>1. 18 \in Numbers \ {0} /\ 1 \in DOMAIN Program[18]
      BY ProgramIs DEF Numbers, TransferStableTokenRoles, TransferOwnershipAndMinting
    <3>2. QED
      BY <1>8, <3>1
  <2>2. CreateInstances' <=> CreateInstances
    BY <1>2 DEF CreateInstances, fixed
  <2>3. QED
    BY <1>1, <1>2, <2>1, <2>2 DEF HandOverInv
<1>12. RolesInv'
  <2>1. TheExchange' = TheExchange /\ TheMoC' = TheMoC
    BY <1>2 DEF TheExchange, TheMoC, GetProxyAddress
  <2>2. \A k \in {1, 17, 20} : migration' <= k <=> migration <= k
    BY <1>3, <1>4 DEF Numbers
  <2>3. QED
    BY <1>1, <1>2, <2>1, <2>2 DEF RolesInv
<1>13. QED
  BY <1>6, <1>9, <1>10, <1>11, <1>12 DEF IInv

LEMMA StartKeeps ==
    ASSUME IInv, StartNewMigration
    PROVE  IInv'
<1>1. TypeOK
  BY DEF IInv
<1>2. /\ rounds' = rounds + 1
      /\ status' = "running" /\ migration' = 0 /\ stage' = 1 /\ done' = {} /\ completed' = 0
      /\ deployed' = {}
      /\ proxies' = (IF zosFileKept THEN proxies ELSE [alias \in Aliases |-> <<>>])
      /\ UNCHANGED <<fixed, tokens, governanceVars, saved, crashes>>
  BY DEF StartNewMigration
<1>3. TypeOK'
  <2>1. rounds \in Nat
    BY <1>1 DEF TypeOK
  <2>2. rounds' \in Nat
    BY <1>2, <2>1
  <2>3. [alias \in Aliases |-> <<>>] \in [Aliases -> Seq([initialized : BOOLEAN, admin : Role])]
    OBVIOUS
  <2>4. proxies' \in [Aliases -> Seq([initialized : BOOLEAN, admin : Role])]
    BY <1>1, <1>2, <2>3 DEF TypeOK
  <2>5. migration' \in Numbers /\ completed' \in Numbers
    BY <1>2 DEF Numbers
  <2>6. done' \subseteq NextOps' /\ stage' \in Nat \ {0}
    BY <1>2
  <2>7. status' \in {"running", "stopped", "failed", "finished"}
    BY <1>2
  <2>8. QED
    BY <1>1, <1>2, <2>2, <2>4, <2>5, <2>6, <2>7 DEF TypeOK, fixed, governanceVars
<1>4. Program' = Program
  BY <1>2, ProgramFixed DEF fixed
<1>5. EffectsInv'
  <2>1. ASSUME NEW n \in Numbers \ {0}, NEW s PROVE ~After(n, s)'
    BY <1>2, <2>1 DEF After, Numbers
  <2>2. QED
    BY <1>2, <1>4, <2>1 DEF EffectsInv
<1>6. RecordInv'
  BY <1>2 DEF RecordInv
<1>7. HandOverInv'
  BY <1>2 DEF HandOverInv, After
<1>8. RolesInv'
  BY <1>2 DEF RolesInv
<1>9. QED
  BY <1>3, <1>5, <1>6, <1>7, <1>8 DEF IInv

LEMMA InitIInv == Init => IInv
<1>1. SUFFICES ASSUME Init PROVE IInv
  OBVIOUS
<1>2. TypeOK
  <2>1. Deployer \in Role /\ Configured \in Role
    BY TypeConstants
  <2>2. proxies \in [Aliases -> Seq([initialized : BOOLEAN, admin : Role])]
    BY <1>1 DEF Init
  <2>3. QED
    BY <1>1, <2>1, <2>2, MigrationsAssumption DEF Init, TypeOK, Numbers
<1>3. EffectsInv
  <2>1. ASSUME NEW n \in Numbers \ {0}, NEW s PROVE ~After(n, s)
    BY <1>1, <2>1 DEF After, Numbers, Init
  <2>2. QED
    BY <1>1, <2>1 DEF EffectsInv, Init
<1>4. RecordInv /\ HandOverInv /\ RolesInv
  BY <1>1 DEF Init, RecordInv, HandOverInv, After, RolesInv
<1>5. QED
  BY <1>2, <1>3, <1>4 DEF IInv

LEMMA NextKeeps == IInv /\ [Next]_vars => IInv'
<1>1. SUFFICES ASSUME IInv, [Next]_vars PROVE IInv'
  OBVIOUS
<1>2. CASE Step
  <2>1. CASE CompleteMigration
    BY <1>1, <2>1, CompleteMigrationKeeps
  <2>2. ASSUME NEW op \in NextOps,
               \/ Deploy(op) \/ DeployToken(op) \/ DeployProxyAdmin(op) \/ UpgradeDelegator(op)
               \/ DeployUpgradable(op) \/ Initialize(op) \/ HandOver(op) \/ SetAdmin(op)
               \/ SaveConfig(op) \/ Revert(op)
        PROVE  IInv'
    BY <1>1, <2>2, DeployKeeps, DeployTokenKeeps, DeployProxyAdminKeeps, UpgradeDelegatorKeeps,
       DeployUpgradableKeeps, InitializeKeeps, HandOverKeeps, SetAdminKeeps, SaveConfigKeeps,
       StopKeeps
  <2>3. QED
    BY <1>2, <2>1, <2>2 DEF Step
<1>3. CASE Crash
  BY <1>1, <1>3, StopKeeps
<1>4. CASE ContinueMigration
  BY <1>1, <1>4, ContinueKeeps
<1>5. CASE StartNewMigration
  BY <1>1, <1>5, StartKeeps
<1>6. CASE UNCHANGED vars
  <2>1. UNCHANGED <<development, zosFileKept, completed, migration, stage, done, status, deployed,
                    proxies, tokens, proxyAdmin, delegator, saved, crashes, rounds>>
    BY <1>6 DEF vars, fixed, position, governanceVars, bounds
  <2>2. Program' = Program
    BY <2>1, ProgramFixed
  <2>3. TypeOK' /\ RecordInv'
    BY <1>1, <2>1, <2>2 DEF IInv, TypeOK, RecordInv, NextOps
  <2>4. ASSUME NEW o, Effect(o) PROVE Effect(o)'
    BY <2>1, <2>4 DEF Effect, GetProxyAddress, TheExchange, TheMoC, ProxyAdminAddress
  <2>5. EffectsInv'
    BY <1>1, <2>1, <2>2, <2>4 DEF IInv, EffectsInv, After
  <2>6. HandOverInv'
    BY <1>1, <2>1 DEF IInv, HandOverInv, After, CreateInstances
  <2>7. RolesInv'
    <3>1. TheExchange' = TheExchange /\ TheMoC' = TheMoC
      BY <2>1 DEF TheExchange, TheMoC, GetProxyAddress
    <3>2. QED
      BY <1>1, <2>1, <3>1, RolesUntouched
  <2>8. QED
    BY <2>3, <2>5, <2>6, <2>7 DEF IInv
<1>7. QED
  BY <1>1, <1>2, <1>3, <1>4, <1>5, <1>6 DEF Next

\* An operation of any other migration has what it needs.
LEMMA OnlyHandOverFailsStep == IInv /\ OnlyHandOverFails /\ [Next]_vars => OnlyHandOverFails'
<1>1. SUFFICES ASSUME IInv, OnlyHandOverFails, [Next]_vars, status' = "failed"
               PROVE  migration' \in 18 .. 21
  BY DEF OnlyHandOverFails
<1>2. CASE status = "failed" /\ UNCHANGED <<status, migration>>
  BY <1>1, <1>2 DEF OnlyHandOverFails
<1>3. ASSUME NEW op \in NextOps, Revert(op)
      PROVE  migration' \in 18 .. 21
  <2>1. /\ op \in Program[migration][stage] /\ stage \in DOMAIN Program[migration]
        /\ ~Succeeds(op) /\ migration' = migration /\ migration \in Numbers
    BY <1>1, <1>3, ProgramDomain DEF Revert, Pending, position, IInv, TypeOK
  <2>2. Where(migration, stage, op)
    BY <2>1, Places
  <2>3. op.kind # "transferProxyAdmin"
    BY <1>1, <2>1, <2>2 DEF Where, IInv, HandOverInv, Succeeds, NeedsInstances
  <2>4. op.kind # "setAdmin"
    <3>1. SUFFICES ASSUME op.kind = "setAdmin" PROVE FALSE
      OBVIOUS
    <3>2. After(18, 1)
      BY <2>2, <3>1 DEF Where, After
    <3>3. CreateInstances
      BY <1>1, <3>2 DEF IInv, HandOverInv
    <3>4. QED
      BY <2>1, <3>1, <3>3 DEF Succeeds
  <2>5. op.kind \in {"transferOwnership", "addMinter", "renounceMinter", "addPauser",
                     "renouncePauser", "initialize"}
    BY <2>1, <2>3, <2>4 DEF Succeeds, NeedsInstances
  <2>6. migration \in {18, 19, 20, 21}
    BY <2>2, <2>5 DEF Where
  <2>7. QED
    BY <2>1, <2>6
<1>4. CASE Step
  <2>1. CASE CompleteMigration
    BY <1>1, <2>1 DEF CompleteMigration
  <2>2. ASSUME NEW op \in NextOps, Advance(op) PROVE FALSE
    BY <1>1, <2>2, AdvanceFacts DEF IInv
  <2>3. QED
    BY <1>3, <1>4, <2>1, <2>2 DEF Step, Deploy, DeployToken, DeployProxyAdmin, UpgradeDelegator,
       DeployUpgradable, Initialize, HandOver, SetAdmin, SaveConfig
<1>5. CASE Crash \/ ContinueMigration \/ StartNewMigration
  BY <1>1, <1>5 DEF Crash, ContinueMigration, StartNewMigration
<1>6. CASE UNCHANGED vars
  BY <1>1, <1>2, <1>6 DEF vars, position
<1>7. QED
  BY <1>1, <1>4, <1>5, <1>6 DEF Next

\* The last migration completes only after everything was done.
LEMMA CompleteHandsOver ==
    ASSUME IInv, CompleteMigration, status' = "finished"
    PROVE  FinishedIsHandedOver'
<1>1. TypeOK /\ EffectsInv /\ RolesInv /\ HandOverInv
  BY DEF IInv
<1>2. /\ migration = 23 /\ stage > Len(Program[migration])
      /\ UNCHANGED <<fixed, deployed, proxies, tokens, governanceVars, saved>>
  BY DEF CompleteMigration, LastNumber
<1>3. ASSUME NEW n \in Numbers \ {0}, NEW s \in DOMAIN Program[n], NEW o \in Program[n][s]
      PROVE  Effect(o)
  <2>1. s \in 1 .. Len(Program[n]) /\ Len(Program[n]) \in Nat
    BY <1>3, ProgramDomain
  <2>2. n \in Nat /\ n <= 23 /\ stage \in Nat
    <3>1. n \in 0 .. 23
      BY DEF Numbers
    <3>2. stage \in Nat
      BY <1>1 DEF TypeOK
    <3>3. QED
      BY <3>1, <3>2
  <2>3. After(n, s)
    BY <1>2, <2>1, <2>2 DEF After
  <2>4. QED
    BY <1>1, <1>3, <2>3 DEF EffectsInv
<1>4. CreateInstances
  BY <1>1, <1>2 DEF HandOverInv, After
<1>5. ASSUME NEW t \in Tokens
      PROVE  tokens[t].owner = TheExchange /\ tokens[t].minters = {TheExchange}
  <2>1. PICK n \in {18, 19} : Program[n] = TransferOwnershipAndMinting(t)
    BY ProgramIs DEF Tokens, TransferStableTokenRoles, TransferRiskProRoles
  <2>2. /\ n \in Numbers \ {0} /\ DOMAIN Program[n] = 1 .. 3
        /\ Op("transferOwnership", t) \in Program[n][1] /\ Op("addMinter", t) \in Program[n][2]
        /\ Op("renounceMinter", t) \in Program[n][3]
    BY <2>1 DEF Numbers, TransferOwnershipAndMinting
  <2>3. /\ Effect(Op("transferOwnership", t)) /\ Effect(Op("addMinter", t))
        /\ Effect(Op("renounceMinter", t))
    BY <1>3, <2>2
  <2>4. /\ tokens[t].owner = TheExchange /\ TheExchange \in tokens[t].minters
        /\ Deployer \notin tokens[t].minters
    BY <2>3 DEF Effect, Op
  <2>5. tokens[t].minters \subseteq {Deployer, TheExchange}
    BY <1>1, <1>2, <1>4, <1>5 DEF RolesInv, CreateInstances, Tokens
  <2>6. QED
    BY <2>4, <2>5
<1>6. tokens["RiskProToken"].pausers = {TheMoC}
  <2>1. /\ 21 \in Numbers \ {0} /\ DOMAIN Program[21] = 1 .. 2
        /\ Op("addPauser", "RiskProToken") \in Program[21][1]
        /\ Op("renouncePauser", "RiskProToken") \in Program[21][2]
    BY ProgramIs DEF Numbers, TransferPausingRole
  <2>2. Effect(Op("addPauser", "RiskProToken")) /\ Effect(Op("renouncePauser", "RiskProToken"))
    BY <1>3, <2>1
  <2>3. TheMoC \in tokens["RiskProToken"].pausers /\ Deployer \notin tokens["RiskProToken"].pausers
    BY <2>2 DEF Effect, Op
  <2>4. tokens["RiskProToken"].pausers \subseteq {Deployer, TheMoC}
    BY <1>1, <1>2, <1>4 DEF RolesInv, CreateInstances
  <2>5. QED
    BY <2>3, <2>4
<1>7. ASSUME NEW alias \in Aliases
      PROVE  /\ proxies[alias] # <<>>
             /\ Last(proxies[alias]) = [initialized |-> TRUE, admin |-> ProxyAdminAddress]
             /\ \A f \in Files : saved[f][alias] = Len(proxies[alias])
  <2>1. Effect(Op("initialize", alias))
    <3>1. \E s \in DOMAIN Program[20] : Op("initialize", alias) \in Program[20][s]
      BY ProgramIs, AliasesAre DEF InitializeContracts, Each
    <3>2. QED
      BY <1>3, <3>1 DEF Numbers
  <2>2. Effect(Op("setAdmin", alias))
    <3>1. \E s \in DOMAIN Program[22] : Op("setAdmin", alias) \in Program[22][s]
      BY ProgramIs, AliasesAre DEF SetGovernance, Each
    <3>2. QED
      BY <1>3, <3>1 DEF Numbers
  <2>3. ASSUME NEW f \in Files PROVE saved[f][alias] = Len(proxies[alias])
    <3>1. \E s \in DOMAIN Program[23] : Op("saveConfig", f) \in Program[23][s]
      BY ProgramIs DEF CreateConfig, Each, Files
    <3>2. Effect(Op("saveConfig", f))
      BY <1>3, <3>1 DEF Numbers
    <3>3. QED
      BY <3>2 DEF Effect, Op, GetProxyAddress
  <2>4. proxies[alias] # <<>>
    BY <2>1 DEF Effect, Op
  <2>5. Last(proxies[alias]) \in [initialized : BOOLEAN, admin : Role]
    BY <1>1, <2>4, LastOfSeq DEF TypeOK, Last
  <2>6. Last(proxies[alias]).initialized /\ Last(proxies[alias]).admin = ProxyAdminAddress
    BY <2>1, <2>2 DEF Effect, Op
  <2>7. Last(proxies[alias]) = [initialized |-> TRUE, admin |-> ProxyAdminAddress]
    BY <2>5, <2>6
  <2>8. QED
    BY <2>3, <2>4, <2>7
<1>8. ASSUME development
      PROVE  /\ proxyAdmin.owner = <<"UpgradeDelegator", delegator.number>>
             /\ delegator.proxyAdmin = proxyAdmin.number
  <2>1. /\ 4 \in Numbers \ {0} /\ {4, 5} \subseteq DOMAIN Program[4]
        /\ Op("initializeDelegator", "UpgradeDelegator") \in Program[4][4]
        /\ Op("transferProxyAdmin", "ProxyAdmin") \in Program[4][5]
    BY <1>8, ProgramIs DEF Numbers, DeployDevelopOnly, DeployUpgradeDelegator
  <2>2. /\ Effect(Op("initializeDelegator", "UpgradeDelegator"))
        /\ Effect(Op("transferProxyAdmin", "ProxyAdmin"))
    BY <1>3, <2>1
  <2>3. QED
    BY <2>2 DEF Effect, Op
<1>9. FinishedIsHandedOver
  BY <1>5, <1>6, <1>7, <1>8 DEF FinishedIsHandedOver
<1>10. QED
  <2>1. /\ \A t \in Tokens : tokens'[t].owner = TheExchange /\ tokens'[t].minters = {TheExchange}
        /\ tokens'["RiskProToken"].pausers = {TheMoC}
    BY <1>2, <1>5, <1>6
  <2>2. \A alias \in Aliases :
           /\ proxies'[alias] # <<>>
           /\ Last(proxies'[alias]) = [initialized |-> TRUE, admin |-> ProxyAdminAddress]
           /\ \A f \in Files : saved'[f][alias] = Len(proxies'[alias])
    BY <1>2, <1>7
  <2>3. TheExchange' = TheExchange /\ TheMoC' = TheMoC /\ ProxyAdminAddress' = ProxyAdminAddress
    BY <1>2 DEF TheExchange, TheMoC, GetProxyAddress, ProxyAdminAddress, fixed, governanceVars
  <2>4. development' => /\ proxyAdmin'.owner = <<"UpgradeDelegator", delegator'.number>>
                        /\ delegator'.proxyAdmin = proxyAdmin'.number
    BY <1>2, <1>8 DEF fixed, governanceVars
  <2>5. QED
    BY <2>1, <2>2, <2>3, <2>4 DEF FinishedIsHandedOver

\* No other step than the last finishes a deployment or disturbs a finished one.
LEMMA FinishedStep == IInv /\ FinishedIsHandedOver /\ [Next]_vars => FinishedIsHandedOver'
<1>1. SUFFICES ASSUME IInv, FinishedIsHandedOver, [Next]_vars, status' = "finished"
               PROVE  FinishedIsHandedOver'
  BY DEF FinishedIsHandedOver
<1>2. CASE Step
  <2>1. CASE CompleteMigration
    BY <1>1, <2>1, CompleteHandsOver
  <2>2. ASSUME NEW op \in NextOps, Advance(op) \/ Revert(op) PROVE FALSE
    BY <1>1, <2>2, AdvanceFacts DEF IInv, Revert
  <2>3. QED
    BY <1>2, <2>1, <2>2 DEF Step, Deploy, DeployToken, DeployProxyAdmin, UpgradeDelegator,
       DeployUpgradable, Initialize, HandOver, SetAdmin, SaveConfig
<1>3. CASE Crash \/ ContinueMigration \/ StartNewMigration
  BY <1>1, <1>3 DEF Crash, ContinueMigration, StartNewMigration
<1>4. CASE UNCHANGED vars
  <2>1. UNCHANGED <<development, proxies, tokens, proxyAdmin, delegator, saved, status>>
    BY <1>4 DEF vars, fixed, governanceVars
  <2>2. TheExchange' = TheExchange /\ TheMoC' = TheMoC /\ ProxyAdminAddress' = ProxyAdminAddress
    BY <2>1 DEF TheExchange, TheMoC, GetProxyAddress, ProxyAdminAddress
  <2>3. QED
    BY <1>1, <2>1, <2>2 DEF FinishedIsHandedOver
<1>5. QED
  BY <1>1, <1>2, <1>3, <1>4 DEF Next

\* The invariant says who can mint.
LEMMA MintableFollows == IInv => TokenAlwaysMintable
<1>1. SUFFICES ASSUME IInv, NEW t \in Tokens \cap deployed
               PROVE  /\ tokens[t].minters # {}
                      /\ tokens[t].minters \subseteq {Deployer, TheExchange}
                      /\ tokens[t].owner \in {Deployer, TheExchange}
  BY DEF TokenAlwaysMintable
<1>2. CASE migration <= 17
  BY <1>1, <1>2 DEF IInv, RolesInv
<1>3. CASE ~(migration <= 17)
  BY <1>1, <1>3 DEF IInv, RolesInv
<1>4. QED
  BY <1>2, <1>3

-----------------------------------------------------------------------------

\* Every state of a deployment satisfies the invariant.
THEOREM Reachable == Spec => []IInv
  BY InitIInv, NextKeeps, PTL DEF Spec

\* The state of the deployment has its type, with as many crashes as are allowed.
THEOREM MigrationsTypeCorrect == Spec => []TypeOK
  BY Reachable, PTL DEF IInv

\* Somebody, and nobody but the deployer and the MoCExchange in use, can mint each token
\* between any two transactions of migrations 5 to 23.
THEOREM TokensStayMintable == Spec => []TokenAlwaysMintable
  BY Reachable, MintableFollows, PTL

\* However often it stopped, a deployment fails nowhere but in migrations 18 to 21.
THEOREM FailuresAreHandOver == Spec => []OnlyHandOverFails
<1>1. Init => OnlyHandOverFails
  BY DEF Init, OnlyHandOverFails
<1>2. QED
  BY <1>1, Reachable, OnlyHandOverFailsStep, PTL DEF Spec

\* A deployment that finished, after any crashes and failures, is governance's.
THEOREM FinishedAlwaysHandedOver == Spec => []FinishedIsHandedOver
<1>1. Init => FinishedIsHandedOver
  BY DEF Init, FinishedIsHandedOver
<1>2. QED
  BY <1>1, Reachable, FinishedStep, PTL DEF Spec

=============================================================================
