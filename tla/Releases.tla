------------------------------- MODULE Releases -------------------------------
(***************************************************************************)
(* A release: its scripts, run in the order of 0_deploy.sh or of its       *)
(* README, by an operator who may restart one that stopped from the first  *)
(* script, from the one that stopped, or from any other.  On networks for  *)
(* development a script has the governor execute the change; elsewhere it  *)
(* only tries it, and the holders of tokens vote on the changer later.     *)
(*                                                                         *)
(* A script reads the configuration when it starts, changes its own copy   *)
(* and writes all of it back.  Contracts are numbered as they are          *)
(* deployed; 0 stands for what the release finds.                          *)
(***************************************************************************)
EXTENDS ReleaseScripts, Integers, FiniteSets

CONSTANTS
    ReleaseNames,  \* the releases to consider
    MaxRestarts,   \* how often the operator goes elsewhere than to the next script
    MaxProposals   \* how often a changer is put to the vote

ASSUME ReleasesAssumption ==
    /\ ReleaseNames \subseteq AllReleases
    /\ MaxRestarts \in Nat /\ MaxProposals \in Nat

VARIABLES
    release,
    executes,     \* shouldExecuteChanges(network)
    script, step, \* the script that runs or is next, and its next step
    running,
    memory,       \* the script's copy of the configuration
    config,       \* deployConfig-network.json
    contracts,    \* the contracts deployed: key, library, whether initialized
    newProxies,   \* the proxies deployed: implementation, whether initialized
    first,        \* the first proxy of each alias in zos's network file
    changers,     \* the changers deployed, with what they will do
    chain,        \* what the proxies of the system run, and its parameters
    verified,     \* the last verification printed no error, and config is the same
    orderly,      \* only restarted at the first script or where it stopped
    proposed,     \* the changer the vote is about
    proposals, restarts, otherUpgrades

scriptVars == <<script, step, running, memory>>
deployedVars == <<contracts, newProxies, first, changers>>
operatorVars == <<orderly, restarts>>
governanceVars == <<proposed, proposals, otherUpgrades>>
vars == <<release, executes, scriptVars, config, deployedVars, chain, verified,
          operatorVars, governanceVars>>

Implementations ==
    {"MoCHelperLib", "MoC", "MoCExchange", "MoCSettlement", "MoCInrate", "MoCState", "MoCVendors",
     "MoCConnector", "Stopper", "CommissionSplitter", "CommissionSplitterV2",
     "CommissionSplitterV3", "MoC_v0116_2", "MoCConnector_v0116_2", "MoCExchange_v0116_2",
     "MoCState_v0116_2", "MoCSettlement_v0116_2", "MoC_Migrator", "MoCExchange_Migrator",
     "Deprecated"}

\* The proxies of the system, and those a release adds.
Proxies == {"MoC", "MoCConnector", "MoCExchange", "MoCState", "MoCSettlement", "MoCInrate",
            "MoCRiskProxManager", "Stopper"}
AddedProxies == {"MoCVendors", "CommissionSplitter", "CommissionSplitterV2",
                 "CommissionSplitterV3"}


\* The seven contracts V2MigrationChanger leaves deprecated.
DeprecatedProxies == Proxies \ {"Stopper"}

\* A changer that, executed again, does the same again.
Repeatable == {"v0.1.11", "v0.1.14", "v0.1.16.1", "v0.1.16.2"}

NoLibrary == -1
Unset == -1

-----------------------------------------------------------------------------
(* A changer: what it records when it is deployed, and what executing it does. *)

\* Mutant: what to put back is what the configuration names.
RecordedFromConfig(c) ==
    [ upgrades   |-> [p \in DOMAIN Upgrades(release) |-> c.impl[Upgrades(release)[p]]],
      before     |-> [p \in Proxies |-> IF p \in DOMAIN c.impl THEN c.impl[p] ELSE 0],
      deprecated |-> c.impl["Deprecated"],
      vendors    |-> c.proxy["MoCVendors"],
      splitter   |-> c.proxy["CommissionSplitter"],
      values     |-> c.values,
      scheduled  |-> TRUE,
      applied    |-> 0,
      upgradesSeen |-> otherUpgrades ]

\* A changer for the configuration c.  StableTokenMigrationChanger reads the current
\* implementations from the chain.
Recorded(c) ==
    [ upgrades   |-> [p \in DOMAIN Upgrades(release) |-> c.impl[Upgrades(release)[p]]],
      before     |-> chain.impl,
      deprecated |-> c.impl["Deprecated"],
      vendors    |-> c.proxy["MoCVendors"],
      splitter   |-> c.proxy["CommissionSplitter"],
      values     |-> c.values,
      scheduled  |-> TRUE,
      applied    |-> 0,
      upgradesSeen |-> otherUpgrades ]

\* Nothing the changer needs is still empty in the configuration.
Complete(c) ==
    /\ \A key \in {Upgrades(release)[p] : p \in DOMAIN Upgrades(release)} : c.impl[key] # 0
    /\ release = "v0.1.12" => c.proxy["MoCVendors"] # 0
    /\ release = "v0.2.0" => c.impl["Deprecated"] # 0

IsDeprecated(p) == chain.impl[p] > 0 /\ contracts[chain.impl[p]].key = "Deprecated"

\* Executing it reverts: a proposal of fees that was executed, a batch of a governor
\* who is one no more, a migration whose contracts are gone.
Reverts(c) ==
    \/ release = "v0.1.15" /\ c.applied > 0
    \/ release = "governor" /\ c.scheduled /\ chain.values # Unset
    \/ release = "v0.2.0" /\ \E p \in {"MoCState", "MoCInrate"} : IsDeprecated(p)

\* What the proxies run once c is executed.
ImplementationsAfter(c) ==
    CASE release = "v0.1.16.2" ->
            [p \in Proxies |-> IF p \in DOMAIN c.upgrades THEN c.before[p] ELSE chain.impl[p]]
      [] release = "v0.2.0" ->
            [p \in Proxies |-> IF p \in DeprecatedProxies THEN c.deprecated ELSE chain.impl[p]]
      [] OTHER ->
            [p \in Proxies |-> IF p \in DOMAIN c.upgrades THEN c.upgrades[p] ELSE chain.impl[p]]

\* A batch whose lists were deleted when it was executed does nothing any more.
Executed(c) ==
    [c EXCEPT !.scheduled = @ /\ release \notin {"v0.1.12", "governor"},
              !.applied = IF c.scheduled /\ release \notin Repeatable THEN @ + 1 ELSE @]

Execute(id) ==
    LET c == changers[id]
    IN  /\ ~Reverts(c)
        /\ IF c.scheduled
           THEN chain' = [ impl |-> ImplementationsAfter(c),
                           splitter |-> IF release = "v0.1.12" THEN c.splitter ELSE chain.splitter,
                           vendors |-> IF release = "v0.1.12" THEN c.vendors ELSE chain.vendors,
                           values |-> IF release \in SetsValues THEN c.values ELSE chain.values ]
           ELSE UNCHANGED chain
        /\ changers' = [changers EXCEPT ![id] = Executed(c)]

-----------------------------------------------------------------------------
(* The checks.                                                              *)

MatchesUpgrades(c) == c.upgrades = Recorded(config).upgrades

MatchesAddresses(c) ==
    release = "v0.1.12" => /\ c.vendors = config.proxy["MoCVendors"]
                           /\ c.splitter = config.proxy["CommissionSplitter"]

MatchesReplaced(c) ==
    release = "v0.1.16.2" => \A p \in DOMAIN c.upgrades : c.before[p] = config.impl[p]

MatchesValues(c) == release \in SetsValues => c.values = config.values

\* Mutant: the values are not compared.
MatchesAllButValues(c) == MatchesUpgrades(c) /\ MatchesAddresses(c) /\ MatchesReplaced(c)

\* The changer of the configuration is what the configuration would make now.
MatchesConfig(c) ==
    MatchesUpgrades(c) /\ MatchesAddresses(c) /\ MatchesReplaced(c) /\ MatchesValues(c)

-----------------------------------------------------------------------------
(* The steps of the script that runs.                                       *)

AtStep(op) == running /\ op = Scripts(release)[script][step]
InConfig == changers[config.changer]

Succeeds(op) ==
    /\ op.kind # "throw"
    /\ op.kind \in {"newChanger", "schedule"} => Complete(memory)
    /\ ~(op.kind = "newChanger" /\ release = "v0.2.0" /\ IsDeprecated("MoC"))
    /\ op.kind \in {"verify", "verifyBatch"} => config.changer # 0
    /\ op.kind = "verifyBatch" => InConfig.scheduled
    /\ op.kind = "execute" => ~Reverts(InConfig)
    /\ ~(op.kind = "executeVerified" /\ verified /\ Reverts(InConfig))
    /\ op.kind = "executeOrThrow" => executes /\ ~Reverts(InConfig)
    /\ op.kind = "initialize" => ~newProxies[first[op.name]].initialized
    /\ op.kind = "split" => config.proxy[op.name] # 0
    /\ op.kind = "initImplementation" =>
          config.impl[op.name] # 0 /\ ~contracts[config.impl[op.name]].initialized

\* The step is done and leaves the script with copy m; 0_deploy.sh goes on to the next
\* script, which reads the configuration again.
Advance(op, m) ==
    /\ AtStep(op) /\ Succeeds(op)
    /\ IF step < Len(Scripts(release)[script])
       THEN step' = step + 1 /\ memory' = m /\ UNCHANGED <<script, running>>
       ELSE /\ script' = script + 1 /\ step' = 1 /\ memory' = config'
            /\ running' = (script < Len(Scripts(release)))
    /\ UNCHANGED <<release, executes, operatorVars, governanceVars>>

NextContract == Len(contracts) + 1

Deploy(op) ==
    /\ op.kind \in {"new", "newLinked"}
    /\ contracts' = Append(contracts,
          [key |-> op.name, initialized |-> FALSE,
           library |-> IF op.kind = "newLinked" THEN memory.impl["MoCHelperLib"] ELSE NoLibrary])
    /\ UNCHANGED <<config, newProxies, first, changers, chain, verified>>
    /\ Advance(op, [memory EXCEPT !.impl[op.name] = NextContract])

\* The whole copy is written over the file.
SaveConfig(op) ==
    /\ op.kind = "save"
    /\ config' = memory /\ verified' = FALSE
    /\ UNCHANGED <<deployedVars, chain>>
    /\ Advance(op, memory)

DeployProxy(op) ==
    /\ op.kind = "newProxy"
    /\ newProxies' = Append(newProxies, [impl |-> memory.impl[op.name], initialized |-> TRUE])
    /\ UNCHANGED <<config, contracts, first, changers, chain, verified>>
    /\ Advance(op, [memory EXCEPT !.proxy[op.name] = Len(newProxies) + 1])

\* The initialize that deployProxyContract builds is never sent.
CreateSplitter(op) ==
    /\ op.kind = "create"
    /\ contracts' = Append(contracts,
                           [key |-> op.name, initialized |-> FALSE, library |-> NoLibrary])
    /\ newProxies' = Append(newProxies, [impl |-> NextContract, initialized |-> FALSE])
    /\ first' = [first EXCEPT ![op.name] = IF @ = 0 THEN Len(newProxies) + 1 ELSE @]
    /\ UNCHANGED <<config, changers, chain, verified>>
    /\ Advance(op, memory)

\* The script initializes the first proxy of the file, not the one it created.
InitializeSplitter(op) ==
    /\ op.kind = "initialize"
    /\ newProxies' = [newProxies EXCEPT ![first[op.name]].initialized = TRUE]
    /\ UNCHANGED <<config, contracts, first, changers, chain, verified>>
    /\ Advance(op, memory)

\* Mutant: the address saved is that of the proxy created, not of the one initialized.
SaveLastSplitter(op) ==
    /\ op.kind = "saveProxy"
    /\ config' = [memory EXCEPT !.impl[op.name] = newProxies[Len(newProxies)].impl,
                                !.proxy[op.name] = Len(newProxies)]
    /\ verified' = FALSE
    /\ UNCHANGED <<deployedVars, chain>>
    /\ Advance(op, memory)

SaveSplitter(op) ==
    /\ op.kind = "saveProxy"
    /\ config' = [memory EXCEPT !.impl[op.name] = newProxies[first[op.name]].impl,
                                !.proxy[op.name] = first[op.name]]
    /\ verified' = FALSE
    /\ UNCHANGED <<deployedVars, chain>>
    /\ Advance(op, memory)

DeployChanger(op) ==
    /\ op.kind \in {"newChanger", "newBatch"}
    /\ changers' = Append(changers,
          IF op.kind = "newBatch" THEN [Recorded(memory) EXCEPT !.scheduled = FALSE]
                                  ELSE Recorded(memory))
    /\ UNCHANGED <<config, contracts, newProxies, first, chain, verified>>
    /\ Advance(op, [memory EXCEPT !.changer = Len(changers) + 1])

ScheduleBatch(op) ==
    /\ op.kind = "schedule"
    /\ changers' = [changers EXCEPT ![memory.changer] = Recorded(memory)]
    /\ UNCHANGED <<config, contracts, newProxies, first, chain, verified>>
    /\ Advance(op, memory)

\* The governor executes the change, or the script only tries it.
ExecuteChange(op) ==
    /\ \/ op.kind \in {"execute", "executeOrThrow"}
       \/ op.kind = "executeVerified" /\ verified
    /\ IF executes THEN Execute(config.changer) ELSE UNCHANGED <<chain, changers>>
    /\ UNCHANGED <<config, contracts, newProxies, first, verified>>
    /\ Advance(op, memory)

\* A verification prints what differs, and fails only where there is nothing to read.
Verify(op) ==
    /\ op.kind \in {"verify", "verifyBatch"}
    /\ Succeeds(op)
    /\ verified' = MatchesConfig(InConfig)
    /\ UNCHANGED <<config, deployedVars, chain>>
    /\ Advance(op, memory)

InitImplementation(op) ==
    /\ op.kind = "initImplementation" /\ Succeeds(op)
    /\ contracts' = [contracts EXCEPT ![config.impl[op.name]].initialized = TRUE]
    /\ UNCHANGED <<config, newProxies, first, changers, chain, verified>>
    /\ Advance(op, memory)

\* What changes nothing of the state here.  A batch that differs is not executed, and
\* the script ends as if it had been.
OnlyPrint(op) ==
    /\ \/ op.kind \in {"print", "split"}
       \/ op.kind = "executeVerified" /\ ~verified
    /\ UNCHANGED <<config, deployedVars, chain, verified>>
    /\ Advance(op, memory)

\* The script throws, and 0_deploy.sh exits.
Fail(op) ==
    /\ AtStep(op) /\ ~Succeeds(op)
    /\ running' = FALSE /\ step' = 1 /\ memory' = config
    /\ UNCHANGED <<release, executes, script, config, deployedVars, chain, verified,
                   operatorVars, governanceVars>>

RunStep ==
    /\ running
    /\ LET op == Scripts(release)[script][step]
       IN  \/ Deploy(op) \/ SaveConfig(op) \/ DeployProxy(op) \/ CreateSplitter(op)
           \/ InitializeSplitter(op) \/ SaveSplitter(op) \/ DeployChanger(op)
           \/ ScheduleBatch(op) \/ ExecuteChange(op) \/ Verify(op) \/ InitImplementation(op)
           \/ OnlyPrint(op) \/ Fail(op)

-----------------------------------------------------------------------------
(* The operator and governance.                                             *)

\* The process stops: it dies, loses its node, or is interrupted between two scripts.
Crash ==
    /\ running /\ restarts < MaxRestarts
    /\ running' = FALSE /\ step' = 1 /\ memory' = config
    /\ UNCHANGED <<release, executes, script, config, deployedVars, chain, verified,
                   operatorVars, governanceVars>>

\* Any script may be run again, or first.
Restart(i) ==
    /\ ~running /\ restarts < MaxRestarts
    /\ restarts' = restarts + 1
    /\ script' = i /\ step' = 1 /\ running' = TRUE /\ memory' = config
    /\ orderly' = (orderly /\ i \in {1, script})
    /\ UNCHANGED <<release, executes, config, deployedVars, chain, verified, governanceVars>>

\* The values of the configuration are edited by hand after a changer has them.
EditConfig ==
    /\ release \in SetsValues /\ ~running /\ config.changer # 0 /\ config.values = 0
    /\ config' = [config EXCEPT !.values = 1]
    /\ memory' = config' /\ verified' = FALSE /\ orderly' = FALSE
    /\ UNCHANGED <<release, executes, script, step, running, deployedVars, chain, restarts,
                   governanceVars>>

\* The changer of the configuration is put to the vote where scripts execute nothing.
Propose ==
    /\ ~executes /\ config.changer # 0 /\ proposed = 0 /\ proposals < MaxProposals
    /\ proposed' = config.changer /\ proposals' = proposals + 1
    /\ UNCHANGED <<release, executes, scriptVars, config, deployedVars, chain, verified,
                   operatorVars, otherUpgrades>>

GovernanceExecutes ==
    /\ proposed # 0 /\ Execute(proposed)
    /\ proposed' = 0
    /\ UNCHANGED <<release, executes, scriptVars, config, contracts, newProxies, first, verified,
                   operatorVars, proposals, otherUpgrades>>

\* Another release upgrades a contract meanwhile.
OtherUpgrade ==
    /\ otherUpgrades = 0 /\ ~executes /\ release = "v0.1.16.2"
    /\ contracts' = Append(contracts, [key |-> "MoC", initialized |-> FALSE, library |-> NoLibrary])
    /\ chain' = [chain EXCEPT !.impl["MoC"] = NextContract]
    /\ otherUpgrades' = 1 /\ verified' = FALSE
    /\ UNCHANGED <<release, executes, scriptVars, config, newProxies, first, changers,
                   operatorVars, proposed, proposals>>

Init ==
    /\ release \in ReleaseNames /\ executes \in BOOLEAN
    /\ script = 1 /\ step = 1 /\ running = TRUE
    /\ config = [impl |-> [n \in Implementations |-> 0], proxy |-> [n \in AddedProxies |-> 0],
                 changer |-> 0, values |-> 0]
    /\ memory = config
    /\ contracts = <<>> /\ newProxies = <<>> /\ changers = <<>>
    /\ first = [n \in AddedProxies |-> 0]
    /\ chain = [impl |-> [p \in Proxies |-> 0], splitter |-> 0, vendors |-> 0, values |-> Unset]
    /\ verified = FALSE /\ orderly = TRUE
    /\ proposed = 0 /\ proposals = 0 /\ restarts = 0 /\ otherUpgrades = 0

Next ==
    \/ RunStep \/ Crash \/ EditConfig \/ Propose \/ GovernanceExecutes \/ OtherUpgrade
    \/ \E i \in 1 .. Len(Scripts(release)) : Restart(i)

Spec == Init /\ [][Next]_vars

-----------------------------------------------------------------------------

\* The proxies run what the configuration names, with the parameters it gives.
Configured(ch) ==
    /\ \A p \in DOMAIN Upgrades(release) : ch.impl[p] = config.impl[Upgrades(release)[p]]
    /\ release = "v0.1.12" =>
          /\ ch.splitter = config.proxy["CommissionSplitter"]
          /\ ch.vendors = config.proxy["MoCVendors"]
    /\ release \in SetsValues => ch.values = config.values

\* Whatever the operator repeated, skipped or edited before, a change that a script
\* executes, or that is voted through when the last verification of it printed no error,
\* leaves the system as the configuration says.
ExecutedIsConfigured ==
    [][ /\ chain' # chain /\ otherUpgrades' = otherUpgrades
        /\ release \notin {"v0.1.16.2", "v0.2.0"}
        /\ proposed' = proposed \/ (verified /\ proposed = config.changer)
        => Configured(chain') ]_vars

\* A release that ran all its scripts in order, restarted at most where it stopped or at
\* the beginning, on a network where they execute the change, has upgraded the system to
\* what it deployed last, although a verification that differs does not stop it.
FinishedIsConfigured ==
    /\ orderly /\ executes /\ script = Len(Scripts(release)) + 1
    /\ release \in {"v0.1.11", "v0.1.12", "v0.1.14", "v0.1.16.1"}
    => Configured(chain)

\* The contracts that one batch of v0.1.12 installs were linked to one library, however
\* often the scripts that deploy it and them were run again in order.
OneLibrary ==
    release = "v0.1.12" /\ orderly =>
        \A i \in DOMAIN changers : changers[i].scheduled =>
            LET c == changers[i]
                linked == {c.upgrades[p] : p \in DOMAIN c.upgrades \ {"MoCSettlement"}}
                          \cup {newProxies[c.vendors].impl}
            IN  Cardinality({contracts[i2].library : i2 \in linked}) = 1

\* A splitter in the configuration is initialized, although the proxy the script creates,
\* the one it initializes and the one it saves need not be the same.
SplitterInConfigIsInitialized ==
    \A n \in {"CommissionSplitterV2", "CommissionSplitterV3"} :
        config.proxy[n] # 0 => newProxies[config.proxy[n]].initialized

\* The migration of the tokens, executed any number of times, leaves every proxy on the
\* implementation it had, unless another release upgraded one after a changer of this
\* one was deployed: that changer undoes the upgrade.
RestoresImplementations ==
    [][ /\ release = "v0.1.16.2" /\ otherUpgrades' = otherUpgrades
        /\ chain'.impl # chain.impl
        => \E i \in DOMAIN changers : changers[i].upgradesSeen < otherUpgrades ]_vars

\* In order, nothing fails for want of what an earlier script should have deployed or
\* saved.  What does fail is what a crash left initialized, the last scripts of v0.2.0,
\* v0.1.16.2 where nothing is executed, reading a batch that was executed already, and a
\* second change of the governor.
OnlyTheseFail ==
    running /\ orderly =>
        LET op == Scripts(release)[script][step]
        IN  \/ Succeeds(op)
            \/ op.kind \in {"initialize", "initImplementation", "executeOrThrow", "throw"}
            \/ op.kind = "verifyBatch" /\ InConfig.applied > 0
            \/ release = "governor" /\ op.kind = "execute"
            \/ release = "v0.2.0" /\ op.kind = "newChanger"

=============================================================================
