---------------------------- MODULE ReleaseScripts ----------------------------
(***************************************************************************)
(* The scripts of every release under scripts/deploy, one definition per   *)
(* file, as the sequence of what each does in order: transactions, writes  *)
(* of the configuration file, calls of the governor, and checks.           *)
(*                                                                         *)
(* An implementation is named by its key in the configuration; its linked  *)
(* variant reads the library's address from there.  What a script only     *)
(* prints is "print"; the arguments of constructors and initializers are   *)
(* the single number `values' of the configuration (module Releases).      *)
(***************************************************************************)
EXTENDS Sequences

Do(kind, name) == [kind |-> kind, name |-> name]

\* Deploys an implementation and saves its address.
Implementation(name) == <<Do("new", name), Do("save", name)>>
LinkedImplementation(name) == <<Do("newLinked", name), Do("save", name)>>

\* Then a proxy over it, and saves that.
ImplementationAndProxy(kind, name) ==
    <<Do(kind, name), Do("save", name), Do("newProxy", name), Do("save", name)>>

\* Deploys a changer, saves it, and has it executed, or tried, by the governor.
Changer(name) == <<Do("newChanger", name), Do("save", name), Do("execute", name)>>
Batch ==
    <<Do("newBatch", "BatchChanger"), Do("save", "BatchChanger"), Do("schedule", "BatchChanger")>>

\* deployProxyContract of helper.js: add, push, create and setAdmin of zos.
DeployProxyContract(name) == Do("create", name)
ZosSplitter(name) ==
    <<DeployProxyContract(name), Do("initialize", name), Do("saveProxy", name)>>

-----------------------------------------------------------------------------
(* v0.1.11: an implementation and its changer, saved together.             *)
V11DeployMoCExchange ==
    <<Do("newLinked", "MoCExchange"), Do("newChanger", "UpgraderChanger"),
      Do("save", "MoCExchange"), Do("execute", "UpgraderChanger")>>
V11CheckDeploy == <<Do("print", "MoCExchange")>>

(* v0.1.12: the library, everything linked to it, and a batch of 24 changes. *)
V12DeployMoCLib == Implementation("MoCHelperLib")
V12DeployMoCVendors == ImplementationAndProxy("newLinked", "MoCVendors")
V12DeployMoC == LinkedImplementation("MoC")
V12DeployMoCExchange == LinkedImplementation("MoCExchange")
V12DeployMoCSettlement == Implementation("MoCSettlement")
V12DeployCommissionSplitter == ImplementationAndProxy("new", "CommissionSplitter")
V12DeployMoCInrate == LinkedImplementation("MoCInrate")
V12DeployMoCState == LinkedImplementation("MoCState")
V12BatchChanger == Batch
V12VerificationChanger ==
    <<Do("verifyBatch", "BatchChanger"), Do("executeVerified", "BatchChanger")>>
V12CheckDeploy == <<Do("print", "MoCExchange")>>

(* v0.1.14 *)
V14DeployMoC == LinkedImplementation("MoC")
V14DeployChanger == Changer("UpgraderChanger")
V14VerificationChanger == <<Do("verify", "UpgraderChanger")>>

(* v0.1.15: two splitters through zos, and a proposal voted on elsewhere.  *)
V15DeployCommissionSplitterV2 == ZosSplitter("CommissionSplitterV2")
V15TestCommissionSplitterV2 == <<Do("print", "CommissionSplitterV2")>>
V15SplitCommissionSplitterV2 == <<Do("split", "CommissionSplitterV2")>>
V15DeployCommissionSplitterV3 == ZosSplitter("CommissionSplitterV3")
V15TestCommissionSplitterV3 == <<Do("print", "CommissionSplitterV3")>>
V15SplitCommissionSplitterV3 == <<Do("split", "CommissionSplitterV3")>>
V15DeployFeeIncreaseProposal ==
    <<Do("newChanger", "FeeIncreaseProposal"), Do("save", "FeeIncreaseProposal")>>
V15TestFeeIncreaseProposal == <<Do("verify", "FeeIncreaseProposal")>>
V15TestMoCInrate == <<Do("print", "MoCInrate")>>

(* v0.1.16 *)
V16DeployMoC == Implementation("MoC")

(* v0.1.16.1: the flux capacitor.  The last two are run by hand.           *)
V161DeployMoC == Implementation("MoC")
V161DeployMoCExchange == LinkedImplementation("MoCExchange")
V161DeployStopper == Implementation("Stopper")
V161DeployChanger == Changer("FluxCapacitorChanger")
V161VerificationChanger == <<Do("verify", "FluxCapacitorChanger")>>
V161InitImplementations ==
    <<Do("initImplementation", "MoC"), Do("initImplementation", "MoCExchange"),
      Do("initImplementation", "Stopper")>>
V161VerificationFluxCapacitor == <<Do("print", "MoCExchange")>>

(* v0.1.16.2: implementations that live for one transaction.               *)
V162DeployMoC == Implementation("MoC_v0116_2")
V162DeployMoCConnector == Implementation("MoCConnector_v0116_2")
V162DeployMoCExchange == LinkedImplementation("MoCExchange_v0116_2")
V162DeployMoCState == LinkedImplementation("MoCState_v0116_2")
V162DeployMoCSettlement == Implementation("MoCSettlement_v0116_2")
\* Where the change is only tried, the script asks for the changer by a key that
\* nothing sets.
V162DeployChanger ==
    <<Do("newChanger", "StableTokenMigrationChanger"), Do("save", "StableTokenMigrationChanger"),
      Do("executeOrThrow", "StableTokenMigrationChanger")>>
V162VerificationTokens == <<Do("verify", "StableTokenMigrationChanger")>>

(* v0.2.0: the migration to the second version of the protocol.            *)
V2DeployMoC == Implementation("MoC_Migrator")
V2DeployMoCExchange == LinkedImplementation("MoCExchange_Migrator")
V2DeployDeprecated == Implementation("Deprecated")
V2DeployChanger ==
    <<Do("newChanger", "V2MigrationChanger"), Do("save", "V2MigrationChanger"),
      Do("executeOrThrow", "V2MigrationChanger")>>
\* It calls commissionSplitter(), which the changer does not have.
V2VerificationChanger == <<Do("throw", "V2MigrationChanger")>>

(* changer_change_governor: a batch of seven changeIGovernor.              *)
GovernorBatchChanger ==
    <<Do("newBatch", "BatchChanger"), Do("save", "BatchChanger"), Do("schedule", "BatchChanger"),
      Do("execute", "BatchChanger")>>
GovernorVerificationChanger == <<Do("verifyBatch", "BatchChanger")>>

-----------------------------------------------------------------------------
(* The order of each 0_deploy.sh, followed by what a README has run by hand. *)

\* Mutant: the batch is scheduled before the splitter it names is deployed.
V12SplitterLate ==
    <<V12DeployMoCLib, V12DeployMoCVendors, V12DeployMoC, V12DeployMoCExchange,
      V12DeployMoCSettlement, V12DeployMoCInrate, V12DeployMoCState, V12BatchChanger,
      V12DeployCommissionSplitter, V12VerificationChanger, V12CheckDeploy>>

\* Mutant: the batch is scheduled before an implementation it names is deployed.
V12StateLate ==
    <<V12DeployMoCLib, V12DeployMoCVendors, V12DeployMoC, V12DeployMoCExchange,
      V12DeployMoCSettlement, V12DeployCommissionSplitter, V12DeployMoCInrate,
      V12BatchChanger, V12DeployMoCState, V12VerificationChanger, V12CheckDeploy>>

\* Mutant: the library is deployed after a contract that is linked to it.
V12LibraryLate ==
    <<V12DeployMoCVendors, V12DeployMoC, V12DeployMoCLib, V12DeployMoCExchange,
      V12DeployMoCSettlement, V12DeployCommissionSplitter, V12DeployMoCInrate,
      V12DeployMoCState, V12BatchChanger, V12VerificationChanger, V12CheckDeploy>>

V12Scripts ==
    <<V12DeployMoCLib, V12DeployMoCVendors, V12DeployMoC, V12DeployMoCExchange,
      V12DeployMoCSettlement, V12DeployCommissionSplitter, V12DeployMoCInrate,
      V12DeployMoCState, V12BatchChanger, V12VerificationChanger, V12CheckDeploy>>

AllReleases == {"v0.1.11", "v0.1.12", "v0.1.14", "v0.1.15", "v0.1.16", "v0.1.16.1",
                "v0.1.16.2", "v0.2.0", "governor"}

Scripts(r) ==
    CASE r = "v0.1.11" -> <<V11DeployMoCExchange, V11CheckDeploy>>
      [] r = "v0.1.12" -> V12Scripts
      [] r = "v0.1.14" -> <<V14DeployMoC, V14DeployChanger, V14VerificationChanger>>
      [] r = "v0.1.15" -> <<V15DeployCommissionSplitterV2, V15TestCommissionSplitterV2,
                            V15SplitCommissionSplitterV2, V15DeployCommissionSplitterV3,
                            V15TestCommissionSplitterV3, V15SplitCommissionSplitterV3,
                            V15DeployFeeIncreaseProposal, V15TestFeeIncreaseProposal,
                            V15TestMoCInrate>>
      [] r = "v0.1.16" -> <<V16DeployMoC>>
      [] r = "v0.1.16.1" -> <<V161DeployMoC, V161DeployMoCExchange, V161DeployStopper,
                              V161DeployChanger, V161VerificationChanger,
                              V161InitImplementations, V161VerificationFluxCapacitor>>
      [] r = "v0.1.16.2" -> <<V162DeployMoC, V162DeployMoCConnector, V162DeployMoCExchange,
                              V162DeployMoCState, V162DeployMoCSettlement, V162DeployChanger,
                              V162VerificationTokens>>
      [] r = "v0.2.0" -> <<V2DeployMoC, V2DeployMoCExchange, V2DeployDeprecated,
                           V2DeployChanger, V2VerificationChanger>>
      [] r = "governor" -> <<GovernorBatchChanger, GovernorVerificationChanger>>

\* Which proxies the changer of a release upgrades, and to which key.
Upgrades(r) ==
    CASE r = "v0.1.11" -> [MoCExchange |-> "MoCExchange"]
      [] r = "v0.1.12" -> [p \in {"MoC", "MoCExchange", "MoCSettlement", "MoCInrate", "MoCState"} |-> p]
      [] r = "v0.1.14" -> [MoC |-> "MoC"]
      [] r = "v0.1.16.1" -> [p \in {"MoC", "MoCExchange", "Stopper"} |-> p]
      [] r = "v0.1.16.2" -> [MoC |-> "MoC_v0116_2", MoCConnector |-> "MoCConnector_v0116_2",
                             MoCExchange |-> "MoCExchange_v0116_2", MoCState |-> "MoCState_v0116_2",
                             MoCSettlement |-> "MoCSettlement_v0116_2"]
      [] r = "v0.2.0" -> [MoC |-> "MoC_Migrator", MoCExchange |-> "MoCExchange_Migrator"]
      [] OTHER -> [p \in {} |-> p]

\* The releases whose changer writes parameters too.
SetsValues == {"v0.1.12", "v0.1.15", "v0.1.16.1", "governor"}

=============================================================================
