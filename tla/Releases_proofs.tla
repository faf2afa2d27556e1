--------------------------- MODULE Releases_proofs ---------------------------
(***************************************************************************)
(* Proofs about Releases for any number of restarts and votes.             *)
(***************************************************************************)
EXTENDS Releases, FiniteSetTheorems, SequenceTheorems, TLAPS

(* ---------------------------------------------------------------------- *)
(* The scripts as data.                                                   *)

\* What comes right before some of the steps of a script, and what they are about.
WellFormed(s) ==
    /\ Len(s) \in Nat \ {0}
    /\ \A k \in 1 .. Len(s) :
        /\ s[k].kind \in {"new", "newLinked", "newProxy", "create", "initialize", "saveProxy"} =>
              s[k].name \in Implementations
        /\ s[k].kind \in {"newProxy", "create", "initialize", "saveProxy"} =>
              s[k].name \in AddedProxies
        /\ s[k].kind = "saveProxy" => k > 1 /\ s[k - 1] = Do("initialize", s[k].name)
        /\ s[k].kind = "initialize" => k > 1 /\ s[k - 1] = Do("create", s[k].name)
        /\ s[k].kind = "schedule" =>
              k > 2 /\ s[k - 1].kind = "save" /\ s[k - 2].kind = "newBatch"
        /\ s[k].kind \in {"execute", "executeOrThrow"} =>
              \/ k > 1 /\ s[k - 1].kind = "schedule"
              \/ k > 2 /\ s[k - 1].kind = "save" /\ s[k - 2].kind = "newChanger"
        /\ s[k].kind \in {"new", "newLinked", "newProxy", "newChanger", "newBatch"} =>
              \/ k + 1 <= Len(s) /\ s[k + 1].kind = "save"
              \/ k + 2 <= Len(s) /\ s[k + 2].kind = "save"
        /\ s[k].kind = "saveProxy" => k = Len(s)

LEMMA ShapesWellFormed ==
    ASSUME NEW n
    PROVE  /\ n \in Implementations => /\ WellFormed(Implementation(n))
                                       /\ WellFormed(LinkedImplementation(n))
           /\ n \in Implementations \cap AddedProxies =>
                 /\ WellFormed(ImplementationAndProxy("new", n))
                 /\ WellFormed(ImplementationAndProxy("newLinked", n))
                 /\ WellFormed(ZosSplitter(n))
           /\ WellFormed(Changer(n))
           /\ WellFormed(Batch)
           /\ \A kind \in {"print", "split", "verify", "verifyBatch", "throw"} :
                 WellFormed(<<Do(kind, n)>>)
<1>1. ASSUME n \in Implementations
      PROVE  WellFormed(Implementation(n)) /\ WellFormed(LinkedImplementation(n))
  BY <1>1 DEF WellFormed, Implementation, LinkedImplementation, Do
<1>2. ASSUME n \in Implementations, n \in AddedProxies
      PROVE  WellFormed(ImplementationAndProxy("new", n))
  BY <1>2 DEF WellFormed, ImplementationAndProxy, Do
<1>3. ASSUME n \in Implementations, n \in AddedProxies
      PROVE  WellFormed(ImplementationAndProxy("newLinked", n))
  BY <1>3 DEF WellFormed, ImplementationAndProxy, Do
<1>4. ASSUME n \in Implementations, n \in AddedProxies PROVE WellFormed(ZosSplitter(n))
  BY <1>4 DEF WellFormed, ZosSplitter, DeployProxyContract, Do
<1>5. WellFormed(Changer(n))
  BY DEF WellFormed, Changer, Do
<1>6. WellFormed(Batch)
  BY DEF WellFormed, Batch, Do
<1>7. \A kind \in {"print", "split", "verify", "verifyBatch", "throw"} :
                 WellFormed(<<Do(kind, n)>>)
  BY DEF WellFormed, Do
<1>. QED
  BY <1>1, <1>2, <1>3, <1>4, <1>5, <1>6, <1>7

\* The scripts of the nine releases.
LEMMA V11ScriptsOf ==
    /\ Len(Scripts("v0.1.11")) = 2
    /\ Scripts("v0.1.11")[1] = V11DeployMoCExchange
    /\ Scripts("v0.1.11")[2] = V11CheckDeploy
  BY DEF Scripts

LEMMA V12ScriptsOf ==
    /\ Len(Scripts("v0.1.12")) = 11
    /\ Scripts("v0.1.12")[1] = V12DeployMoCLib
    /\ Scripts("v0.1.12")[2] = V12DeployMoCVendors
    /\ Scripts("v0.1.12")[3] = V12DeployMoC
    /\ Scripts("v0.1.12")[4] = V12DeployMoCExchange
    /\ Scripts("v0.1.12")[5] = V12DeployMoCSettlement
    /\ Scripts("v0.1.12")[6] = V12DeployCommissionSplitter
    /\ Scripts("v0.1.12")[7] = V12DeployMoCInrate
    /\ Scripts("v0.1.12")[8] = V12DeployMoCState
    /\ Scripts("v0.1.12")[9] = V12BatchChanger
    /\ Scripts("v0.1.12")[10] = V12VerificationChanger
    /\ Scripts("v0.1.12")[11] = V12CheckDeploy
  BY DEF Scripts, V12Scripts

LEMMA V14ScriptsOf ==
    /\ Len(Scripts("v0.1.14")) = 3
    /\ Scripts("v0.1.14")[1] = V14DeployMoC
    /\ Scripts("v0.1.14")[2] = V14DeployChanger
    /\ Scripts("v0.1.14")[3] = V14VerificationChanger
  BY DEF Scripts

LEMMA V15ScriptsOf ==
    /\ Len(Scripts("v0.1.15")) = 9
    /\ Scripts("v0.1.15")[1] = V15DeployCommissionSplitterV2
    /\ Scripts("v0.1.15")[2] = V15TestCommissionSplitterV2
    /\ Scripts("v0.1.15")[3] = V15SplitCommissionSplitterV2
    /\ Scripts("v0.1.15")[4] = V15DeployCommissionSplitterV3
    /\ Scripts("v0.1.15")[5] = V15TestCommissionSplitterV3
    /\ Scripts("v0.1.15")[6] = V15SplitCommissionSplitterV3
    /\ Scripts("v0.1.15")[7] = V15DeployFeeIncreaseProposal
    /\ Scripts("v0.1.15")[8] = V15TestFeeIncreaseProposal
    /\ Scripts("v0.1.15")[9] = V15TestMoCInrate
  BY DEF Scripts

LEMMA V16ScriptsOf ==
    /\ Len(Scripts("v0.1.16")) = 1
    /\ Scripts("v0.1.16")[1] = V16DeployMoC
  BY DEF Scripts

LEMMA V161ScriptsOf ==
    /\ Len(Scripts("v0.1.16.1")) = 7
    /\ Scripts("v0.1.16.1")[1] = V161DeployMoC
    /\ Scripts("v0.1.16.1")[2] = V161DeployMoCExchange
    /\ Scripts("v0.1.16.1")[3] = V161DeployStopper
    /\ Scripts("v0.1.16.1")[4] = V161DeployChanger
    /\ Scripts("v0.1.16.1")[5] = V161VerificationChanger
    /\ Scripts("v0.1.16.1")[6] = V161InitImplementations
    /\ Scripts("v0.1.16.1")[7] = V161VerificationFluxCapacitor
  BY DEF Scripts

LEMMA V162ScriptsOf ==
    /\ Len(Scripts("v0.1.16.2")) = 7
    /\ Scripts("v0.1.16.2")[1] = V162DeployMoC
    /\ Scripts("v0.1.16.2")[2] = V162DeployMoCConnector
    /\ Scripts("v0.1.16.2")[3] = V162DeployMoCExchange
    /\ Scripts("v0.1.16.2")[4] = V162DeployMoCState
    /\ Scripts("v0.1.16.2")[5] = V162DeployMoCSettlement
    /\ Scripts("v0.1.16.2")[6] = V162DeployChanger
    /\ Scripts("v0.1.16.2")[7] = V162VerificationTokens
  BY DEF Scripts

LEMMA V2ScriptsOf ==
    /\ Len(Scripts("v0.2.0")) = 5
    /\ Scripts("v0.2.0")[1] = V2DeployMoC
    /\ Scripts("v0.2.0")[2] = V2DeployMoCExchange
    /\ Scripts("v0.2.0")[3] = V2DeployDeprecated
    /\ Scripts("v0.2.0")[4] = V2DeployChanger
    /\ Scripts("v0.2.0")[5] = V2VerificationChanger
  BY DEF Scripts

LEMMA GovernorScriptsOf ==
    /\ Len(Scripts("governor")) = 2
    /\ Scripts("governor")[1] = GovernorBatchChanger
    /\ Scripts("governor")[2] = GovernorVerificationChanger
  BY DEF Scripts

LEMMA AllWellFormed ==
    ASSUME NEW r \in AllReleases, NEW i \in 1 .. Len(Scripts(r))
    PROVE  WellFormed(Scripts(r)[i])
<1>1. CASE r = "v0.1.11"
  <2>1. WellFormed(V11DeployMoCExchange)
    BY DEF V11DeployMoCExchange, WellFormed, Do, Implementations
  <2>2. /\ WellFormed(V11CheckDeploy)
    BY ShapesWellFormed DEF V11CheckDeploy, Implementations
  <2>3. i \in 1 .. 2
    BY <1>1, V11ScriptsOf
  <2>. QED
    BY <1>1, V11ScriptsOf, <2>1, <2>2, <2>3
<1>2. CASE r = "v0.1.12"
  <2>1. WellFormed(V12VerificationChanger)
    BY DEF V12VerificationChanger, WellFormed, Do
  <2>2. /\ WellFormed(V12DeployMoCLib)
        /\ WellFormed(V12DeployMoCVendors)
        /\ WellFormed(V12DeployMoC)
        /\ WellFormed(V12DeployMoCExchange)
        /\ WellFormed(V12DeployMoCSettlement)
        /\ WellFormed(V12DeployCommissionSplitter)
        /\ WellFormed(V12DeployMoCInrate)
        /\ WellFormed(V12DeployMoCState)
        /\ WellFormed(V12BatchChanger)
        /\ WellFormed(V12CheckDeploy)
    BY ShapesWellFormed DEF V12DeployMoCLib, V12DeployMoCVendors, V12DeployMoC,
       V12DeployMoCExchange, V12DeployMoCSettlement, V12DeployCommissionSplitter,
       V12DeployMoCInrate, V12DeployMoCState, V12BatchChanger, V12CheckDeploy, Implementations,
       AddedProxies
  <2>3. i \in 1 .. 11
    BY <1>2, V12ScriptsOf
  <2>. QED
    BY <1>2, V12ScriptsOf, <2>1, <2>2, <2>3
<1>3. CASE r = "v0.1.14"
  <2>1. /\ WellFormed(V14DeployMoC)
        /\ WellFormed(V14DeployChanger)
        /\ WellFormed(V14VerificationChanger)
    BY ShapesWellFormed DEF V14DeployMoC, V14DeployChanger, V14VerificationChanger,
       Implementations
  <2>2. i \in 1 .. 3
    BY <1>3, V14ScriptsOf
  <2>. QED
    BY <1>3, V14ScriptsOf, <2>1, <2>2
<1>4. CASE r = "v0.1.15"
  <2>1. WellFormed(V15DeployFeeIncreaseProposal)
    BY DEF V15DeployFeeIncreaseProposal, WellFormed, Do
  <2>2. /\ WellFormed(V15DeployCommissionSplitterV2)
        /\ WellFormed(V15TestCommissionSplitterV2)
        /\ WellFormed(V15SplitCommissionSplitterV2)
        /\ WellFormed(V15DeployCommissionSplitterV3)
        /\ WellFormed(V15TestCommissionSplitterV3)
        /\ WellFormed(V15SplitCommissionSplitterV3)
        /\ WellFormed(V15TestFeeIncreaseProposal)
        /\ WellFormed(V15TestMoCInrate)
    BY ShapesWellFormed DEF V15DeployCommissionSplitterV2, V15TestCommissionSplitterV2,
       V15SplitCommissionSplitterV2, V15DeployCommissionSplitterV3,
       V15TestCommissionSplitterV3, V15SplitCommissionSplitterV3, V15TestFeeIncreaseProposal,
       V15TestMoCInrate, AddedProxies, Implementations
  <2>3. i \in 1 .. 9
    BY <1>4, V15ScriptsOf
  <2>. QED
    BY <1>4, V15ScriptsOf, <2>1, <2>2, <2>3
<1>5. CASE r = "v0.1.16"
  <2>1. /\ WellFormed(V16DeployMoC)
    BY ShapesWellFormed DEF V16DeployMoC, Implementations
  <2>2. i \in 1 .. 1
    BY <1>5, V16ScriptsOf
  <2>. QED
    BY <1>5, V16ScriptsOf, <2>1, <2>2
<1>6. CASE r = "v0.1.16.1"
  <2>1. WellFormed(V161InitImplementations)
    BY DEF V161InitImplementations, WellFormed, Do
  <2>2. /\ WellFormed(V161DeployMoC)
        /\ WellFormed(V161DeployMoCExchange)
        /\ WellFormed(V161DeployStopper)
        /\ WellFormed(V161DeployChanger)
        /\ WellFormed(V161VerificationChanger)
        /\ WellFormed(V161VerificationFluxCapacitor)
    BY ShapesWellFormed DEF V161DeployMoC, V161DeployMoCExchange, V161DeployStopper,
       V161DeployChanger, V161VerificationChanger, V161VerificationFluxCapacitor,
       Implementations
  <2>3. i \in 1 .. 7
    BY <1>6, V161ScriptsOf
  <2>. QED
    BY <1>6, V161ScriptsOf, <2>1, <2>2, <2>3
<1>7. CASE r = "v0.1.16.2"
  <2>1. WellFormed(V162DeployChanger)
    BY DEF V162DeployChanger, WellFormed, Do
  <2>2. /\ WellFormed(V162DeployMoC)
        /\ WellFormed(V162DeployMoCConnector)
        /\ WellFormed(V162DeployMoCExchange)
        /\ WellFormed(V162DeployMoCState)
        /\ WellFormed(V162DeployMoCSettlement)
        /\ WellFormed(V162VerificationTokens)
    BY ShapesWellFormed DEF V162DeployMoC, V162DeployMoCConnector, V162DeployMoCExchange,
       V162DeployMoCState, V162DeployMoCSettlement, V162VerificationTokens, Implementations
  <2>3. i \in 1 .. 7
    BY <1>7, V162ScriptsOf
  <2>. QED
    BY <1>7, V162ScriptsOf, <2>1, <2>2, <2>3
<1>8. CASE r = "v0.2.0"
  <2>1. WellFormed(V2DeployChanger)
    BY DEF V2DeployChanger, WellFormed, Do
  <2>2. /\ WellFormed(V2DeployMoC)
        /\ WellFormed(V2DeployMoCExchange)
        /\ WellFormed(V2DeployDeprecated)
        /\ WellFormed(V2VerificationChanger)
    BY ShapesWellFormed DEF V2DeployMoC, V2DeployMoCExchange, V2DeployDeprecated,
       V2VerificationChanger, Implementations
  <2>3. i \in 1 .. 5
    BY <1>8, V2ScriptsOf
  <2>. QED
    BY <1>8, V2ScriptsOf, <2>1, <2>2, <2>3
<1>9. CASE r = "governor"
  <2>1. WellFormed(GovernorBatchChanger)
    BY DEF GovernorBatchChanger, WellFormed, Do
  <2>2. /\ WellFormed(GovernorVerificationChanger)
    BY ShapesWellFormed DEF GovernorVerificationChanger, Implementations
  <2>3. i \in 1 .. 2
    BY <1>9, GovernorScriptsOf
  <2>. QED
    BY <1>9, GovernorScriptsOf, <2>1, <2>2, <2>3
<1>. QED
  BY <1>1, <1>2, <1>3, <1>4, <1>5, <1>6, <1>7, <1>8, <1>9 DEF AllReleases

LEMMA ScriptLengths ==
    ASSUME NEW r \in AllReleases
    PROVE  Len(Scripts(r)) \in Nat \ {0}
  BY V11ScriptsOf, V12ScriptsOf, V14ScriptsOf, V15ScriptsOf, V16ScriptsOf,
     V161ScriptsOf, V162ScriptsOf, V2ScriptsOf, GovernorScriptsOf DEF AllReleases

LEMMA UpgradesWellTyped ==
    ASSUME NEW r \in AllReleases
    PROVE  /\ DOMAIN Upgrades(r) \subseteq Proxies
           /\ \A p \in DOMAIN Upgrades(r) : Upgrades(r)[p] \in Implementations
<1>1. CASE r = "v0.1.11"
  BY <1>1 DEF Upgrades, Proxies, Implementations
<1>2. CASE r = "v0.1.12"
  BY <1>2 DEF Upgrades, Proxies, Implementations
<1>3. CASE r = "v0.1.14"
  BY <1>3 DEF Upgrades, Proxies, Implementations
<1>4. CASE r = "v0.1.16.1"
  BY <1>4 DEF Upgrades, Proxies, Implementations
<1>5. CASE r = "v0.1.16.2"
  BY <1>5 DEF Upgrades, Proxies, Implementations
<1>6. CASE r = "v0.2.0"
  BY <1>6 DEF Upgrades, Proxies, Implementations
<1>7. CASE r \in {"v0.1.15", "v0.1.16", "governor"}
  BY <1>7 DEF Upgrades
<1>. QED
  BY <1>1, <1>2, <1>3, <1>4, <1>5, <1>6, <1>7 DEF AllReleases

(* ---------------------------------------------------------------------- *)
(* The order of the scripts.                                              *)

\* A script that needs nothing of the scripts before it.
Plain(s) ==
    \A i \in 1 .. Len(s) :
        s[i].kind \notin {"verify", "verifyBatch", "split", "newChanger", "schedule", "execute",
                          "executeVerified"}

\* What a step needs, an earlier one did: a script before it, or the first step of its own.
Ordered(r, k, i) ==
    LET op == Scripts(r)[k][i]
    IN  /\ op.kind \in {"verify", "verifyBatch"} =>
              \E j \in 1 .. k - 1 : \E l \in 1 .. Len(Scripts(r)[j]) :
                  Scripts(r)[j][l].kind \in {"newChanger", "newBatch"}
        /\ op.kind = "verifyBatch" =>
              \E j \in 1 .. k - 1 : \E l \in 1 .. Len(Scripts(r)[j]) :
                  Scripts(r)[j][l].kind = "schedule"
        /\ op.kind = "split" =>
              \E j \in 1 .. k - 1 : \E l \in 1 .. Len(Scripts(r)[j]) :
                  Scripts(r)[j][l] = Do("saveProxy", op.name)
        /\ op.kind \in {"newChanger", "schedule"} /\ r # "v0.2.0" =>
              /\ \A p \in DOMAIN Upgrades(r) : \E j \in 1 .. k :
                    /\ j < k \/ i > 1
                    /\ Scripts(r)[j][1].kind \in {"new", "newLinked"}
                    /\ Scripts(r)[j][1].name = Upgrades(r)[p]
              /\ r = "v0.1.12" =>
                    \E j \in 1 .. k - 1 : \E l \in 1 .. Len(Scripts(r)[j]) :
                        Scripts(r)[j][l] = Do("newProxy", "MoCVendors")
        /\ op.kind = "schedule" =>
              (r = "v0.1.12" /\ k = 9 /\ i = 3) \/ (r = "governor" /\ k = 1 /\ i = 3)
        /\ op.kind = "verifyBatch" => r \in {"v0.1.12", "governor"}
        /\ op.kind = "execute" =>
              \/ r = "v0.1.11" /\ k = 1 /\ i = 4
              \/ r = "v0.1.14" /\ k = 2 /\ i = 3
              \/ r = "v0.1.16.1" /\ k = 4 /\ i = 3
              \/ r = "governor" /\ k = 1 /\ i = 4
        /\ op.kind = "executeVerified" =>
              r = "v0.1.12" /\ k = 10 /\ i = 2 /\ Scripts(r)[k][1].kind = "verifyBatch"

LEMMA PlainOrdered ==
    ASSUME NEW r, NEW k, NEW i \in 1 .. Len(Scripts(r)[k]), Plain(Scripts(r)[k])
    PROVE  Ordered(r, k, i)
  BY DEF Plain, Ordered

LEMMA ShapesPlain ==
    ASSUME NEW n
    PROVE  /\ Plain(Implementation(n)) /\ Plain(LinkedImplementation(n))
           /\ Plain(ImplementationAndProxy("new", n))
           /\ Plain(ImplementationAndProxy("newLinked", n))
           /\ Plain(ZosSplitter(n))
           /\ Plain(<<Do("print", n)>>) /\ Plain(<<Do("throw", n)>>)
<1>1. Plain(Implementation(n)) /\ Plain(LinkedImplementation(n))
  BY DEF Plain, Implementation, LinkedImplementation, Do
<1>2. Plain(ImplementationAndProxy("new", n)) /\ Plain(ImplementationAndProxy("newLinked", n))
  BY DEF Plain, ImplementationAndProxy, Do
<1>3. Plain(ZosSplitter(n))
  BY DEF Plain, ZosSplitter, DeployProxyContract, Do
<1>4. Plain(<<Do("print", n)>>) /\ Plain(<<Do("throw", n)>>)
  BY DEF Plain, Do
<1>. QED
  BY <1>1, <1>2, <1>3, <1>4

LEMMA V11Ordered ==
    ASSUME NEW k \in 1 .. Len(Scripts("v0.1.11")), NEW i \in 1 .. Len(Scripts("v0.1.11")[k])
    PROVE  Ordered("v0.1.11", k, i)
<1>1. k \in 1 .. 2
  BY V11ScriptsOf
<1>2. /\ Plain(V11CheckDeploy)
  BY ShapesPlain DEF V11CheckDeploy
<1>3. ASSUME k \in {2} PROVE Ordered("v0.1.11", k, i)
  <2>1. Plain(Scripts("v0.1.11")[k])
    BY <1>2, <1>3, V11ScriptsOf
  <2>. QED
    BY <2>1, PlainOrdered
<1>4. ASSUME k = 1 PROVE Ordered("v0.1.11", k, i)
  <2>1. /\ V11DeployMoCExchange[1].kind = "newLinked"
        /\ V11DeployMoCExchange[2].kind = "newChanger"
        /\ V11DeployMoCExchange[3].kind = "save"
        /\ V11DeployMoCExchange[4].kind = "execute"
        /\ Len(V11DeployMoCExchange) = 4
    BY DEF V11DeployMoCExchange, Do
  <2>2. i \in 1 .. 4 /\ Scripts("v0.1.11")[k] = V11DeployMoCExchange
    BY <1>4, <2>1, V11ScriptsOf
  <2>3. \A p \in DOMAIN Upgrades("v0.1.11") : Upgrades("v0.1.11")[p] = "MoCExchange"
    BY DEF Upgrades
  <2>4. V11DeployMoCExchange[1].name = "MoCExchange"
    BY DEF V11DeployMoCExchange, Do
  <2>5. \A p \in DOMAIN Upgrades("v0.1.11") : \E j \in 1 .. k :
           /\ Scripts("v0.1.11")[j][1].kind \in {"new", "newLinked"}
           /\ Scripts("v0.1.11")[j][1].name = Upgrades("v0.1.11")[p]
    BY <1>4, <2>1, <2>2, <2>3, <2>4
  <2>. QED
    BY <1>4, <2>1, <2>2, <2>5 DEF Ordered, Do
<1>. QED
  BY <1>1, <1>3, <1>4

LEMMA V12Ordered ==
    ASSUME NEW k \in 1 .. Len(Scripts("v0.1.12")), NEW i \in 1 .. Len(Scripts("v0.1.12")[k])
    PROVE  Ordered("v0.1.12", k, i)
<1>1. k \in 1 .. 11
  BY V12ScriptsOf
<1>2. /\ Plain(V12DeployMoCLib)
      /\ Plain(V12DeployMoCVendors)
      /\ Plain(V12DeployMoC)
      /\ Plain(V12DeployMoCExchange)
      /\ Plain(V12DeployMoCSettlement)
      /\ Plain(V12DeployCommissionSplitter)
      /\ Plain(V12DeployMoCInrate)
      /\ Plain(V12DeployMoCState)
      /\ Plain(V12CheckDeploy)
  BY ShapesPlain DEF V12DeployMoCLib, V12DeployMoCVendors, V12DeployMoC, V12DeployMoCExchange,
     V12DeployMoCSettlement, V12DeployCommissionSplitter, V12DeployMoCInrate, V12DeployMoCState,
     V12CheckDeploy
<1>3. ASSUME k \in {1, 2, 3, 4, 5, 6, 7, 8, 11} PROVE Ordered("v0.1.12", k, i)
  <2>1. Plain(Scripts("v0.1.12")[k])
    BY <1>2, <1>3, V12ScriptsOf
  <2>. QED
    BY <2>1, PlainOrdered
<1>4. ASSUME k = 9 PROVE Ordered("v0.1.12", k, i)
  <2>1. /\ V12BatchChanger[1].kind = "newBatch"
        /\ V12BatchChanger[2].kind = "save"
        /\ V12BatchChanger[3].kind = "schedule"
        /\ Len(V12BatchChanger) = 3
    BY DEF V12BatchChanger, Batch, Do
  <2>2. i \in 1 .. 3 /\ Scripts("v0.1.12")[k] = V12BatchChanger
    BY <1>4, <2>1, V12ScriptsOf
  <2>3. \A p \in DOMAIN Upgrades("v0.1.12") :
           Upgrades("v0.1.12")[p] \in
              {"MoC", "MoCExchange", "MoCSettlement", "MoCInrate", "MoCState"}
    BY DEF Upgrades
  <2>4. /\ V12DeployMoC[1] = Do("newLinked", "MoC")
        /\ V12DeployMoCExchange[1] = Do("newLinked", "MoCExchange")
        /\ V12DeployMoCSettlement[1] = Do("new", "MoCSettlement")
        /\ V12DeployMoCInrate[1] = Do("newLinked", "MoCInrate")
        /\ V12DeployMoCState[1] = Do("newLinked", "MoCState")
    BY DEF V12DeployMoC, LinkedImplementation, V12DeployMoCExchange, V12DeployMoCSettlement,
     Implementation, V12DeployMoCInrate, V12DeployMoCState
  <2>5. /\ Scripts("v0.1.12")[3][1] = Do("newLinked", "MoC")
        /\ Scripts("v0.1.12")[4][1] = Do("newLinked", "MoCExchange")
        /\ Scripts("v0.1.12")[5][1] = Do("new", "MoCSettlement")
        /\ Scripts("v0.1.12")[7][1] = Do("newLinked", "MoCInrate")
        /\ Scripts("v0.1.12")[8][1] = Do("newLinked", "MoCState")
    BY <2>4, V12ScriptsOf
  <2>6. \A p \in DOMAIN Upgrades("v0.1.12") : \E j \in {3, 4, 5, 7, 8} :
           /\ Scripts("v0.1.12")[j][1].kind \in {"new", "newLinked"}
           /\ Scripts("v0.1.12")[j][1].name = Upgrades("v0.1.12")[p]
    BY <2>3, <2>5 DEF Do
  <2>7. V12DeployMoCVendors[3] = Do("newProxy", "MoCVendors") /\ Len(V12DeployMoCVendors) = 4
    BY DEF V12DeployMoCVendors, ImplementationAndProxy
  <2>8. \E j \in 1 .. k - 1 : \E l \in 1 .. Len(Scripts("v0.1.12")[j]) :
           Scripts("v0.1.12")[j][l] = Do("newProxy", "MoCVendors")
    <3>1. 2 \in 1 .. k - 1 /\ 3 \in 1 .. Len(Scripts("v0.1.12")[2])
          /\ Scripts("v0.1.12")[2][3] = Do("newProxy", "MoCVendors")
      BY <1>4, <2>7, V12ScriptsOf
    <3>. QED
      BY <3>1
  <2>9. \A p \in DOMAIN Upgrades("v0.1.12") : \E j \in 1 .. k :
           /\ j < k \/ i > 1
           /\ Scripts("v0.1.12")[j][1].kind \in {"new", "newLinked"}
           /\ Scripts("v0.1.12")[j][1].name = Upgrades("v0.1.12")[p]
    BY <1>4, <2>6
  <2>10. CASE i = 3
    BY <1>4, <2>1, <2>2, <2>8, <2>9, <2>10 DEF Ordered
  <2>11. CASE i \in {1, 2}
    BY <2>1, <2>2, <2>11 DEF Ordered
  <2>. QED
    BY <2>2, <2>10, <2>11
<1>5. ASSUME k = 10 PROVE Ordered("v0.1.12", k, i)
  <2>1. /\ V12VerificationChanger[1].kind = "verifyBatch"
        /\ V12VerificationChanger[2].kind = "executeVerified"
        /\ Len(V12VerificationChanger) = 2
    BY DEF V12VerificationChanger, Do
  <2>2. i \in 1 .. 2 /\ Scripts("v0.1.12")[k] = V12VerificationChanger
    BY <1>5, <2>1, V12ScriptsOf
  <2>3. 9 \in 1 .. k - 1 /\ 1 \in 1 .. Len(Scripts("v0.1.12")[9])
        /\ Scripts("v0.1.12")[9][1].kind = "newBatch"
    <3>1. V12BatchChanger[1].kind = "newBatch" /\ Len(V12BatchChanger) >= 1
      BY DEF V12BatchChanger, Batch, Do
    <3>. QED
      BY <1>5, <3>1, V12ScriptsOf
  <2>4. 9 \in 1 .. k - 1 /\ 3 \in 1 .. Len(Scripts("v0.1.12")[9])
        /\ Scripts("v0.1.12")[9][3].kind = "schedule"
    <3>1. V12BatchChanger[3].kind = "schedule" /\ Len(V12BatchChanger) >= 3
      BY DEF V12BatchChanger, Batch, Do
    <3>. QED
      BY <1>5, <3>1, V12ScriptsOf
  <2>5. /\ \E j \in 1 .. k - 1 : \E l \in 1 .. Len(Scripts("v0.1.12")[j]) :
              Scripts("v0.1.12")[j][l].kind \in {"newChanger", "newBatch"}
        /\ \E j \in 1 .. k - 1 : \E l \in 1 .. Len(Scripts("v0.1.12")[j]) :
              Scripts("v0.1.12")[j][l].kind = "schedule"
    BY <2>3, <2>4
  <2>6. CASE i = 1
    BY <2>1, <2>2, <2>5, <2>6 DEF Ordered
  <2>7. CASE i = 2
    BY <1>5, <2>1, <2>2, <2>7 DEF Ordered
  <2>. QED
    BY <2>2, <2>6, <2>7
<1>. QED
  BY <1>1, <1>3, <1>4, <1>5

LEMMA V14Ordered ==
    ASSUME NEW k \in 1 .. Len(Scripts("v0.1.14")), NEW i \in 1 .. Len(Scripts("v0.1.14")[k])
    PROVE  Ordered("v0.1.14", k, i)
<1>1. k \in 1 .. 3
  BY V14ScriptsOf
<1>2. Plain(V14DeployMoC)
  BY ShapesPlain DEF V14DeployMoC
<1>3. ASSUME k = 1 PROVE Ordered("v0.1.14", k, i)
  <2>1. Plain(Scripts("v0.1.14")[k])
    BY <1>2, <1>3, V14ScriptsOf
  <2>. QED
    BY <2>1, PlainOrdered
<1>4. ASSUME k = 2 PROVE Ordered("v0.1.14", k, i)
  <2>1. /\ V14DeployChanger[1].kind = "newChanger"
        /\ V14DeployChanger[2].kind = "save"
        /\ V14DeployChanger[3].kind = "execute"
        /\ Len(V14DeployChanger) = 3
    BY DEF V14DeployChanger, Changer, Do
  <2>2. i \in 1 .. 3 /\ Scripts("v0.1.14")[k] = V14DeployChanger
    BY <1>4, <2>1, V14ScriptsOf
  <2>3. \A p \in DOMAIN Upgrades("v0.1.14") :
           Upgrades("v0.1.14")[p] \in {"MoC"}
    BY DEF Upgrades
  <2>4. /\ V14DeployMoC[1] = Do("newLinked", "MoC")
    BY DEF V14DeployMoC, LinkedImplementation
  <2>5. /\ Scripts("v0.1.14")[1][1] = Do("newLinked", "MoC")
    BY <2>4, V14ScriptsOf
  <2>6. \A p \in DOMAIN Upgrades("v0.1.14") : \E j \in {1} :
           /\ Scripts("v0.1.14")[j][1].kind \in {"new", "newLinked"}
           /\ Scripts("v0.1.14")[j][1].name = Upgrades("v0.1.14")[p]
    BY <2>3, <2>5 DEF Do
  <2>. QED
    BY <1>4, <2>1, <2>2, <2>6 DEF Ordered, Do
<1>5. ASSUME k = 3 PROVE Ordered("v0.1.14", k, i)
  <2>1. /\ V14VerificationChanger[1].kind = "verify"
        /\ Len(V14VerificationChanger) = 1
    BY DEF V14VerificationChanger, Do
  <2>2. i \in 1 .. 1 /\ Scripts("v0.1.14")[k] = V14VerificationChanger
    BY <1>5, <2>1, V14ScriptsOf
  <2>3. 2 \in 1 .. k - 1 /\ 1 \in 1 .. Len(Scripts("v0.1.14")[2])
        /\ Scripts("v0.1.14")[2][1].kind = "newChanger"
    <3>1. V14DeployChanger[1].kind = "newChanger" /\ Len(V14DeployChanger) >= 1
      BY DEF V14DeployChanger, Changer, Do
    <3>. QED
      BY <1>5, <3>1, V14ScriptsOf
  <2>. QED
    BY <1>5, <2>1, <2>2, <2>3 DEF Ordered, Do
<1>. QED
  BY <1>1, <1>3, <1>4, <1>5

LEMMA V15Ordered ==
    ASSUME NEW k \in 1 .. Len(Scripts("v0.1.15")), NEW i \in 1 .. Len(Scripts("v0.1.15")[k])
    PROVE  Ordered("v0.1.15", k, i)
<1>1. k \in 1 .. 9
  BY V15ScriptsOf
<1>2. /\ Plain(V15DeployCommissionSplitterV2)
      /\ Plain(V15TestCommissionSplitterV2)
      /\ Plain(V15DeployCommissionSplitterV3)
      /\ Plain(V15TestCommissionSplitterV3)
      /\ Plain(V15TestMoCInrate)
  BY ShapesPlain DEF V15DeployCommissionSplitterV2, V15TestCommissionSplitterV2,
     V15DeployCommissionSplitterV3, V15TestCommissionSplitterV3, V15TestMoCInrate
<1>3. ASSUME k \in {1, 2, 4, 5, 9} PROVE Ordered("v0.1.15", k, i)
  <2>1. Plain(Scripts("v0.1.15")[k])
    BY <1>2, <1>3, V15ScriptsOf
  <2>. QED
    BY <2>1, PlainOrdered
<1>4. ASSUME k = 3 PROVE Ordered("v0.1.15", k, i)
  <2>1. /\ V15SplitCommissionSplitterV2[1].kind = "split"
        /\ Len(V15SplitCommissionSplitterV2) = 1
    BY DEF V15SplitCommissionSplitterV2, Do
  <2>2. i \in 1 .. 1 /\ Scripts("v0.1.15")[k] = V15SplitCommissionSplitterV2
    BY <1>4, <2>1, V15ScriptsOf
  <2>3. Scripts("v0.1.15")[3][1].name = "CommissionSplitterV2"
    BY V15ScriptsOf DEF V15SplitCommissionSplitterV2, Do
  <2>4. 1 \in 1 .. k - 1 /\ 3 \in 1 .. Len(Scripts("v0.1.15")[1])
        /\ Scripts("v0.1.15")[1][3] = Do("saveProxy", "CommissionSplitterV2")
    <3>1. /\ V15DeployCommissionSplitterV2[3] = Do("saveProxy", "CommissionSplitterV2")
          /\ Len(V15DeployCommissionSplitterV2) >= 3
      BY DEF V15DeployCommissionSplitterV2, ZosSplitter
    <3>. QED
      BY <1>4, <3>1, V15ScriptsOf
  <2>. QED
    BY <1>4, <2>1, <2>2, <2>3, <2>4 DEF Ordered, Do
<1>5. ASSUME k = 6 PROVE Ordered("v0.1.15", k, i)
  <2>1. /\ V15SplitCommissionSplitterV3[1].kind = "split"
        /\ Len(V15SplitCommissionSplitterV3) = 1
    BY DEF V15SplitCommissionSplitterV3, Do
  <2>2. i \in 1 .. 1 /\ Scripts("v0.1.15")[k] = V15SplitCommissionSplitterV3
    BY <1>5, <2>1, V15ScriptsOf
  <2>3. Scripts("v0.1.15")[6][1].name = "CommissionSplitterV3"
    BY V15ScriptsOf DEF V15SplitCommissionSplitterV3, Do
  <2>4. 4 \in 1 .. k - 1 /\ 3 \in 1 .. Len(Scripts("v0.1.15")[4])
        /\ Scripts("v0.1.15")[4][3] = Do("saveProxy", "CommissionSplitterV3")
    <3>1. /\ V15DeployCommissionSplitterV3[3] = Do("saveProxy", "CommissionSplitterV3")
          /\ Len(V15DeployCommissionSplitterV3) >= 3
      BY DEF V15DeployCommissionSplitterV3, ZosSplitter
    <3>. QED
      BY <1>5, <3>1, V15ScriptsOf
  <2>. QED
    BY <1>5, <2>1, <2>2, <2>3, <2>4 DEF Ordered, Do
<1>6. ASSUME k = 7 PROVE Ordered("v0.1.15", k, i)
  <2>1. /\ V15DeployFeeIncreaseProposal[1].kind = "newChanger"
        /\ V15DeployFeeIncreaseProposal[2].kind = "save"
        /\ Len(V15DeployFeeIncreaseProposal) = 2
    BY DEF V15DeployFeeIncreaseProposal, Do
  <2>2. i \in 1 .. 2 /\ Scripts("v0.1.15")[k] = V15DeployFeeIncreaseProposal
    BY <1>6, <2>1, V15ScriptsOf
  <2>3. DOMAIN Upgrades("v0.1.15") = {}
    BY DEF Upgrades
  <2>. QED
    BY <1>6, <2>1, <2>2, <2>3 DEF Ordered, Do
<1>7. ASSUME k = 8 PROVE Ordered("v0.1.15", k, i)
  <2>1. /\ V15TestFeeIncreaseProposal[1].kind = "verify"
        /\ Len(V15TestFeeIncreaseProposal) = 1
    BY DEF V15TestFeeIncreaseProposal, Do
  <2>2. i \in 1 .. 1 /\ Scripts("v0.1.15")[k] = V15TestFeeIncreaseProposal
    BY <1>7, <2>1, V15ScriptsOf
  <2>3. 7 \in 1 .. k - 1 /\ 1 \in 1 .. Len(Scripts("v0.1.15")[7])
        /\ Scripts("v0.1.15")[7][1].kind = "newChanger"
    <3>1. /\ V15DeployFeeIncreaseProposal[1].kind = "newChanger"
          /\ Len(V15DeployFeeIncreaseProposal) >= 1
      BY DEF V15DeployFeeIncreaseProposal, Do
    <3>. QED
      BY <1>7, <3>1, V15ScriptsOf
  <2>. QED
    BY <1>7, <2>1, <2>2, <2>3 DEF Ordered, Do
<1>. QED
  BY <1>1, <1>3, <1>4, <1>5, <1>6, <1>7

LEMMA V16Ordered ==
    ASSUME NEW k \in 1 .. Len(Scripts("v0.1.16")), NEW i \in 1 .. Len(Scripts("v0.1.16")[k])
    PROVE  Ordered("v0.1.16", k, i)
<1>1. k \in {1}
  BY V16ScriptsOf
<1>2. /\ Plain(V16DeployMoC)
  BY ShapesPlain DEF V16DeployMoC
<1>3. ASSUME k \in {1} PROVE Ordered("v0.1.16", k, i)
  <2>1. Plain(Scripts("v0.1.16")[k])
    BY <1>2, <1>3, V16ScriptsOf
  <2>. QED
    BY <2>1, PlainOrdered
<1>. QED
  BY <1>1, <1>3

LEMMA V161Ordered ==
    ASSUME NEW k \in 1 .. Len(Scripts("v0.1.16.1")), NEW i \in 1 .. Len(Scripts("v0.1.16.1")[k])
    PROVE  Ordered("v0.1.16.1", k, i)
<1>1. k \in 1 .. 7
  BY V161ScriptsOf
<1>0. Plain(V161InitImplementations)
  BY DEF V161InitImplementations, Plain, Do
<1>2. /\ Plain(V161DeployMoC)
      /\ Plain(V161DeployMoCExchange)
      /\ Plain(V161DeployStopper)
      /\ Plain(V161InitImplementations)
      /\ Plain(V161VerificationFluxCapacitor)
  BY <1>0, ShapesPlain DEF V161DeployMoC, V161DeployMoCExchange, V161DeployStopper,
     V161VerificationFluxCapacitor
<1>3. ASSUME k \in {1, 2, 3, 6, 7} PROVE Ordered("v0.1.16.1", k, i)
  <2>1. Plain(Scripts("v0.1.16.1")[k])
    BY <1>2, <1>3, V161ScriptsOf
  <2>. QED
    BY <2>1, PlainOrdered
<1>4. ASSUME k = 4 PROVE Ordered("v0.1.16.1", k, i)
  <2>1. /\ V161DeployChanger[1].kind = "newChanger"
        /\ V161DeployChanger[2].kind = "save"
        /\ V161DeployChanger[3].kind = "execute"
        /\ Len(V161DeployChanger) = 3
    BY DEF V161DeployChanger, Changer, Do
  <2>2. i \in 1 .. 3 /\ Scripts("v0.1.16.1")[k] = V161DeployChanger
    BY <1>4, <2>1, V161ScriptsOf
  <2>3. \A p \in DOMAIN Upgrades("v0.1.16.1") :
           Upgrades("v0.1.16.1")[p] \in {"MoC", "MoCExchange", "Stopper"}
    BY DEF Upgrades
  <2>4. /\ V161DeployMoC[1] = Do("new", "MoC")
        /\ V161DeployMoCExchange[1] = Do("newLinked", "MoCExchange")
        /\ V161DeployStopper[1] = Do("new", "Stopper")
    BY DEF V161DeployMoC, Implementation, V161DeployMoCExchange, LinkedImplementation,
     V161DeployStopper
  <2>5. /\ Scripts("v0.1.16.1")[1][1] = Do("new", "MoC")
        /\ Scripts("v0.1.16.1")[2][1] = Do("newLinked", "MoCExchange")
        /\ Scripts("v0.1.16.1")[3][1] = Do("new", "Stopper")
    BY <2>4, V161ScriptsOf
  <2>6. \A p \in DOMAIN Upgrades("v0.1.16.1") : \E j \in {1, 2, 3} :
           /\ Scripts("v0.1.16.1")[j][1].kind \in {"new", "newLinked"}
           /\ Scripts("v0.1.16.1")[j][1].name = Upgrades("v0.1.16.1")[p]
    BY <2>3, <2>5 DEF Do
  <2>. QED
    BY <1>4, <2>1, <2>2, <2>6 DEF Ordered, Do
<1>5. ASSUME k = 5 PROVE Ordered("v0.1.16.1", k, i)
  <2>1. /\ V161VerificationChanger[1].kind = "verify"
        /\ Len(V161VerificationChanger) = 1
    BY DEF V161VerificationChanger, Do
  <2>2. i \in 1 .. 1 /\ Scripts("v0.1.16.1")[k] = V161VerificationChanger
    BY <1>5, <2>1, V161ScriptsOf
  <2>3. 4 \in 1 .. k - 1 /\ 1 \in 1 .. Len(Scripts("v0.1.16.1")[4])
        /\ Scripts("v0.1.16.1")[4][1].kind = "newChanger"
    <3>1. V161DeployChanger[1].kind = "newChanger" /\ Len(V161DeployChanger) >= 1
      BY DEF V161DeployChanger, Changer, Do
    <3>. QED
      BY <1>5, <3>1, V161ScriptsOf
  <2>. QED
    BY <1>5, <2>1, <2>2, <2>3 DEF Ordered, Do
<1>. QED
  BY <1>1, <1>3, <1>4, <1>5

LEMMA V162Ordered ==
    ASSUME NEW k \in 1 .. Len(Scripts("v0.1.16.2")), NEW i \in 1 .. Len(Scripts("v0.1.16.2")[k])
    PROVE  Ordered("v0.1.16.2", k, i)
<1>1. k \in 1 .. 7
  BY V162ScriptsOf
<1>2. /\ Plain(V162DeployMoC)
      /\ Plain(V162DeployMoCConnector)
      /\ Plain(V162DeployMoCExchange)
      /\ Plain(V162DeployMoCState)
      /\ Plain(V162DeployMoCSettlement)
  BY ShapesPlain DEF V162DeployMoC, V162DeployMoCConnector, V162DeployMoCExchange,
     V162DeployMoCState, V162DeployMoCSettlement
<1>3. ASSUME k \in {1, 2, 3, 4, 5} PROVE Ordered("v0.1.16.2", k, i)
  <2>1. Plain(Scripts("v0.1.16.2")[k])
    BY <1>2, <1>3, V162ScriptsOf
  <2>. QED
    BY <2>1, PlainOrdered
<1>4. ASSUME k = 6 PROVE Ordered("v0.1.16.2", k, i)
  <2>1. /\ V162DeployChanger[1].kind = "newChanger"
        /\ V162DeployChanger[2].kind = "save"
        /\ V162DeployChanger[3].kind = "executeOrThrow"
        /\ Len(V162DeployChanger) = 3
    BY DEF V162DeployChanger, Do
  <2>2. i \in 1 .. 3 /\ Scripts("v0.1.16.2")[k] = V162DeployChanger
    BY <1>4, <2>1, V162ScriptsOf
  <2>3. \A p \in DOMAIN Upgrades("v0.1.16.2") :
           Upgrades("v0.1.16.2")[p] \in
              {"MoC_v0116_2", "MoCConnector_v0116_2", "MoCExchange_v0116_2",
               "MoCState_v0116_2", "MoCSettlement_v0116_2"}
    BY DEF Upgrades
  <2>4. /\ V162DeployMoC[1] = Do("new", "MoC_v0116_2")
        /\ V162DeployMoCConnector[1] = Do("new", "MoCConnector_v0116_2")
        /\ V162DeployMoCExchange[1] = Do("newLinked", "MoCExchange_v0116_2")
        /\ V162DeployMoCState[1] = Do("newLinked", "MoCState_v0116_2")
        /\ V162DeployMoCSettlement[1] = Do("new", "MoCSettlement_v0116_2")
    BY DEF V162DeployMoC, Implementation, V162DeployMoCConnector, V162DeployMoCExchange,
     LinkedImplementation, V162DeployMoCState, V162DeployMoCSettlement
  <2>5. /\ Scripts("v0.1.16.2")[1][1] = Do("new", "MoC_v0116_2")
        /\ Scripts("v0.1.16.2")[2][1] = Do("new", "MoCConnector_v0116_2")
        /\ Scripts("v0.1.16.2")[3][1] = Do("newLinked", "MoCExchange_v0116_2")
        /\ Scripts("v0.1.16.2")[4][1] = Do("newLinked", "MoCState_v0116_2")
        /\ Scripts("v0.1.16.2")[5][1] = Do("new", "MoCSettlement_v0116_2")
    BY <2>4, V162ScriptsOf
  <2>6. \A p \in DOMAIN Upgrades("v0.1.16.2") : \E j \in {1, 2, 3, 4, 5} :
           /\ Scripts("v0.1.16.2")[j][1].kind \in {"new", "newLinked"}
           /\ Scripts("v0.1.16.2")[j][1].name = Upgrades("v0.1.16.2")[p]
    BY <2>3, <2>5, SMTT(30) DEF Do
  <2>. QED
    BY <1>4, <2>1, <2>2, <2>6 DEF Ordered, Do
<1>5. ASSUME k = 7 PROVE Ordered("v0.1.16.2", k, i)
  <2>1. /\ V162VerificationTokens[1].kind = "verify"
        /\ Len(V162VerificationTokens) = 1
    BY DEF V162VerificationTokens, Do
  <2>2. i \in 1 .. 1 /\ Scripts("v0.1.16.2")[k] = V162VerificationTokens
    BY <1>5, <2>1, V162ScriptsOf
  <2>3. 6 \in 1 .. k - 1 /\ 1 \in 1 .. Len(Scripts("v0.1.16.2")[6])
        /\ Scripts("v0.1.16.2")[6][1].kind = "newChanger"
    <3>1. V162DeployChanger[1].kind = "newChanger" /\ Len(V162DeployChanger) >= 1
      BY DEF V162DeployChanger, Do
    <3>. QED
      BY <1>5, <3>1, V162ScriptsOf
  <2>. QED
    BY <1>5, <2>1, <2>2, <2>3 DEF Ordered, Do
<1>. QED
  BY <1>1, <1>3, <1>4, <1>5

LEMMA V2Ordered ==
    ASSUME NEW k \in 1 .. Len(Scripts("v0.2.0")), NEW i \in 1 .. Len(Scripts("v0.2.0")[k])
    PROVE  Ordered("v0.2.0", k, i)
<1>1. k \in 1 .. 5
  BY V2ScriptsOf
<1>2. /\ Plain(V2DeployMoC)
      /\ Plain(V2DeployMoCExchange)
      /\ Plain(V2DeployDeprecated)
      /\ Plain(V2VerificationChanger)
  BY ShapesPlain DEF V2DeployMoC, V2DeployMoCExchange, V2DeployDeprecated, V2VerificationChanger
<1>3. ASSUME k \in {1, 2, 3, 5} PROVE Ordered("v0.2.0", k, i)
  <2>1. Plain(Scripts("v0.2.0")[k])
    BY <1>2, <1>3, V2ScriptsOf
  <2>. QED
    BY <2>1, PlainOrdered
<1>4. ASSUME k = 4 PROVE Ordered("v0.2.0", k, i)
  <2>1. /\ V2DeployChanger[1].kind = "newChanger"
        /\ V2DeployChanger[2].kind = "save"
        /\ V2DeployChanger[3].kind = "executeOrThrow"
        /\ Len(V2DeployChanger) = 3
    BY DEF V2DeployChanger, Do
  <2>2. i \in 1 .. 3 /\ Scripts("v0.2.0")[k] = V2DeployChanger
    BY <1>4, <2>1, V2ScriptsOf
  <2>. QED
    BY <1>4, <2>1, <2>2 DEF Ordered, Do
<1>. QED
  BY <1>1, <1>3, <1>4

LEMMA GovernorOrdered ==
    ASSUME NEW k \in 1 .. Len(Scripts("governor")), NEW i \in 1 .. Len(Scripts("governor")[k])
    PROVE  Ordered("governor", k, i)
<1>1. k \in 1 .. 2
  BY GovernorScriptsOf
<1>4. ASSUME k = 1 PROVE Ordered("governor", k, i)
  <2>1. /\ GovernorBatchChanger[1].kind = "newBatch"
        /\ GovernorBatchChanger[2].kind = "save"
        /\ GovernorBatchChanger[3].kind = "schedule"
        /\ GovernorBatchChanger[4].kind = "execute"
        /\ Len(GovernorBatchChanger) = 4
    BY DEF GovernorBatchChanger, Do
  <2>2. i \in 1 .. 4 /\ Scripts("governor")[k] = GovernorBatchChanger
    BY <1>4, <2>1, GovernorScriptsOf
  <2>3. DOMAIN Upgrades("governor") = {}
    BY DEF Upgrades
  <2>. QED
    BY <1>4, <2>1, <2>2, <2>3 DEF Ordered, Do
<1>5. ASSUME k = 2 PROVE Ordered("governor", k, i)
  <2>1. /\ GovernorVerificationChanger[1].kind = "verifyBatch"
        /\ Len(GovernorVerificationChanger) = 1
    BY DEF GovernorVerificationChanger, Do
  <2>2. i \in 1 .. 1 /\ Scripts("governor")[k] = GovernorVerificationChanger
    BY <1>5, <2>1, GovernorScriptsOf
  <2>3. 1 \in 1 .. k - 1 /\ 1 \in 1 .. Len(Scripts("governor")[1])
        /\ Scripts("governor")[1][1].kind = "newBatch"
    <3>1. GovernorBatchChanger[1].kind = "newBatch" /\ Len(GovernorBatchChanger) >= 1
      BY DEF GovernorBatchChanger, Do
    <3>. QED
      BY <1>5, <3>1, GovernorScriptsOf
  <2>4. 1 \in 1 .. k - 1 /\ 3 \in 1 .. Len(Scripts("governor")[1])
        /\ Scripts("governor")[1][3].kind = "schedule"
    <3>1. GovernorBatchChanger[3].kind = "schedule" /\ Len(GovernorBatchChanger) >= 3
      BY DEF GovernorBatchChanger, Do
    <3>. QED
      BY <1>5, <3>1, GovernorScriptsOf
  <2>. QED
    BY <1>5, <2>1, <2>2, <2>3, <2>4 DEF Ordered, Do
<1>. QED
  BY <1>1, <1>4, <1>5

LEMMA AllOrdered ==
    ASSUME NEW r \in AllReleases, NEW k \in 1 .. Len(Scripts(r)),
           NEW i \in 1 .. Len(Scripts(r)[k])
    PROVE  Ordered(r, k, i)
  BY V11Ordered, V12Ordered, V14Ordered, V15Ordered, V16Ordered, V161Ordered, V162Ordered,
     V2Ordered, GovernorOrdered DEF AllReleases

\* What a release saves, it saves before it schedules or executes.
Quiet(op) == op.kind \notin {"save", "saveProxy", "schedule"}

\* All the later steps of a script are quiet, and all those of the later scripts.
QuietAfter(r, j, l) ==
    /\ \A i \in l + 1 .. Len(Scripts(r)[j]) : Quiet(Scripts(r)[j][i])
    /\ \A k \in j + 1 .. Len(Scripts(r)) : \A i \in 1 .. Len(Scripts(r)[k]) :
          Quiet(Scripts(r)[k][i])

LEMMA LastSaves ==
    /\ QuietAfter("v0.1.11", 1, 4) /\ QuietAfter("v0.1.12", 9, 3)
    /\ QuietAfter("v0.1.12", 10, 2) /\ QuietAfter("v0.1.14", 2, 3)
    /\ QuietAfter("v0.1.16.1", 4, 3)
    /\ QuietAfter("governor", 1, 3) /\ QuietAfter("governor", 1, 4)
<1>. DEFINE AllQuiet(s) == \A i \in 1 .. Len(s) : Quiet(s[i])
<1>1. QuietAfter("v0.1.11", 1, 4)
  <2>1. Len(V11DeployMoCExchange) = 4 /\ AllQuiet(V11CheckDeploy)
    BY DEF V11DeployMoCExchange, V11CheckDeploy, Quiet, Do
  <2>. QED
    BY <2>1, V11ScriptsOf DEF QuietAfter
<1>2. QuietAfter("v0.1.12", 9, 3) /\ QuietAfter("v0.1.12", 10, 2)
  <2>1. Len(V12BatchChanger) = 3 /\ Len(V12VerificationChanger) = 2
    BY DEF V12BatchChanger, Batch, V12VerificationChanger
  <2>2. AllQuiet(V12VerificationChanger) /\ AllQuiet(V12CheckDeploy)
    BY DEF V12VerificationChanger, V12CheckDeploy, Quiet, Do
  <2>3. \A k \in 10 .. 11 : AllQuiet(Scripts("v0.1.12")[k])
    BY <2>2, V12ScriptsOf
  <2>4. QuietAfter("v0.1.12", 9, 3)
    <3>1. Len(Scripts("v0.1.12")[9]) = 3 /\ Len(Scripts("v0.1.12")) = 11
      BY <2>1, V12ScriptsOf
    <3>2. \A i \in 3 + 1 .. Len(Scripts("v0.1.12")[9]) : Quiet(Scripts("v0.1.12")[9][i])
      BY <3>1
    <3>3. \A k \in 9 + 1 .. Len(Scripts("v0.1.12")) : AllQuiet(Scripts("v0.1.12")[k])
      <4>1. 9 + 1 = 10 /\ Len(Scripts("v0.1.12")) = 11
        BY <3>1
      <4>. QED
        BY <2>3, <4>1, Zenon
    <3>. QED
      BY <3>2, <3>3 DEF QuietAfter
  <2>5. QuietAfter("v0.1.12", 10, 2)
    <3>1. Len(Scripts("v0.1.12")[10]) = 2 /\ Len(Scripts("v0.1.12")) = 11
      BY <2>1, V12ScriptsOf
    <3>2. \A i \in 2 + 1 .. Len(Scripts("v0.1.12")[10]) : Quiet(Scripts("v0.1.12")[10][i])
      BY <3>1
    <3>3. \A k \in 10 + 1 .. Len(Scripts("v0.1.12")) : AllQuiet(Scripts("v0.1.12")[k])
      <4>1. 10 + 1 = 11 /\ \A k \in 11 .. 11 : AllQuiet(Scripts("v0.1.12")[k])
        BY <2>3
      <4>. QED
        BY <3>1, <4>1, Zenon
    <3>. QED
      BY <3>2, <3>3 DEF QuietAfter
  <2>. QED
    BY <2>4, <2>5
<1>3. QuietAfter("v0.1.14", 2, 3)
  <2>1. Len(V14DeployChanger) = 3 /\ AllQuiet(V14VerificationChanger)
    BY DEF V14DeployChanger, Changer, V14VerificationChanger, Quiet, Do
  <2>. QED
    BY <2>1, V14ScriptsOf DEF QuietAfter
<1>4. QuietAfter("v0.1.16.1", 4, 3)
  <2>1. Len(V161DeployChanger) = 3
    BY DEF V161DeployChanger, Changer
  <2>2. AllQuiet(V161VerificationChanger) /\ AllQuiet(V161VerificationFluxCapacitor)
    BY DEF V161VerificationChanger, V161VerificationFluxCapacitor, Quiet, Do
  <2>3. AllQuiet(V161InitImplementations)
    BY DEF V161InitImplementations, Quiet, Do
  <2>4. \A k \in 5 .. 7 : AllQuiet(Scripts("v0.1.16.1")[k])
    BY <2>2, <2>3, V161ScriptsOf
  <2>5. Len(Scripts("v0.1.16.1")[4]) = 3 /\ Len(Scripts("v0.1.16.1")) = 7
    BY <2>1, V161ScriptsOf
  <2>6. \A i \in 3 + 1 .. Len(Scripts("v0.1.16.1")[4]) : Quiet(Scripts("v0.1.16.1")[4][i])
    BY <2>5
  <2>7. \A k \in 4 + 1 .. Len(Scripts("v0.1.16.1")) : AllQuiet(Scripts("v0.1.16.1")[k])
    <3>1. 4 + 1 = 5
      OBVIOUS
    <3>. QED
      BY <2>4, <2>5, <3>1, Zenon
  <2>. QED
    BY <2>6, <2>7 DEF QuietAfter
<1>5. QuietAfter("governor", 1, 3) /\ QuietAfter("governor", 1, 4)
  <2>1. Len(GovernorBatchChanger) = 4 /\ Quiet(GovernorBatchChanger[4])
    BY DEF GovernorBatchChanger, Quiet, Do
  <2>2. AllQuiet(GovernorVerificationChanger)
    BY DEF GovernorVerificationChanger, Quiet, Do
  <2>. QED
    BY <2>1, <2>2, GovernorScriptsOf DEF QuietAfter
<1>. QED
  BY <1>1, <1>2, <1>3, <1>4, <1>5

LEMMA NothingSavedAfter ==
    ASSUME NEW r \in AllReleases,
           NEW j \in 1 .. Len(Scripts(r)), NEW l \in 1 .. Len(Scripts(r)[j]),
           Scripts(r)[j][l].kind \in {"schedule", "execute", "executeVerified"},
           NEW k \in 1 .. Len(Scripts(r)), NEW i \in 1 .. Len(Scripts(r)[k]),
           j < k \/ (j = k /\ l < i)
    PROVE  Quiet(Scripts(r)[k][i])
<1>1. QuietAfter(r, j, l)
  <2>1. Ordered(r, j, l)
    BY AllOrdered
  <2>2. CASE Scripts(r)[j][l].kind = "schedule"
    BY <2>1, <2>2, LastSaves DEF Ordered
  <2>3. CASE Scripts(r)[j][l].kind = "execute"
    BY <2>1, <2>3, LastSaves DEF Ordered
  <2>4. CASE Scripts(r)[j][l].kind = "executeVerified"
    BY <2>1, <2>4, LastSaves DEF Ordered
  <2>. QED
    BY <2>2, <2>3, <2>4
<1>2. CASE j < k
  <2>1. k \in j + 1 .. Len(Scripts(r))
    BY <1>2
  <2>. QED
    BY <1>1, <2>1 DEF QuietAfter
<1>3. CASE j = k /\ l < i
  <2>1. i \in l + 1 .. Len(Scripts(r)[j])
    BY <1>3
  <2>. QED
    BY <1>1, <1>3, <2>1 DEF QuietAfter
<1>. QED
  BY <1>2, <1>3

\* The four releases that upgrade the system in order do execute the change.
LEMMA SomethingExecutes ==
    ASSUME NEW r \in {"v0.1.11", "v0.1.12", "v0.1.14", "v0.1.16.1"}
    PROVE  \E k \in 1 .. Len(Scripts(r)) : \E i \in 1 .. Len(Scripts(r)[k]) :
              Scripts(r)[k][i].kind \in {"execute", "executeVerified"}
<1>1. V11DeployMoCExchange[4].kind = "execute" /\ 4 \in 1 .. Len(V11DeployMoCExchange)
  BY DEF V11DeployMoCExchange, Do
<1>2. V12VerificationChanger[2].kind = "executeVerified" /\ 2 \in 1 .. Len(V12VerificationChanger)
  BY DEF V12VerificationChanger, Do
<1>3. V14DeployChanger[3].kind = "execute" /\ 3 \in 1 .. Len(V14DeployChanger)
  BY DEF V14DeployChanger, Changer, Do
<1>4. V161DeployChanger[3].kind = "execute" /\ 3 \in 1 .. Len(V161DeployChanger)
  BY DEF V161DeployChanger, Changer, Do
<1>5. CASE r = "v0.1.11"
  <2>1. 1 \in 1 .. Len(Scripts(r)) /\ Scripts(r)[1] = V11DeployMoCExchange
    BY <1>5, V11ScriptsOf
  <2>. QED
    BY <1>1, <2>1
<1>6. CASE r = "v0.1.12"
  <2>1. 10 \in 1 .. Len(Scripts(r)) /\ Scripts(r)[10] = V12VerificationChanger
    BY <1>6, V12ScriptsOf
  <2>. QED
    BY <1>2, <2>1
<1>7. CASE r = "v0.1.14"
  <2>1. 2 \in 1 .. Len(Scripts(r)) /\ Scripts(r)[2] = V14DeployChanger
    BY <1>7, V14ScriptsOf
  <2>. QED
    BY <1>3, <2>1
<1>8. CASE r = "v0.1.16.1"
  <2>1. 4 \in 1 .. Len(Scripts(r)) /\ Scripts(r)[4] = V161DeployChanger
    BY <1>8, V161ScriptsOf
  <2>. QED
    BY <1>4, <2>1
<1>. QED
  BY <1>5, <1>6, <1>7, <1>8

(* ---------------------------------------------------------------------- *)
(* Types.                                                                 *)

Configurations ==
    [impl : [Implementations -> Nat], proxy : [AddedProxies -> Nat], changer : Nat, values : Nat]

ContractRecords == [key : Implementations, initialized : BOOLEAN, library : Int]

ProxyRecords == [impl : Nat, initialized : BOOLEAN]

ChangerRecords(r) ==
    [upgrades : [DOMAIN Upgrades(r) -> Nat], before : [Proxies -> Nat], deprecated : Nat,
     vendors : Nat, splitter : Nat, values : Nat, scheduled : BOOLEAN, applied : Nat,
     upgradesSeen : Nat]

ChainRecords == [impl : [Proxies -> Nat], splitter : Nat, vendors : Nat, values : Int]

\* Where the process may be.
PlaceOK ==
    /\ release \in AllReleases /\ executes \in BOOLEAN /\ running \in BOOLEAN
    /\ script \in 1 .. Len(Scripts(release)) + 1
    /\ step \in Nat \ {0}
    /\ running => /\ script \in 1 .. Len(Scripts(release))
                  /\ step \in 1 .. Len(Scripts(release)[script])

\* What is deployed.
DeployedOK ==
    /\ contracts \in Seq(ContractRecords)
    /\ newProxies \in Seq(ProxyRecords)
    /\ first \in [AddedProxies -> Nat]
    /\ \A n \in AddedProxies : first[n] <= Len(newProxies)
    /\ changers \in Seq(ChangerRecords(release))
    /\ chain \in ChainRecords

\* A configuration, with a changer that exists.
ConfigOK(conf) == conf \in Configurations /\ conf.changer <= Len(changers)

GovernanceOK ==
    /\ orderly \in BOOLEAN
    /\ proposed \in 0 .. Len(changers)
    /\ executes => proposed = 0
    /\ proposals \in Nat /\ restarts \in Nat /\ otherUpgrades \in {0, 1}

\* Every variable keeps its type, and names only what has been deployed.
TypeOK ==
    /\ PlaceOK /\ DeployedOK /\ ConfigOK(memory) /\ ConfigOK(config) /\ GovernanceOK
    /\ verified \in BOOLEAN

\* The changer c would upgrade the system to the configuration conf.
Fits(c, conf) ==
    /\ c.upgrades = [p \in DOMAIN Upgrades(release) |-> conf.impl[Upgrades(release)[p]]]
    /\ release = "v0.1.12" => /\ c.vendors = conf.proxy["MoCVendors"]
                              /\ c.splitter = conf.proxy["CommissionSplitter"]
    /\ release \in SetsValues => c.values = conf.values

\* The changer a configuration names fits it; where scripts execute it, it was not yet.
NamesFitting(conf) ==
    /\ conf.changer # 0
    /\ Fits(changers[conf.changer], conf)
    /\ executes => changers[conf.changer].scheduled

\* The splitters a configuration names are initialized.
NamesInitialized(conf) ==
    \A n \in AddedProxies :
        conf.proxy[n] # 0 => /\ conf.proxy[n] <= Len(newProxies)
                             /\ newProxies[conf.proxy[n]].initialized

\* What the step just made left for the next one.
AfterStep(last, beforeLast) ==
    /\ last.kind \in {"newChanger", "newBatch"} => memory.changer # 0
    /\ last.kind = "newChanger" => NamesFitting(memory)
    /\ last.kind = "save" /\ beforeLast.kind \in {"newChanger", "newBatch"} =>
          config = memory /\ config.changer # 0
    /\ last.kind = "save" /\ beforeLast.kind = "newChanger" => NamesFitting(config)
    /\ last.kind = "schedule" => NamesFitting(config)
    /\ last.kind \in {"create", "initialize"} => first[last.name] # 0
    /\ last.kind = "initialize" => newProxies[first[last.name]].initialized

None == Do("none", "none")

PositionInv ==
    running /\ step > 1 =>
        LET s == Scripts(release)[script]
        IN  AfterStep(s[step - 1], IF step > 2 THEN s[step - 2] ELSE None)

VerifiedInv == verified => config.changer # 0 /\ Fits(InConfig, config)

SplittersInv == NamesInitialized(memory) /\ NamesInitialized(config)

IInv == TypeOK /\ PositionInv /\ VerifiedInv /\ SplittersInv

(* ---------------------------------------------------------------------- *)
(* What the actions share.                                                *)

\* The step that runs, and what comes before it.
LEMMA StepThatRuns ==
    ASSUME PlaceOK, running
    PROVE  LET s == Scripts(release)[script]
           IN  /\ WellFormed(s) /\ Len(s) \in Nat /\ step \in 1 .. Len(s)
               /\ Len(Scripts(release)) \in Nat
<1>1. script \in 1 .. Len(Scripts(release)) /\ step \in 1 .. Len(Scripts(release)[script])
  BY DEF PlaceOK
<1>2. WellFormed(Scripts(release)[script])
  BY <1>1, AllWellFormed DEF PlaceOK
<1>. QED
  BY <1>1, <1>2, ScriptLengths DEF WellFormed, PlaceOK

LEMMA AdvanceMoves ==
    ASSUME PlaceOK, running, NEW op, NEW m, Advance(op, m)
    PROVE  /\ op = Scripts(release)[script][step] /\ Succeeds(op)
           /\ PlaceOK'
           /\ memory' = m \/ memory' = config'
           /\ running' /\ step' > 1 =>
                /\ script' = script /\ step' = step + 1 /\ memory' = m
           /\ UNCHANGED <<release, executes, operatorVars, governanceVars>>
<1>. DEFINE s == Scripts(release)[script]
<1>1. /\ WellFormed(s) /\ Len(s) \in Nat /\ step \in 1 .. Len(s)
      /\ Len(Scripts(release)) \in Nat /\ script \in 1 .. Len(Scripts(release))
  BY StepThatRuns DEF PlaceOK
<1>2. /\ op = s[step] /\ Succeeds(op)
      /\ UNCHANGED <<release, executes, operatorVars, governanceVars>>
  BY DEF Advance, AtStep
<1>3. CASE step < Len(s)
  <2>1. step' = step + 1 /\ memory' = m /\ UNCHANGED <<script, running>>
    BY <1>3 DEF Advance
  <2>. QED
    BY <1>1, <1>2, <1>3, <2>1 DEF PlaceOK
<1>4. CASE ~ (step < Len(s))
  <2>1. /\ script' = script + 1 /\ step' = 1 /\ memory' = config'
        /\ running' = (script < Len(Scripts(release)))
    BY <1>4 DEF Advance
  <2>2. script' \in 1 .. Len(Scripts(release)) + 1
    BY <1>1, <2>1
  <2>3. ASSUME running'
        PROVE  script' \in 1 .. Len(Scripts(release)) /\ 1 <= Len(Scripts(release)[script'])
    <3>0. script < Len(Scripts(release))
      BY <2>1, <2>3, Zenon
    <3>1. script' \in 1 .. Len(Scripts(release))
      BY <1>1, <2>1, <3>0
    <3>2. WellFormed(Scripts(release)[script'])
      BY <3>1, AllWellFormed DEF PlaceOK
    <3>. QED
      BY <3>1, <3>2 DEF WellFormed
  <2>4. running' \in BOOLEAN
    BY <2>1
  <2>. QED
    BY <1>1, <1>2, <2>1, <2>2, <2>3, <2>4 DEF PlaceOK, WellFormed
<1>. QED
  BY <1>2, <1>3, <1>4

\* To see what a step leaves for the next one it is enough to look at the step.
LEMMA NextPosition ==
    ASSUME PlaceOK, running, NEW op, NEW m, Advance(op, m),
           NEW before,
           before = IF step > 1 THEN Scripts(release)[script][step - 1] ELSE None,
           memory' = m => AfterStep(op, before)'
    PROVE  PositionInv'
<1>. SUFFICES ASSUME running', step' > 1
              PROVE  AfterStep(Scripts(release)[script][step - 1],
                               IF step > 2 THEN Scripts(release)[script][step - 2] ELSE None)'
  BY DEF PositionInv
<1>1. /\ op = Scripts(release)[script][step] /\ script' = script /\ step' = step + 1
      /\ memory' = m /\ release' = release
  BY AdvanceMoves
<1>2. step \in Nat \ {0}
  BY DEF PlaceOK
<1>3. step' - 1 = step /\ step' - 2 = step - 1 /\ (step' > 2 <=> step > 1)
  BY <1>1, <1>2
<1>4. /\ op = Scripts(release')[script'][step' - 1]
      /\ before = IF step' > 2 THEN Scripts(release')[script'][step' - 2] ELSE None
  BY <1>1, <1>3
<1>5. AfterStep(op, before)'
  BY <1>1
<1>. QED
  BY <1>4, <1>5 DEF AfterStep

\* What is left to prove of a step of the script.
LEMMA StepKeeps ==
    ASSUME IInv, running, NEW op, NEW m, Advance(op, m),
           NEW before,
           before = IF step > 1 THEN Scripts(release)[script][step - 1] ELSE None,
           memory' = m => AfterStep(op, before)',
           DeployedOK', ConfigOK(m)', ConfigOK(config)', Len(changers) <= Len(changers'),
           NamesInitialized(m)', NamesInitialized(config)',
           verified' \in BOOLEAN, VerifiedInv'
    PROVE  IInv'
<1>1. /\ PlaceOK' /\ memory' \in {m, config'}
      /\ UNCHANGED <<release, executes, operatorVars, governanceVars>>
  BY AdvanceMoves DEF IInv, TypeOK
<1>2. GovernanceOK'
  <2>1. Len(changers) \in Nat /\ Len(changers') \in Nat
    BY DEF IInv, TypeOK, DeployedOK
  <2>. QED
    BY <1>1, <2>1 DEF IInv, TypeOK, GovernanceOK, operatorVars, governanceVars
<1>3. ConfigOK(memory)' /\ NamesInitialized(memory)'
  BY <1>1 DEF ConfigOK, NamesInitialized
<1>4. PositionInv'
  BY NextPosition DEF IInv, TypeOK
<1>. QED
  BY <1>1, <1>2, <1>3, <1>4 DEF IInv, TypeOK, SplittersInv

\* What the step before left.
LEMMA WhatIsLeft ==
    ASSUME IInv, running, NEW op, op = Scripts(release)[script][step]
    PROVE  LET s == Scripts(release)[script]
           IN  /\ s[step] = op /\ WellFormed(s) /\ step \in 1 .. Len(s) /\ Len(s) \in Nat
               /\ step > 1 => AfterStep(s[step - 1], IF step > 2 THEN s[step - 2] ELSE None)
  BY StepThatRuns DEF IInv, TypeOK, PositionInv

LEMMA VerificationStays ==
    ASSUME IInv, UNCHANGED <<release, config, changers, verified>>
    PROVE  VerifiedInv' /\ verified' \in BOOLEAN /\ Len(changers) <= Len(changers')
<1>1. VerifiedInv'
  BY DEF IInv, VerifiedInv, Fits, InConfig
<1>2. verified' \in BOOLEAN
  BY DEF IInv, TypeOK
<1>3. Len(changers) \in Nat
  BY DEF IInv, TypeOK, DeployedOK
<1>. QED
  BY <1>1, <1>2, <1>3

LEMMA RecordedWellTyped ==
    ASSUME TypeOK, NEW c, ConfigOK(c)
    PROVE  /\ Recorded(c) \in ChangerRecords(release)
           /\ [Recorded(c) EXCEPT !.scheduled = FALSE] \in ChangerRecords(release)
           /\ Recorded(c).scheduled
           /\ Fits(Recorded(c), c)
<1>1. DOMAIN Upgrades(release) \subseteq Proxies
      /\ \A p \in DOMAIN Upgrades(release) : Upgrades(release)[p] \in Implementations
  BY UpgradesWellTyped DEF TypeOK, PlaceOK
<1>2. [p \in DOMAIN Upgrades(release) |-> c.impl[Upgrades(release)[p]]]
         \in [DOMAIN Upgrades(release) -> Nat]
  BY <1>1 DEF ConfigOK, Configurations
<1>3. /\ c.impl["Deprecated"] \in Nat
      /\ c.proxy["MoCVendors"] \in Nat /\ c.proxy["CommissionSplitter"] \in Nat
  BY DEF ConfigOK, Configurations, Implementations, AddedProxies
<1>4. c.values \in Nat
  BY DEF ConfigOK, Configurations
<1>5. chain.impl \in [Proxies -> Nat]
  BY DEF TypeOK, DeployedOK, ChainRecords
<1>6. otherUpgrades \in Nat
  BY DEF TypeOK, GovernanceOK
<1>. QED
  BY <1>2, <1>3, <1>4, <1>5, <1>6 DEF Recorded, ChangerRecords, Fits

\* What a script may write in its copy of the configuration, field by field.
WithImpl(c, n, v) ==
    [impl |-> [c.impl EXCEPT ![n] = v], proxy |-> c.proxy, changer |-> c.changer,
     values |-> c.values]
WithProxy(c, n, v) ==
    [impl |-> c.impl, proxy |-> [c.proxy EXCEPT ![n] = v], changer |-> c.changer,
     values |-> c.values]
WithSplitter(c, n, v, w) ==
    [impl |-> [c.impl EXCEPT ![n] = v], proxy |-> [c.proxy EXCEPT ![n] = w],
     changer |-> c.changer, values |-> c.values]
WithChanger(c, v) ==
    [impl |-> c.impl, proxy |-> c.proxy, changer |-> v, values |-> c.values]

LEMMA DeployEdits ==
    ASSUME memory \in Configurations, NEW op, Deploy(op)
    PROVE  Advance(op, WithImpl(memory, op.name, NextContract))
<1>1. [memory EXCEPT !.impl[op.name] = NextContract] = WithImpl(memory, op.name, NextContract)
  BY DEF WithImpl, Configurations
<1>. QED
  BY <1>1 DEF Deploy

LEMMA DeployProxyEdits ==
    ASSUME memory \in Configurations, NEW op, DeployProxy(op)
    PROVE  Advance(op, WithProxy(memory, op.name, Len(newProxies) + 1))
<1>1. ASSUME NEW n, NEW v
      PROVE  [memory EXCEPT !.proxy[n] = v] = WithProxy(memory, n, v)
  BY DEF WithProxy, Configurations
<1>. QED
  BY <1>1 DEF DeployProxy

LEMMA SaveSplitterEdits ==
    ASSUME memory \in Configurations, NEW op, SaveSplitter(op)
    PROVE  config' =
           WithSplitter(memory, op.name, newProxies[first[op.name]].impl, first[op.name])
<1>1. config' = [[memory EXCEPT !.impl[op.name] = newProxies[first[op.name]].impl]
                    EXCEPT !.proxy[op.name] = first[op.name]]
  BY DEF SaveSplitter
<1>2. [memory EXCEPT !.impl[op.name] = newProxies[first[op.name]].impl]
         = WithImpl(memory, op.name, newProxies[first[op.name]].impl)
  BY DEF WithImpl, Configurations
<1>3. [WithImpl(memory, op.name, newProxies[first[op.name]].impl)
          EXCEPT !.proxy[op.name] = first[op.name]]
         = WithSplitter(memory, op.name, newProxies[first[op.name]].impl, first[op.name])
  BY DEF WithImpl, WithSplitter
<1>. QED
  BY <1>1, <1>2, <1>3

LEMMA DeployChangerEdits ==
    ASSUME memory \in Configurations, NEW op, DeployChanger(op)
    PROVE  Advance(op, WithChanger(memory, Len(changers) + 1))
<1>1. [memory EXCEPT !.changer = Len(changers) + 1] = WithChanger(memory, Len(changers) + 1)
  BY DEF WithChanger, Configurations
<1>. QED
  BY <1>1 DEF DeployChanger

LEMMA EditsWellTyped ==
    ASSUME NEW c \in Configurations, NEW n, NEW v \in Nat, NEW w \in Nat
    PROVE  /\ WithImpl(c, n, v) \in Configurations
           /\ WithProxy(c, n, v) \in Configurations
           /\ WithSplitter(c, n, v, w) \in Configurations
           /\ WithChanger(c, v) \in Configurations
<1>1. [c.impl EXCEPT ![n] = v] \in [Implementations -> Nat]
  BY DEF Configurations
<1>2. \A u \in Nat : [c.proxy EXCEPT ![n] = u] \in [AddedProxies -> Nat]
  BY DEF Configurations
<1>3. c.impl \in [Implementations -> Nat] /\ c.proxy \in [AddedProxies -> Nat]
      /\ c.changer \in Nat /\ c.values \in Nat
  BY DEF Configurations
<1>. QED
  BY <1>1, <1>2, <1>3 DEF WithImpl, WithProxy, WithSplitter, WithChanger, Configurations

(* ---------------------------------------------------------------------- *)
(* The steps of a script.                                                 *)

LEMMA DeployKeeps ==
    ASSUME IInv, running, NEW op, op = Scripts(release)[script][step], Deploy(op)
    PROVE  IInv'
<1>. PICK before : before = IF step > 1 THEN Scripts(release)[script][step - 1] ELSE None
  OBVIOUS
<1>. PICK m : m = WithImpl(memory, op.name, NextContract)
  OBVIOUS
<1>1. /\ Advance(op, m)
      /\ UNCHANGED <<config, newProxies, first, changers, chain, verified>>
      /\ op.kind \in {"new", "newLinked"}
  <2>1. memory \in Configurations
    BY DEF IInv, TypeOK, ConfigOK
  <2>2. Advance(op, m)
    BY <2>1, DeployEdits
  <2>. QED
    BY <2>2 DEF Deploy
<1>2. UNCHANGED <<release, executes, operatorVars, governanceVars>>
  BY <1>1, AdvanceMoves DEF IInv, TypeOK
<1>3. op.name \in Implementations
  BY <1>1, WhatIsLeft DEF WellFormed
<1>4. NextContract \in Nat
  BY DEF IInv, TypeOK, DeployedOK, NextContract
<1>5. m \in Configurations /\ m.changer = memory.changer /\ m.proxy = memory.proxy
  <2>1. memory \in Configurations
    BY DEF IInv, TypeOK, ConfigOK
  <2>2. WithImpl(memory, op.name, NextContract) \in Configurations
    BY <1>4, <2>1, EditsWellTyped
  <2>. QED
    BY <2>2 DEF WithImpl
<1>6. contracts' \in Seq(ContractRecords)
  <2>1. memory.impl["MoCHelperLib"] \in Nat
    BY DEF IInv, TypeOK, ConfigOK, Configurations, Implementations
  <2>. QED
    BY <1>3, <2>1 DEF Deploy, IInv, TypeOK, DeployedOK, ContractRecords, NoLibrary
<1>7. DeployedOK'
  BY <1>1, <1>2, <1>6 DEF IInv, TypeOK, DeployedOK
<1>8. ConfigOK(m)' /\ ConfigOK(config)'
  BY <1>1, <1>5 DEF IInv, TypeOK, ConfigOK
<1>9. NamesInitialized(m)' /\ NamesInitialized(config)'
  BY <1>1, <1>5 DEF IInv, SplittersInv, NamesInitialized
<1>10. AfterStep(op, before)'
  BY <1>1 DEF AfterStep
<1>11. VerifiedInv' /\ verified' \in BOOLEAN /\ Len(changers) <= Len(changers')
  BY <1>1, <1>2, VerificationStays
<1>. QED
  BY <1>1, <1>7, <1>8, <1>9, <1>10, <1>11, StepKeeps

LEMMA SaveConfigKeeps ==
    ASSUME IInv, running, NEW op, op = Scripts(release)[script][step], SaveConfig(op)
    PROVE  IInv'
<1>. PICK before : before = IF step > 1 THEN Scripts(release)[script][step - 1] ELSE None
  OBVIOUS
<1>. PICK m : m = memory
  OBVIOUS
<1>1. /\ Advance(op, m) /\ op.kind = "save"
      /\ config' = m /\ verified' = FALSE
      /\ UNCHANGED <<contracts, newProxies, first, changers, chain>>
  BY DEF SaveConfig, deployedVars
<1>2. UNCHANGED <<release, executes, operatorVars, governanceVars>>
  BY <1>1, AdvanceMoves DEF IInv, TypeOK
<1>3. step > 1 => AfterStep(before, IF step > 2 THEN Scripts(release)[script][step - 2] ELSE None)
  BY WhatIsLeft
<1>4. DeployedOK'
  BY <1>1, <1>2 DEF IInv, TypeOK, DeployedOK
<1>5. ConfigOK(m)' /\ ConfigOK(config)'
  BY <1>1 DEF IInv, TypeOK, ConfigOK
<1>6. NamesInitialized(m)' /\ NamesInitialized(config)'
  BY <1>1 DEF IInv, SplittersInv, NamesInitialized
<1>7. memory' = m => AfterStep(op, before)'
  <2>1. before.kind \in {"newChanger", "newBatch"} => memory.changer # 0
    BY <1>3 DEF AfterStep, None, Do
  <2>2. before.kind = "newChanger" => NamesFitting(memory)
    BY <1>3 DEF AfterStep, None, Do
  <2>3. before.kind = "newChanger" => NamesFitting(config)'
    BY <1>1, <1>2, <2>2 DEF NamesFitting, Fits
  <2>. QED
    BY <1>1, <2>1, <2>3 DEF AfterStep
<1>8. VerifiedInv' /\ verified' \in BOOLEAN /\ Len(changers) <= Len(changers')
  <2>1. Len(changers) \in Nat
    BY DEF IInv, TypeOK, DeployedOK
  <2>2. ~ verified' /\ verified' \in BOOLEAN
    BY <1>1
  <2>. QED
    BY <1>1, <2>1, <2>2 DEF VerifiedInv
<1>. QED
  BY <1>1, <1>4, <1>5, <1>6, <1>7, <1>8, StepKeeps

\* What is initialized stays so.
LEMMA InitializedStays ==
    ASSUME NEW conf, conf \in Configurations, NamesInitialized(conf),
           Len(newProxies) \in Nat, Len(newProxies') \in Nat, Len(newProxies) <= Len(newProxies'),
           \A i \in 1 .. Len(newProxies) : newProxies[i].initialized => newProxies'[i].initialized
    PROVE  NamesInitialized(conf)'
<1>. SUFFICES ASSUME NEW n \in AddedProxies, conf.proxy[n] # 0
              PROVE  conf.proxy[n] <= Len(newProxies') /\ newProxies'[conf.proxy[n]].initialized
  BY DEF NamesInitialized
<1>1. conf.proxy[n] \in Nat
  BY DEF Configurations
<1>2. conf.proxy[n] <= Len(newProxies) /\ newProxies[conf.proxy[n]].initialized
  BY DEF NamesInitialized
<1>. QED
  BY <1>1, <1>2

\* Where the proxies only grow, a step that saves nothing keeps what is initialized so.
LEMMA NamesStayInitialized ==
    ASSUME IInv, UNCHANGED config, NEW m, m = memory,
           newProxies' \in Seq(ProxyRecords), Len(newProxies) <= Len(newProxies'),
           \A i \in 1 .. Len(newProxies) : newProxies[i].initialized => newProxies'[i].initialized
    PROVE  NamesInitialized(m)' /\ NamesInitialized(config)'
<1>. PICK c : c = config
  OBVIOUS
<1>1. /\ m \in Configurations /\ NamesInitialized(m)
      /\ c \in Configurations /\ NamesInitialized(c)
  BY DEF IInv, TypeOK, ConfigOK, SplittersInv
<1>2. Len(newProxies) \in Nat /\ Len(newProxies') \in Nat
  BY DEF IInv, TypeOK, DeployedOK
<1>3. NamesInitialized(m)'
  BY <1>1, <1>2, InitializedStays
<1>4. NamesInitialized(c)'
  BY <1>1, <1>2, InitializedStays
<1>. QED
  BY <1>3, <1>4 DEF NamesInitialized

\* A proxy more.
LEMMA ProxyAppended ==
    ASSUME NEW s, s \in Seq(ProxyRecords), NEW e \in ProxyRecords, NEW t, t = Append(s, e)
    PROVE  /\ t \in Seq(ProxyRecords) /\ Len(t) = Len(s) + 1 /\ Len(s) \in Nat
           /\ t[Len(s) + 1] = e
           /\ \A i \in 1 .. Len(s) : t[i] = s[i]
<1>. HIDE DEF ProxyRecords
<1>. QED
  OBVIOUS

LEMMA DeployProxyKeeps ==
    ASSUME IInv, running, NEW op, op = Scripts(release)[script][step], DeployProxy(op)
    PROVE  IInv'
<1>. PICK before : before = IF step > 1 THEN Scripts(release)[script][step - 1] ELSE None
  OBVIOUS
<1>. PICK m : m = WithProxy(memory, op.name, Len(newProxies) + 1)
  OBVIOUS
<1>1. /\ Advance(op, m) /\ op.kind = "newProxy"
      /\ newProxies' = Append(newProxies, [impl |-> memory.impl[op.name], initialized |-> TRUE])
      /\ UNCHANGED <<config, contracts, first, changers, chain, verified>>
  <2>1. memory \in Configurations
    BY DEF IInv, TypeOK, ConfigOK
  <2>2. Advance(op, m)
    BY <2>1, DeployProxyEdits
  <2>. QED
    BY <2>2 DEF DeployProxy
<1>2. UNCHANGED <<release, executes, operatorVars, governanceVars>>
  BY <1>1, AdvanceMoves DEF IInv, TypeOK
<1>3. /\ op.name \in Implementations /\ op.name \in AddedProxies
      /\ newProxies \in Seq(ProxyRecords) /\ Len(newProxies) \in Nat
      /\ memory \in Configurations /\ memory.impl[op.name] \in Nat
  <2>1. op.name \in Implementations /\ op.name \in AddedProxies
    BY <1>1, WhatIsLeft DEF WellFormed
  <2>2. memory \in Configurations
    BY DEF IInv, TypeOK, ConfigOK
  <2>3. newProxies \in Seq(ProxyRecords) /\ Len(newProxies) \in Nat
    BY DEF IInv, TypeOK, DeployedOK
  <2>. QED
    BY <2>1, <2>2, <2>3 DEF Configurations
<1>3a. /\ m \in Configurations /\ m.changer = memory.changer
       /\ m.proxy = [memory.proxy EXCEPT ![op.name] = Len(newProxies) + 1]
  <2>1. Len(newProxies) + 1 \in Nat
    BY <1>3
  <2>2. WithProxy(memory, op.name, Len(newProxies) + 1) \in Configurations
    BY <1>3, <2>1, EditsWellTyped
  <2>. QED
    BY <2>2 DEF WithProxy
<1>3b. /\ newProxies' \in Seq(ProxyRecords) /\ Len(newProxies') = Len(newProxies) + 1
       /\ \A i \in 1 .. Len(newProxies) : newProxies'[i] = newProxies[i]
       /\ newProxies'[Len(newProxies) + 1].initialized
  <2>1. [impl |-> memory.impl[op.name], initialized |-> TRUE] \in ProxyRecords
    BY <1>3 DEF ProxyRecords
  <2>. QED
    BY <1>1, <1>3, <2>1, ProxyAppended
<1>4. DeployedOK'
  <2>1. \A n \in AddedProxies : first'[n] <= Len(newProxies')
    BY <1>1, <1>3, <1>3b DEF IInv, TypeOK, DeployedOK
  <2>. QED
    BY <1>1, <1>2, <1>3b, <2>1 DEF IInv, TypeOK, DeployedOK
<1>5. ConfigOK(m)' /\ ConfigOK(config)'
  BY <1>1, <1>3a DEF IInv, TypeOK, ConfigOK
<1>6. NamesInitialized(m)' /\ NamesInitialized(config)'
  <2>1. memory.proxy \in [AddedProxies -> Nat]
    BY DEF IInv, TypeOK, ConfigOK, Configurations
  <2>2. NamesInitialized(config)'
    <3>1. Len(newProxies) <= Len(newProxies')
      BY <1>3, <1>3b
    <3>. PICK c : c = memory
      OBVIOUS
    <3>. QED
      BY <1>1, <1>3b, <3>1, NamesStayInitialized
  <2>3. ASSUME NEW n \in AddedProxies, m.proxy[n] # 0
        PROVE  m.proxy[n] <= Len(newProxies') /\ newProxies'[m.proxy[n]].initialized
    <3>1. CASE n = op.name
      BY <1>3, <1>3a, <1>3b, <2>1, <3>1, SMTT(30)
    <3>2. CASE n # op.name
      <4>1. m.proxy[n] = memory.proxy[n] /\ memory.proxy[n] \in Nat
        BY <1>3a, <2>1, <3>2
      <4>2. memory.proxy[n] <= Len(newProxies) /\ newProxies[memory.proxy[n]].initialized
        BY <2>3, <4>1 DEF IInv, SplittersInv, NamesInitialized
      <4>3. memory.proxy[n] \in 1 .. Len(newProxies)
        BY <1>3, <2>3, <4>1, <4>2
      <4>. QED
        BY <1>3, <1>3b, <4>1, <4>2, <4>3, SMTT(30)
    <3>. QED
      BY <3>1, <3>2
  <2>4. NamesInitialized(m)'
    BY <2>3 DEF NamesInitialized
  <2>. QED
    BY <2>2, <2>4
<1>7. AfterStep(op, before)'
  BY <1>1 DEF AfterStep
<1>8. VerifiedInv' /\ verified' \in BOOLEAN /\ Len(changers) <= Len(changers')
  BY <1>1, <1>2, VerificationStays
<1>. QED
  BY <1>1, <1>4, <1>5, <1>6, <1>7, <1>8, StepKeeps

LEMMA CreateSplitterKeeps ==
    ASSUME IInv, running, NEW op, op = Scripts(release)[script][step], CreateSplitter(op)
    PROVE  IInv'
<1>. PICK before : before = IF step > 1 THEN Scripts(release)[script][step - 1] ELSE None
  OBVIOUS
<1>. PICK m : m = memory
  OBVIOUS
<1>1. /\ Advance(op, m) /\ op.kind = "create"
      /\ contracts' = Append(contracts,
                             [key |-> op.name, initialized |-> FALSE, library |-> NoLibrary])
      /\ newProxies' = Append(newProxies, [impl |-> NextContract, initialized |-> FALSE])
      /\ first' = [first EXCEPT ![op.name] = IF @ = 0 THEN Len(newProxies) + 1 ELSE @]
      /\ UNCHANGED <<config, changers, chain, verified>>
  BY DEF CreateSplitter
<1>2. UNCHANGED <<release, executes, operatorVars, governanceVars>>
  BY <1>1, AdvanceMoves DEF IInv, TypeOK
<1>3. /\ op.name \in Implementations /\ op.name \in AddedProxies
      /\ newProxies \in Seq(ProxyRecords) /\ Len(newProxies) \in Nat
      /\ contracts \in Seq(ContractRecords) /\ NextContract \in Nat
      /\ first \in [AddedProxies -> Nat]
      /\ \A n \in AddedProxies : first[n] <= Len(newProxies)
  <2>1. op.name \in Implementations /\ op.name \in AddedProxies
    BY <1>1, WhatIsLeft DEF WellFormed
  <2>. QED
    BY <2>1 DEF IInv, TypeOK, DeployedOK, NextContract
<1>4. DeployedOK'
  <2>1. contracts' \in Seq(ContractRecords)
    BY <1>1, <1>3 DEF ContractRecords, NoLibrary
  <2>2. newProxies' \in Seq(ProxyRecords) /\ Len(newProxies') = Len(newProxies) + 1
    BY <1>1, <1>3 DEF ProxyRecords
  <2>3. first' \in [AddedProxies -> Nat] /\ \A n \in AddedProxies : first'[n] <= Len(newProxies')
    BY <1>1, <1>3, <2>2
  <2>. QED
    BY <1>1, <1>2, <2>1, <2>2, <2>3 DEF IInv, TypeOK, DeployedOK
<1>5. ConfigOK(m)' /\ ConfigOK(config)'
  BY <1>1 DEF IInv, TypeOK, ConfigOK
<1>6. NamesInitialized(m)' /\ NamesInitialized(config)'
  <2>1. [impl |-> NextContract, initialized |-> FALSE] \in ProxyRecords
    BY DEF ProxyRecords, NextContract, IInv, TypeOK, DeployedOK
  <2>2. /\ newProxies' \in Seq(ProxyRecords) /\ Len(newProxies') = Len(newProxies) + 1
        /\ Len(newProxies) \in Nat
        /\ \A i \in 1 .. Len(newProxies) : newProxies'[i] = newProxies[i]
    BY <1>1, <1>3, <2>1, ProxyAppended
  <2>3. Len(newProxies) <= Len(newProxies')
    BY <2>2
  <2>. QED
    BY <1>1, <2>2, <2>3, NamesStayInitialized
<1>7. AfterStep(op, before)'
  BY <1>1, <1>3 DEF AfterStep
<1>8. VerifiedInv' /\ verified' \in BOOLEAN /\ Len(changers) <= Len(changers')
  BY <1>1, <1>2, VerificationStays
<1>. QED
  BY <1>1, <1>4, <1>5, <1>6, <1>7, <1>8, StepKeeps

LEMMA ProxyInitialized ==
    ASSUME NEW s, s \in Seq(ProxyRecords), NEW i \in 1 .. Len(s),
           NEW t, t = [s EXCEPT ![i].initialized = TRUE]
    PROVE  /\ t \in Seq(ProxyRecords) /\ Len(t) = Len(s)
           /\ t[i].initialized
           /\ \A j \in 1 .. Len(s) : /\ s[j].initialized => t[j].initialized
                                     /\ t[j].impl = s[j].impl
<1>. PICK r : r = [s[i] EXCEPT !.initialized = TRUE]
  OBVIOUS
<1>1. s[i] \in ProxyRecords /\ Len(s) \in Nat
  OBVIOUS
<1>2. r \in ProxyRecords /\ r.initialized /\ r.impl = s[i].impl
  BY <1>1 DEF ProxyRecords
<1>3. t = [s EXCEPT ![i] = r]
  OBVIOUS
<1>. HIDE DEF ProxyRecords
<1>4. Len(t) = Len(s) /\ DOMAIN t = 1 .. Len(s)
  BY <1>1, <1>3
<1>5. \A j \in 1 .. Len(s) : t[j] = IF j = i THEN r ELSE s[j]
  BY <1>1, <1>3
<1>. QED
  BY <1>1, <1>2, <1>3, <1>4, <1>5

LEMMA InitializeSplitterKeeps ==
    ASSUME IInv, running, NEW op, op = Scripts(release)[script][step], InitializeSplitter(op)
    PROVE  IInv'
<1>. PICK before : before = IF step > 1 THEN Scripts(release)[script][step - 1] ELSE None
  OBVIOUS
<1>. PICK m : m = memory
  OBVIOUS
<1>1. /\ Advance(op, m) /\ op.kind = "initialize"
      /\ newProxies' = [newProxies EXCEPT ![first[op.name]].initialized = TRUE]
      /\ UNCHANGED <<config, contracts, first, changers, chain, verified>>
  BY DEF InitializeSplitter
<1>2. UNCHANGED <<release, executes, operatorVars, governanceVars>>
  BY <1>1, AdvanceMoves DEF IInv, TypeOK
<1>3. /\ op.name \in AddedProxies /\ first[op.name] \in 1 .. Len(newProxies)
      /\ newProxies \in Seq(ProxyRecords) /\ Len(newProxies) \in Nat
  <2>1. op.name \in AddedProxies /\ step > 1
        /\ Scripts(release)[script][step - 1] = Do("create", op.name)
    BY <1>1, WhatIsLeft DEF WellFormed
  <2>2. first[op.name] # 0
    BY <2>1, WhatIsLeft DEF AfterStep, Do
  <2>. QED
    BY <2>1, <2>2 DEF IInv, TypeOK, DeployedOK
<1>3a. /\ newProxies' \in Seq(ProxyRecords) /\ Len(newProxies') = Len(newProxies)
       /\ newProxies'[first[op.name]].initialized
       /\ \A i \in 1 .. Len(newProxies) : newProxies[i].initialized => newProxies'[i].initialized
  <2>. PICK t : t = newProxies'
    OBVIOUS
  <2>. QED
    BY <1>1, <1>3, ProxyInitialized, SMTT(30)
<1>4. DeployedOK'
  BY <1>1, <1>2, <1>3a DEF IInv, TypeOK, DeployedOK
<1>5. ConfigOK(m)' /\ ConfigOK(config)'
  BY <1>1 DEF IInv, TypeOK, ConfigOK
<1>6. NamesInitialized(m)' /\ NamesInitialized(config)'
  <2>1. Len(newProxies) <= Len(newProxies')
    BY <1>3, <1>3a
  <2>. QED
    BY <1>1, <1>3a, <2>1, NamesStayInitialized
<1>7. AfterStep(op, before)'
  BY <1>1, <1>3, <1>3a, SMTT(30) DEF AfterStep
<1>8. VerifiedInv' /\ verified' \in BOOLEAN /\ Len(changers) <= Len(changers')
  BY <1>1, <1>2, VerificationStays
<1>. QED
  BY <1>1, <1>4, <1>5, <1>6, <1>7, <1>8, StepKeeps

LEMMA SaveSplitterKeeps ==
    ASSUME IInv, running, NEW op, op = Scripts(release)[script][step], SaveSplitter(op)
    PROVE  IInv'
<1>. PICK before : before = IF step > 1 THEN Scripts(release)[script][step - 1] ELSE None
  OBVIOUS
<1>. PICK m : m = memory
  OBVIOUS
<1>1. /\ Advance(op, m) /\ op.kind = "saveProxy" /\ verified' = FALSE
      /\ UNCHANGED <<contracts, newProxies, first, changers, chain>>
  BY DEF SaveSplitter, deployedVars
<1>2. UNCHANGED <<release, executes, operatorVars, governanceVars>>
  BY <1>1, AdvanceMoves DEF IInv, TypeOK
<1>3. /\ op.name \in AddedProxies /\ first[op.name] \in 1 .. Len(newProxies)
      /\ newProxies[first[op.name]].initialized /\ newProxies[first[op.name]].impl \in Nat
      /\ newProxies \in Seq(ProxyRecords) /\ Len(newProxies) \in Nat
  <2>1. op.name \in AddedProxies /\ step > 1
        /\ Scripts(release)[script][step - 1] = Do("initialize", op.name)
    BY <1>1, WhatIsLeft DEF WellFormed
  <2>2. first[op.name] # 0 /\ newProxies[first[op.name]].initialized
    BY <2>1, WhatIsLeft DEF AfterStep, Do
  <2>3. first[op.name] \in 1 .. Len(newProxies)
    BY <2>1, <2>2 DEF IInv, TypeOK, DeployedOK
  <2>4. newProxies \in Seq(ProxyRecords) /\ Len(newProxies) \in Nat
    BY DEF IInv, TypeOK, DeployedOK
  <2>5. newProxies[first[op.name]] \in ProxyRecords
    BY <2>3, <2>4
  <2>. QED
    BY <2>1, <2>2, <2>3, <2>4, <2>5 DEF ProxyRecords
<1>3a. /\ config' \in Configurations /\ config'.changer = memory.changer
       /\ config'.proxy = [memory.proxy EXCEPT ![op.name] = first[op.name]]
       /\ memory.proxy \in [AddedProxies -> Nat]
  <2>1. memory \in Configurations
    BY DEF IInv, TypeOK, ConfigOK
  <2>2. first[op.name] \in Nat
    BY <1>3
  <2>3. config' = WithSplitter(memory, op.name, newProxies[first[op.name]].impl, first[op.name])
    BY <2>1, SaveSplitterEdits
  <2>4. config' \in Configurations
    BY <1>3, <2>1, <2>2, <2>3, EditsWellTyped
  <2>. QED
    BY <2>1, <2>3, <2>4 DEF WithSplitter, Configurations
<1>4. DeployedOK'
  BY <1>1, <1>2 DEF IInv, TypeOK, DeployedOK
<1>5. ConfigOK(m)' /\ ConfigOK(config)'
  BY <1>1, <1>3a DEF IInv, TypeOK, ConfigOK
<1>6. NamesInitialized(m)' /\ NamesInitialized(config)'
  <2>1. NamesInitialized(m)'
    BY <1>1 DEF IInv, SplittersInv, NamesInitialized
  <2>2. ASSUME NEW n \in AddedProxies, config'.proxy[n] # 0
        PROVE  config'.proxy[n] <= Len(newProxies) /\ newProxies[config'.proxy[n]].initialized
    <3>1. CASE n = op.name
      BY <1>3, <1>3a, <3>1, SMTT(30)
    <3>2. CASE n # op.name
      <4>1. config'.proxy[n] = memory.proxy[n]
        BY <1>3a, <3>2
      <4>. QED
        BY <2>2, <4>1 DEF IInv, SplittersInv, NamesInitialized
    <3>. QED
      BY <3>1, <3>2
  <2>. QED
    BY <1>1, <2>1, <2>2 DEF NamesInitialized
<1>7. AfterStep(op, before)'
  BY <1>1 DEF AfterStep
<1>8. VerifiedInv' /\ verified' \in BOOLEAN /\ Len(changers) <= Len(changers')
  <2>1. Len(changers) \in Nat
    BY DEF IInv, TypeOK, DeployedOK
  <2>2. ~ verified' /\ verified' \in BOOLEAN
    BY <1>1
  <2>. QED
    BY <1>1, <2>1, <2>2 DEF VerifiedInv
<1>. QED
  BY <1>1, <1>4, <1>5, <1>6, <1>7, <1>8, StepKeeps

LEMMA ChangersGrow ==
    ASSUME NEW R, NEW s, s \in Seq(R), NEW e \in R, NEW t, t = Append(s, e)
    PROVE  /\ t \in Seq(R) /\ Len(t) = Len(s) + 1 /\ Len(s) \in Nat
           /\ t[Len(s) + 1] = e
           /\ \A i \in 1 .. Len(s) : t[i] = s[i]
  OBVIOUS

LEMMA DeployChangerKeeps ==
    ASSUME IInv, running, NEW op, op = Scripts(release)[script][step], DeployChanger(op)
    PROVE  IInv'
<1>. PICK before : before = IF step > 1 THEN Scripts(release)[script][step - 1] ELSE None
  OBVIOUS
<1>. PICK m : m = WithChanger(memory, Len(changers) + 1)
  OBVIOUS
<1>. PICK e : e = IF op.kind = "newBatch" THEN [Recorded(memory) EXCEPT !.scheduled = FALSE]
                                         ELSE Recorded(memory)
  OBVIOUS
<1>1. /\ Advance(op, m) /\ op.kind \in {"newChanger", "newBatch"}
      /\ changers' = Append(changers, e)
      /\ UNCHANGED <<config, contracts, newProxies, first, chain, verified>>
  <2>1. memory \in Configurations
    BY DEF IInv, TypeOK, ConfigOK
  <2>2. Advance(op, m)
    BY <2>1, DeployChangerEdits
  <2>. QED
    BY <2>2 DEF DeployChanger
<1>2. UNCHANGED <<release, executes, operatorVars, governanceVars>>
  BY <1>1, AdvanceMoves DEF IInv, TypeOK
<1>3. /\ e \in ChangerRecords(release)
      /\ op.kind = "newChanger" => e = Recorded(memory) /\ e.scheduled /\ Fits(e, memory)
  <2>1. TypeOK /\ ConfigOK(memory)
    BY DEF IInv, TypeOK
  <2>2. Recorded(memory) \in ChangerRecords(release)
        /\ [Recorded(memory) EXCEPT !.scheduled = FALSE] \in ChangerRecords(release)
    BY <2>1, RecordedWellTyped
  <2>3. Recorded(memory).scheduled /\ Fits(Recorded(memory), memory)
    BY <2>1, RecordedWellTyped
  <2>4. op.kind = "newChanger" => e = Recorded(memory)
    OBVIOUS
  <2>. QED
    BY <2>2, <2>3, <2>4
<1>3a. /\ changers' \in Seq(ChangerRecords(release)) /\ Len(changers') = Len(changers) + 1
       /\ Len(changers) \in Nat
       /\ changers'[Len(changers) + 1] = e
       /\ \A i \in 1 .. Len(changers) : changers'[i] = changers[i]
  <2>1. changers \in Seq(ChangerRecords(release))
    BY DEF IInv, TypeOK, DeployedOK
  <2>. QED
    BY <1>1, <1>3, <2>1, ChangersGrow
<1>3b. /\ m \in Configurations /\ m.changer = Len(changers) + 1
       /\ m.impl = memory.impl /\ m.proxy = memory.proxy /\ m.values = memory.values
  <2>1. memory \in Configurations /\ Len(changers) + 1 \in Nat
    BY <1>3a DEF IInv, TypeOK, ConfigOK
  <2>2. WithChanger(memory, Len(changers) + 1) \in Configurations
    BY <2>1, EditsWellTyped
  <2>. QED
    BY <2>2 DEF WithChanger
<1>4. DeployedOK'
  BY <1>1, <1>2, <1>3a DEF IInv, TypeOK, DeployedOK
<1>5. ConfigOK(m)' /\ ConfigOK(config)'
  <2>1. config.changer \in Nat
    BY DEF IInv, TypeOK, ConfigOK, Configurations
  <2>. QED
    BY <1>1, <1>3a, <1>3b, <2>1 DEF IInv, TypeOK, ConfigOK
<1>6. NamesInitialized(m)' /\ NamesInitialized(config)'
  BY <1>1, <1>3b DEF IInv, SplittersInv, NamesInitialized
<1>7. memory' = m => AfterStep(op, before)'
  <2>1. memory' = m => memory'.changer # 0
    BY <1>3a, <1>3b
  <2>2. ASSUME op.kind = "newChanger"
        PROVE  NamesFitting(m)'
    <3>1. Fits(e, m)'
      BY <1>2, <1>3, <1>3b, <2>2 DEF Fits
    <3>. QED
      BY <1>3, <1>3a, <1>3b, <2>2, <3>1 DEF NamesFitting
  <2>3. op.kind = "newChanger" /\ memory' = m => NamesFitting(memory)'
    BY <2>2 DEF NamesFitting, Fits
  <2>. QED
    BY <1>1, <2>1, <2>3 DEF AfterStep
<1>8. VerifiedInv' /\ verified' \in BOOLEAN /\ Len(changers) <= Len(changers')
  <2>1. ASSUME verified'
        PROVE  config'.changer # 0 /\ Fits(InConfig, config)'
    <3>1. config.changer # 0 /\ Fits(changers[config.changer], config)
      BY <1>1, <2>1 DEF IInv, VerifiedInv, InConfig
    <3>2. config.changer \in 1 .. Len(changers)
      BY <3>1 DEF IInv, TypeOK, ConfigOK, Configurations
    <3>. QED
      BY <1>1, <1>2, <1>3a, <3>1, <3>2 DEF Fits, InConfig
  <2>2. verified' \in BOOLEAN
    BY <1>1 DEF IInv, TypeOK
  <2>. QED
    BY <1>3a, <2>1, <2>2 DEF VerifiedInv
<1>. QED
  BY <1>1, <1>4, <1>5, <1>6, <1>7, <1>8, StepKeeps

\* A batch is scheduled in the changer just deployed.
LEMMA SchedulesLast ==
    ASSUME IInv, running, NEW op, op = Scripts(release)[script][step], op.kind = "schedule"
    PROVE  config = memory /\ memory.changer \in 1 .. Len(changers)
<1>1. /\ step > 2
      /\ Scripts(release)[script][step - 1].kind = "save"
      /\ Scripts(release)[script][step - 2].kind = "newBatch"
  <2>1. step \in Nat /\ (step > 2 => step > 1)
    BY DEF IInv, TypeOK, PlaceOK
  <2>. QED
    BY <2>1, WhatIsLeft DEF WellFormed
<1>2. step > 1
  BY <1>1 DEF IInv, TypeOK, PlaceOK
<1>3. config = memory /\ config.changer # 0
  BY <1>1, <1>2, WhatIsLeft DEF AfterStep
<1>. QED
  BY <1>3 DEF IInv, TypeOK, ConfigOK, Configurations

LEMMA ScheduleBatchKeeps ==
    ASSUME IInv, running, NEW op, op = Scripts(release)[script][step], ScheduleBatch(op)
    PROVE  IInv'
<1>. PICK before : before = IF step > 1 THEN Scripts(release)[script][step - 1] ELSE None
  OBVIOUS
<1>. PICK m : m = memory
  OBVIOUS
<1>. PICK e : e = Recorded(memory)
  OBVIOUS
<1>1. /\ Advance(op, m) /\ op.kind = "schedule"
      /\ changers' = [changers EXCEPT ![memory.changer] = e]
      /\ UNCHANGED <<config, contracts, newProxies, first, chain, verified>>
  BY DEF ScheduleBatch
<1>2. UNCHANGED <<release, executes, operatorVars, governanceVars>>
  BY <1>1, AdvanceMoves DEF IInv, TypeOK
<1>3. /\ e \in ChangerRecords(release) /\ e.scheduled /\ Fits(e, memory)
  <2>1. TypeOK /\ ConfigOK(memory)
    BY DEF IInv, TypeOK
  <2>. QED
    BY <2>1, RecordedWellTyped
<1>3a. config = memory /\ config.changer \in 1 .. Len(changers)
  BY <1>1, SchedulesLast
<1>3b. /\ changers' \in Seq(ChangerRecords(release)) /\ Len(changers') = Len(changers)
       /\ Len(changers) \in Nat
       /\ changers'[config.changer] = e
  <2>1. changers \in Seq(ChangerRecords(release))
    BY DEF IInv, TypeOK, DeployedOK
  <2>. QED
    BY <1>1, <1>3, <1>3a, <2>1
<1>4. DeployedOK'
  BY <1>1, <1>2, <1>3b DEF IInv, TypeOK, DeployedOK
<1>5. ConfigOK(m)' /\ ConfigOK(config)'
  BY <1>1, <1>3b DEF IInv, TypeOK, ConfigOK
<1>6. NamesInitialized(m)' /\ NamesInitialized(config)'
  BY <1>1 DEF IInv, SplittersInv, NamesInitialized
<1>6a. NamesFitting(config)'
  BY <1>1, <1>2, <1>3, <1>3a, <1>3b DEF NamesFitting, Fits
<1>7. AfterStep(op, before)'
  BY <1>1, <1>6a DEF AfterStep
<1>8. VerifiedInv' /\ verified' \in BOOLEAN /\ Len(changers) <= Len(changers')
  <2>1. verified' \in BOOLEAN
    BY <1>1 DEF IInv, TypeOK
  <2>. QED
    BY <1>3b, <1>6a, <2>1 DEF VerifiedInv, InConfig, NamesFitting
<1>. QED
  BY <1>1, <1>4, <1>5, <1>6, <1>7, <1>8, StepKeeps

LEMMA VerifyKeeps ==
    ASSUME IInv, running, NEW op, op = Scripts(release)[script][step], Verify(op)
    PROVE  IInv'
<1>. PICK before : before = IF step > 1 THEN Scripts(release)[script][step - 1] ELSE None
  OBVIOUS
<1>. PICK m : m = memory
  OBVIOUS
<1>1. /\ Advance(op, m) /\ op.kind \in {"verify", "verifyBatch"}
      /\ verified' = MatchesConfig(InConfig) /\ config.changer # 0
      /\ UNCHANGED <<config, contracts, newProxies, first, changers, chain>>
  BY DEF Verify, Succeeds, deployedVars
<1>2. UNCHANGED <<release, executes, operatorVars, governanceVars>>
  BY <1>1, AdvanceMoves DEF IInv, TypeOK
<1>4. DeployedOK'
  BY <1>1, <1>2 DEF IInv, TypeOK, DeployedOK
<1>5. ConfigOK(m)' /\ ConfigOK(config)'
  BY <1>1 DEF IInv, TypeOK, ConfigOK
<1>6. NamesInitialized(m)' /\ NamesInitialized(config)'
  BY <1>1 DEF IInv, SplittersInv, NamesInitialized
<1>7. AfterStep(op, before)'
  BY <1>1 DEF AfterStep
<1>8. VerifiedInv' /\ verified' \in BOOLEAN /\ Len(changers) <= Len(changers')
  <2>1. Len(changers) \in Nat
    BY DEF IInv, TypeOK, DeployedOK
  <2>2. verified' \in BOOLEAN
    BY <1>1 DEF MatchesConfig, MatchesUpgrades
  <2>3. ASSUME verified' PROVE config'.changer # 0 /\ Fits(InConfig, config)'
    <3>1. MatchesConfig(InConfig)
      BY <1>1, <2>3
    <3>2. Fits(InConfig, config)
      BY <3>1 DEF MatchesConfig, MatchesUpgrades, MatchesAddresses, MatchesValues, Recorded, Fits
    <3>. QED
      BY <1>1, <1>2, <3>2 DEF Fits, InConfig
  <2>. QED
    BY <1>1, <2>1, <2>2, <2>3 DEF VerifiedInv
<1>. QED
  BY <1>1, <1>4, <1>5, <1>6, <1>7, <1>8, StepKeeps

LEMMA ContractInitialized ==
    ASSUME NEW s, s \in Seq(ContractRecords), NEW i, NEW t, t = [s EXCEPT ![i].initialized = TRUE]
    PROVE  t \in Seq(ContractRecords) /\ Len(t) = Len(s)
           /\ \A j \in 1 .. Len(s) : t[j].key = s[j].key /\ t[j].library = s[j].library
<1>. PICK r : r = [s[i] EXCEPT !.initialized = TRUE]
  OBVIOUS
<1>1. Len(s) \in Nat /\ \A j \in 1 .. Len(s) : s[j] \in ContractRecords
  OBVIOUS
<1>2. i \in 1 .. Len(s) => r \in ContractRecords /\ r.key = s[i].key /\ r.library = s[i].library
  BY <1>1 DEF ContractRecords
<1>3. t = [s EXCEPT ![i] = r]
  OBVIOUS
<1>. HIDE DEF ContractRecords
<1>4. Len(t) = Len(s) /\ DOMAIN t = 1 .. Len(s)
  BY <1>1, <1>3
<1>5. \A j \in 1 .. Len(s) : t[j] = IF j = i THEN r ELSE s[j]
  BY <1>1, <1>3
<1>6. \A j \in 1 .. Len(s) : t[j] \in ContractRecords
  BY <1>1, <1>2, <1>5
<1>7. t \in Seq(ContractRecords)
  <2>1. t \in [1 .. Len(s) -> ContractRecords]
    BY <1>3, <1>4, <1>6
  <2>. QED
    BY <1>1, <2>1, SeqDef
<1>. QED
  BY <1>1, <1>2, <1>4, <1>5, <1>7

LEMMA InitImplementationKeeps ==
    ASSUME IInv, running, NEW op, op = Scripts(release)[script][step], InitImplementation(op)
    PROVE  IInv'
<1>. PICK before : before = IF step > 1 THEN Scripts(release)[script][step - 1] ELSE None
  OBVIOUS
<1>. PICK m : m = memory
  OBVIOUS
<1>1. /\ Advance(op, m) /\ op.kind = "initImplementation"
      /\ contracts' = [contracts EXCEPT ![config.impl[op.name]].initialized = TRUE]
      /\ UNCHANGED <<config, newProxies, first, changers, chain, verified>>
  BY DEF InitImplementation
<1>2. UNCHANGED <<release, executes, operatorVars, governanceVars>>
  BY <1>1, AdvanceMoves DEF IInv, TypeOK
<1>4. DeployedOK'
  <2>1. contracts' \in Seq(ContractRecords)
    <3>1. contracts \in Seq(ContractRecords)
      BY DEF IInv, TypeOK, DeployedOK
    <3>. QED
      BY <1>1, <3>1, ContractInitialized
  <2>. QED
    BY <1>1, <1>2, <2>1 DEF IInv, TypeOK, DeployedOK
<1>5. ConfigOK(m)' /\ ConfigOK(config)'
  BY <1>1 DEF IInv, TypeOK, ConfigOK
<1>6. NamesInitialized(m)' /\ NamesInitialized(config)'
  BY <1>1 DEF IInv, SplittersInv, NamesInitialized
<1>7. AfterStep(op, before)'
  BY <1>1 DEF AfterStep
<1>8. VerifiedInv' /\ verified' \in BOOLEAN /\ Len(changers) <= Len(changers')
  BY <1>1, <1>2, VerificationStays
<1>. QED
  BY <1>1, <1>4, <1>5, <1>6, <1>7, <1>8, StepKeeps

LEMMA OnlyPrintKeeps ==
    ASSUME IInv, running, NEW op, op = Scripts(release)[script][step], OnlyPrint(op)
    PROVE  IInv'
<1>. PICK before : before = IF step > 1 THEN Scripts(release)[script][step - 1] ELSE None
  OBVIOUS
<1>. PICK m : m = memory
  OBVIOUS
<1>1. /\ Advance(op, m) /\ op.kind \in {"print", "split", "executeVerified"}
      /\ UNCHANGED <<config, contracts, newProxies, first, changers, chain, verified>>
  BY DEF OnlyPrint, deployedVars
<1>2. UNCHANGED <<release, executes, operatorVars, governanceVars>>
  BY <1>1, AdvanceMoves DEF IInv, TypeOK
<1>4. DeployedOK'
  BY <1>1, <1>2 DEF IInv, TypeOK, DeployedOK
<1>5. ConfigOK(m)' /\ ConfigOK(config)'
  BY <1>1 DEF IInv, TypeOK, ConfigOK
<1>6. NamesInitialized(m)' /\ NamesInitialized(config)'
  BY <1>1 DEF IInv, SplittersInv, NamesInitialized
<1>7. AfterStep(op, before)'
  BY <1>1 DEF AfterStep
<1>8. VerifiedInv' /\ verified' \in BOOLEAN /\ Len(changers) <= Len(changers')
  BY <1>1, <1>2, VerificationStays
<1>. QED
  BY <1>1, <1>4, <1>5, <1>6, <1>7, <1>8, StepKeeps

(* ---------------------------------------------------------------------- *)
(* Executing a changer.                                                   *)

LEMMA ExecutedChanger ==
    ASSUME NEW c, c \in ChangerRecords(release)
    PROVE  LET d == Executed(c)
           IN  /\ d \in ChangerRecords(release)
               /\ d.upgrades = c.upgrades /\ d.before = c.before
               /\ d.vendors = c.vendors /\ d.splitter = c.splitter /\ d.values = c.values
               /\ d.upgradesSeen = c.upgradesSeen /\ d.applied >= c.applied
               /\ d.scheduled => c.scheduled
               /\ release \notin {"v0.1.12", "governor"} => d.scheduled = c.scheduled
               /\ c.scheduled => d.scheduled \/ d.applied > 0
<1>1. c.scheduled \in BOOLEAN /\ c.applied \in Nat
  BY DEF ChangerRecords
<1>2. Executed(c).scheduled = (c.scheduled /\ release \notin {"v0.1.12", "governor"})
  BY DEF Executed, ChangerRecords
<1>3. Executed(c).applied
         = IF c.scheduled /\ release \notin Repeatable THEN c.applied + 1 ELSE c.applied
  BY DEF Executed, ChangerRecords
<1>4. /\ Executed(c).upgrades = c.upgrades /\ Executed(c).before = c.before
      /\ Executed(c).vendors = c.vendors /\ Executed(c).splitter = c.splitter
      /\ Executed(c).values = c.values /\ Executed(c).upgradesSeen = c.upgradesSeen
  BY DEF Executed, ChangerRecords
<1>5. Executed(c) \in ChangerRecords(release)
  <2>1. ASSUME NEW x \in BOOLEAN, NEW y \in Nat
        PROVE  [c EXCEPT !.scheduled = x, !.applied = y] \in ChangerRecords(release)
    BY DEF ChangerRecords
  <2>2. /\ (c.scheduled /\ release \notin {"v0.1.12", "governor"}) \in BOOLEAN
        /\ (IF c.scheduled /\ release \notin Repeatable THEN c.applied + 1 ELSE c.applied) \in Nat
    BY <1>1
  <2>. QED
    BY <2>1, <2>2 DEF Executed
<1>6. Executed(c).applied >= c.applied
  BY <1>1, <1>3
<1>7. Executed(c).scheduled => c.scheduled
  BY <1>1, <1>2
<1>8. release \notin {"v0.1.12", "governor"} => Executed(c).scheduled = c.scheduled
  BY <1>1, <1>2
<1>9. ASSUME c.scheduled PROVE Executed(c).scheduled \/ Executed(c).applied > 0
  <2>1. CASE release \in {"v0.1.12", "governor"}
    BY <1>1, <1>3, <1>9, <2>1 DEF Repeatable
  <2>2. CASE release \notin {"v0.1.12", "governor"}
    BY <1>8, <1>9, <2>2
  <2>. QED
    BY <2>1, <2>2
<1>. QED
  BY <1>4, <1>5, <1>6, <1>7, <1>8, <1>9

\* What executing a changer does to what is deployed.
LEMMA ExecuteEffects ==
    ASSUME TypeOK, NEW id, id \in 1 .. Len(changers), Execute(id)
    PROVE  /\ changers' \in Seq(ChangerRecords(release)) /\ Len(changers') = Len(changers)
           /\ \A i \in 1 .. Len(changers) :
                 /\ changers'[i].upgrades = changers[i].upgrades
                 /\ changers'[i].before = changers[i].before
                 /\ changers'[i].vendors = changers[i].vendors
                 /\ changers'[i].splitter = changers[i].splitter
                 /\ changers'[i].values = changers[i].values
                 /\ changers'[i].upgradesSeen = changers[i].upgradesSeen
                 /\ changers'[i].applied >= changers[i].applied
                 /\ changers'[i].scheduled => changers[i].scheduled
                 /\ i # id \/ release \notin {"v0.1.12", "governor"} =>
                       changers'[i].scheduled = changers[i].scheduled
                 /\ changers[i].scheduled =>
                       changers'[i].scheduled \/ changers'[i].applied > 0
<1>. PICK r : r = Executed(changers[id])
  OBVIOUS
<1>1. /\ changers \in Seq(ChangerRecords(release)) /\ Len(changers) \in Nat
      /\ \A i \in 1 .. Len(changers) : changers[i] \in ChangerRecords(release)
  BY DEF TypeOK, DeployedOK
<1>2. changers' = [changers EXCEPT ![id] = r]
  BY DEF Execute
<1>3. r \in ChangerRecords(release)
  BY <1>1, ExecutedChanger
<1>4. changers' \in Seq(ChangerRecords(release)) /\ Len(changers') = Len(changers)
  BY <1>1, <1>2, <1>3, ExceptSeq
<1>5. \A i \in 1 .. Len(changers) : changers'[i] = IF i = id THEN r ELSE changers[i]
  BY <1>1, <1>2
<1>6. \A i \in 1 .. Len(changers) : changers[i].applied \in Nat
  BY <1>1 DEF ChangerRecords
<1>. QED
  BY <1>1, <1>4, <1>5, <1>6, ExecutedChanger

\* What it does to the system.
LEMMA ExecuteUpgrades ==
    ASSUME TypeOK, NEW id, id \in 1 .. Len(changers), Execute(id)
    PROVE  /\ chain' \in ChainRecords
           /\ ~ changers[id].scheduled => chain' = chain
           /\ changers[id].scheduled =>
                /\ chain'.impl = ImplementationsAfter(changers[id])
                /\ release = "v0.1.12" => /\ chain'.splitter = changers[id].splitter
                                          /\ chain'.vendors = changers[id].vendors
                /\ release \in SetsValues => chain'.values = changers[id].values
<1>. PICK c : c = changers[id]
  OBVIOUS
<1>1. c \in ChangerRecords(release) /\ chain \in ChainRecords
  BY DEF TypeOK, DeployedOK
<1>2. CASE ~ c.scheduled
  BY <1>1, <1>2 DEF Execute
<1>3. CASE c.scheduled
  <2>1. chain' = [ impl |-> ImplementationsAfter(c),
                   splitter |-> IF release = "v0.1.12" THEN c.splitter ELSE chain.splitter,
                   vendors |-> IF release = "v0.1.12" THEN c.vendors ELSE chain.vendors,
                   values |-> IF release \in SetsValues THEN c.values ELSE chain.values ]
    BY <1>3 DEF Execute
  <2>2. /\ c.splitter \in Nat /\ c.vendors \in Nat /\ c.values \in Nat /\ c.deprecated \in Nat
        /\ c.upgrades \in [DOMAIN Upgrades(release) -> Nat] /\ c.before \in [Proxies -> Nat]
        /\ chain.splitter \in Nat /\ chain.vendors \in Nat /\ chain.values \in Int
        /\ chain.impl \in [Proxies -> Nat]
    BY <1>1 DEF ChangerRecords, ChainRecords
  <2>3. ImplementationsAfter(c) \in [Proxies -> Nat]
    <3>1. CASE release = "v0.1.16.2"
      BY <2>2, <3>1 DEF ImplementationsAfter
    <3>2. CASE release = "v0.2.0"
      BY <2>2, <3>2 DEF ImplementationsAfter
    <3>3. CASE release \notin {"v0.1.16.2", "v0.2.0"}
      BY <2>2, <3>3 DEF ImplementationsAfter
    <3>. QED
      BY <3>1, <3>2, <3>3
  <2>4. chain' \in ChainRecords
    BY <2>1, <2>2, <2>3 DEF ChainRecords
  <2>. QED
    BY <1>3, <2>1, <2>4
<1>. QED
  BY <1>2, <1>3

\* A changer that fits the configuration configures the system.
LEMMA FittingConfigures ==
    ASSUME TypeOK, NEW id, id \in 1 .. Len(changers), Execute(id), changers[id].scheduled,
           release \notin {"v0.1.16.2", "v0.2.0"}, Fits(changers[id], config)
    PROVE  Configured(chain')
<1>1. /\ chain'.impl = ImplementationsAfter(changers[id])
      /\ release = "v0.1.12" => /\ chain'.splitter = changers[id].splitter
                                /\ chain'.vendors = changers[id].vendors
      /\ release \in SetsValues => chain'.values = changers[id].values
  BY ExecuteUpgrades
<1>2. DOMAIN Upgrades(release) \subseteq Proxies
  BY UpgradesWellTyped DEF TypeOK, PlaceOK
<1>3. \A p \in DOMAIN Upgrades(release) : chain'.impl[p] = config.impl[Upgrades(release)[p]]
  BY <1>1, <1>2 DEF ImplementationsAfter, Fits
<1>. QED
  BY <1>1, <1>3 DEF Configured, Fits

LEMMA FitsStays ==
    ASSUME TypeOK, NEW id, id \in 1 .. Len(changers), Execute(id), release' = release,
           config' = config, VerifiedInv, verified' = verified
    PROVE  VerifiedInv'
<1>. SUFFICES ASSUME verified'
              PROVE  config'.changer # 0 /\ Fits(InConfig, config)'
  BY DEF VerifiedInv
<1>1. config.changer # 0 /\ Fits(changers[config.changer], config)
  BY DEF VerifiedInv, InConfig
<1>2. config.changer \in 1 .. Len(changers)
  BY <1>1 DEF TypeOK, ConfigOK, Configurations
<1>. QED
  BY <1>1, <1>2, ExecuteEffects DEF Fits, InConfig

\* The changer that a script executes.
LEMMA ExecutesFitting ==
    ASSUME IInv, running, executes, NEW op, op = Scripts(release)[script][step],
           ExecuteChange(op)
    PROVE  /\ config.changer \in 1 .. Len(changers) /\ Execute(config.changer)
           /\ Fits(changers[config.changer], config)
           /\ op.kind \in {"execute", "executeOrThrow"} => changers[config.changer].scheduled
<1>1. Execute(config.changer) /\ (op.kind = "executeVerified" => verified)
      /\ op.kind \in {"execute", "executeOrThrow", "executeVerified"}
  BY DEF ExecuteChange
<1>2. CASE op.kind = "executeVerified"
  BY <1>1, <1>2 DEF IInv, VerifiedInv, InConfig, TypeOK, ConfigOK, Configurations
<1>3. CASE op.kind \in {"execute", "executeOrThrow"}
  <2>1. step \in Nat /\ (step > 2 => step > 1)
    BY DEF IInv, TypeOK, PlaceOK
  <2>2. \/ step > 1 /\ Scripts(release)[script][step - 1].kind = "schedule"
        \/ /\ step > 2
           /\ Scripts(release)[script][step - 1].kind = "save"
           /\ Scripts(release)[script][step - 2].kind = "newChanger"
    BY <1>3, WhatIsLeft DEF WellFormed
  <2>3. NamesFitting(config)
    BY <2>1, <2>2, WhatIsLeft DEF AfterStep
  <2>. QED
    BY <1>1, <2>3 DEF NamesFitting, IInv, TypeOK, ConfigOK, Configurations
<1>. QED
  BY <1>1, <1>2, <1>3

LEMMA ExecuteChangeKeeps ==
    ASSUME IInv, running, NEW op, op = Scripts(release)[script][step], ExecuteChange(op)
    PROVE  IInv'
<1>. PICK before : before = IF step > 1 THEN Scripts(release)[script][step - 1] ELSE None
  OBVIOUS
<1>. PICK m : m = memory
  OBVIOUS
<1>1. /\ Advance(op, m) /\ op.kind \in {"execute", "executeOrThrow", "executeVerified"}
      /\ UNCHANGED <<config, contracts, newProxies, first, verified>>
  BY DEF ExecuteChange
<1>2. UNCHANGED <<release, executes, operatorVars, governanceVars>>
  BY <1>1, AdvanceMoves DEF IInv, TypeOK
<1>3. /\ changers' \in Seq(ChangerRecords(release)) /\ Len(changers') = Len(changers)
      /\ chain' \in ChainRecords
      /\ VerifiedInv' /\ Len(changers) \in Nat
  <2>1. TypeOK /\ VerifiedInv
    BY DEF IInv
  <2>2. /\ changers \in Seq(ChangerRecords(release)) /\ Len(changers) \in Nat
        /\ chain \in ChainRecords
    BY <2>1 DEF TypeOK, DeployedOK
  <2>3. CASE executes
    <3>1. config.changer \in 1 .. Len(changers) /\ Execute(config.changer)
      BY <2>3, ExecutesFitting
    <3>2. changers' \in Seq(ChangerRecords(release)) /\ Len(changers') = Len(changers)
      BY <2>1, <3>1, ExecuteEffects
    <3>3. chain' \in ChainRecords
      BY <2>1, <3>1, ExecuteUpgrades
    <3>4. VerifiedInv'
      BY <1>1, <1>2, <2>1, <3>1, FitsStays
    <3>. QED
      BY <2>2, <3>2, <3>3, <3>4
  <2>4. CASE ~ executes
    <3>1. UNCHANGED <<chain, changers>>
      BY <2>4 DEF ExecuteChange
    <3>. QED
      BY <1>1, <1>2, <2>1, <2>2, <3>1 DEF VerifiedInv, Fits, InConfig
  <2>. QED
    BY <2>3, <2>4 DEF IInv, TypeOK, PlaceOK
<1>4. DeployedOK'
  BY <1>1, <1>2, <1>3 DEF IInv, TypeOK, DeployedOK
<1>5. ConfigOK(m)' /\ ConfigOK(config)'
  BY <1>1, <1>3 DEF IInv, TypeOK, ConfigOK
<1>6. NamesInitialized(m)' /\ NamesInitialized(config)'
  BY <1>1 DEF IInv, SplittersInv, NamesInitialized
<1>7. AfterStep(op, before)'
  BY <1>1 DEF AfterStep
<1>8. VerifiedInv' /\ verified' \in BOOLEAN /\ Len(changers) <= Len(changers')
  BY <1>1, <1>3 DEF IInv, TypeOK
<1>. QED
  BY <1>1, <1>4, <1>5, <1>6, <1>7, <1>8, StepKeeps

LEMMA StopKeeps ==
    ASSUME IInv, running' = FALSE, step' = 1, memory' = config,
           UNCHANGED <<release, executes, script, config, contracts, newProxies, first, changers,
                       chain, verified, orderly, restarts, proposed, proposals, otherUpgrades>>
    PROVE  IInv'
<1>1. PlaceOK'
  <2>1. ~ running' /\ running' \in BOOLEAN
    BY Zenon
  <2>2. /\ release' \in AllReleases /\ executes' \in BOOLEAN
        /\ script' \in 1 .. Len(Scripts(release')) + 1
    BY DEF IInv, TypeOK, PlaceOK
  <2>3. step' \in Nat \ {0}
    OBVIOUS
  <2>. QED
    BY <2>1, <2>2, <2>3 DEF PlaceOK
<1>2. DeployedOK' /\ GovernanceOK' /\ verified' \in BOOLEAN
  BY DEF IInv, TypeOK, DeployedOK, GovernanceOK
<1>3. ConfigOK(memory)' /\ ConfigOK(config)'
  BY DEF IInv, TypeOK, ConfigOK
<1>4. PositionInv' /\ VerifiedInv' /\ SplittersInv'
  BY DEF IInv, PositionInv, VerifiedInv, SplittersInv, NamesInitialized, Fits, InConfig
<1>. QED
  BY <1>1, <1>2, <1>3, <1>4 DEF IInv, TypeOK

LEMMA RunStepKeeps ==
    ASSUME IInv, RunStep
    PROVE  IInv'
<1>. PICK op : op = Scripts(release)[script][step]
  OBVIOUS
<1>1. running
  BY DEF RunStep
<1>2. \/ Deploy(op) \/ SaveConfig(op) \/ DeployProxy(op) \/ CreateSplitter(op)
      \/ InitializeSplitter(op) \/ SaveSplitter(op) \/ DeployChanger(op)
      \/ ScheduleBatch(op) \/ ExecuteChange(op) \/ Verify(op) \/ InitImplementation(op)
      \/ OnlyPrint(op) \/ Fail(op)
  BY DEF RunStep
<1>3. CASE Fail(op)
  <2>1. /\ running' = FALSE /\ step' = 1 /\ memory' = config
        /\ UNCHANGED <<release, executes, script, config, contracts, newProxies, first, changers,
                       chain, verified, orderly, restarts, proposed, proposals, otherUpgrades>>
    BY <1>3 DEF Fail, deployedVars, operatorVars, governanceVars
  <2>. QED
    BY <2>1, StopKeeps
<1>. QED
  BY <1>1, <1>2, <1>3, DeployKeeps, SaveConfigKeeps, DeployProxyKeeps, CreateSplitterKeeps,
     InitializeSplitterKeeps, SaveSplitterKeeps, DeployChangerKeeps, ScheduleBatchKeeps,
     ExecuteChangeKeeps, VerifyKeeps, InitImplementationKeeps, OnlyPrintKeeps

(* ---------------------------------------------------------------------- *)
(* The operator and governance.                                           *)

LEMMA CrashKeeps == ASSUME IInv, Crash PROVE IInv'
  BY StopKeeps DEF Crash, deployedVars, operatorVars, governanceVars

LEMMA RestartKeeps ==
    ASSUME IInv, NEW i \in 1 .. Len(Scripts(release)), Restart(i)
    PROVE  IInv'
<1>1. /\ restarts' = restarts + 1 /\ script' = i /\ step' = 1 /\ running' = TRUE
      /\ memory' = config /\ orderly' \in BOOLEAN
      /\ UNCHANGED <<release, executes, config, contracts, newProxies, first, changers, chain,
                     verified, proposed, proposals, otherUpgrades>>
  BY DEF Restart, deployedVars, governanceVars
<1>2. PlaceOK'
  <2>1. WellFormed(Scripts(release)[i])
    BY AllWellFormed DEF IInv, TypeOK, PlaceOK
  <2>2. running' /\ running' \in BOOLEAN
    BY <1>1
  <2>3. 1 \in 1 .. Len(Scripts(release)[i])
    BY <2>1 DEF WellFormed
  <2>4. i \in 1 .. Len(Scripts(release)) + 1
    BY ScriptLengths DEF IInv, TypeOK, PlaceOK
  <2>. QED
    BY <1>1, <2>2, <2>3, <2>4 DEF IInv, TypeOK, PlaceOK
<1>3. DeployedOK' /\ GovernanceOK' /\ verified' \in BOOLEAN
  BY <1>1 DEF IInv, TypeOK, DeployedOK, GovernanceOK
<1>4. ConfigOK(memory)' /\ ConfigOK(config)'
  BY <1>1 DEF IInv, TypeOK, ConfigOK
<1>5. PositionInv' /\ VerifiedInv' /\ SplittersInv'
  BY <1>1 DEF IInv, PositionInv, VerifiedInv, SplittersInv, NamesInitialized, Fits, InConfig
<1>. QED
  BY <1>2, <1>3, <1>4, <1>5 DEF IInv, TypeOK

LEMMA EditConfigKeeps ==
    ASSUME IInv, EditConfig
    PROVE  IInv'
<1>. PICK c : c = config
  OBVIOUS
<1>. PICK d : d = [c EXCEPT !.values = 1]
  OBVIOUS
<1>1. /\ ~ running /\ config' = d /\ memory' = d /\ verified' = FALSE /\ orderly' = FALSE
      /\ UNCHANGED <<release, executes, script, step, running, contracts, newProxies, first,
                     changers, chain, restarts, proposed, proposals, otherUpgrades>>
  BY DEF EditConfig, deployedVars, governanceVars
<1>2. d \in Configurations /\ d.changer = c.changer /\ d.proxy = c.proxy
  <2>1. c \in Configurations
    BY DEF IInv, TypeOK, ConfigOK
  <2>. QED
    BY <2>1 DEF Configurations
<1>3. PlaceOK' /\ DeployedOK' /\ GovernanceOK' /\ verified' \in BOOLEAN
  BY <1>1 DEF IInv, TypeOK, PlaceOK, DeployedOK, GovernanceOK
<1>4. ConfigOK(memory)' /\ ConfigOK(config)'
  BY <1>1, <1>2 DEF IInv, TypeOK, ConfigOK
<1>5. PositionInv'
  BY <1>1 DEF PositionInv
<1>6. VerifiedInv'
  BY <1>1 DEF VerifiedInv
<1>7. SplittersInv'
  BY <1>1, <1>2 DEF IInv, SplittersInv, NamesInitialized
<1>. QED
  BY <1>3, <1>4, <1>5, <1>6, <1>7 DEF IInv, TypeOK

LEMMA ProposeKeeps ==
    ASSUME IInv, Propose
    PROVE  IInv'
<1>1. /\ ~ executes /\ config.changer # 0 /\ proposed' = config.changer
      /\ proposals' = proposals + 1
      /\ UNCHANGED <<release, executes, script, step, running, memory, config, contracts,
                     newProxies, first, changers, chain, verified, orderly, restarts,
                     otherUpgrades>>
  BY DEF Propose, scriptVars, deployedVars, operatorVars
<1>2. PlaceOK' /\ DeployedOK' /\ verified' \in BOOLEAN
  BY <1>1 DEF IInv, TypeOK, PlaceOK, DeployedOK
<1>3. GovernanceOK'
  BY <1>1 DEF IInv, TypeOK, GovernanceOK, ConfigOK, Configurations, DeployedOK
<1>4. ConfigOK(memory)' /\ ConfigOK(config)'
  BY <1>1 DEF IInv, TypeOK, ConfigOK
<1>5. PositionInv' /\ VerifiedInv' /\ SplittersInv'
  BY <1>1 DEF IInv, PositionInv, AfterStep, NamesFitting, VerifiedInv, SplittersInv,
              NamesInitialized, Fits, InConfig
<1>. QED
  BY <1>2, <1>3, <1>4, <1>5 DEF IInv, TypeOK

\* The proposed changer is executed, where the scripts execute none.
LEMMA GovernanceKeeps ==
    ASSUME IInv, GovernanceExecutes
    PROVE  IInv'
<1>1. /\ Execute(proposed) /\ proposed' = 0
      /\ UNCHANGED <<release, executes, script, step, running, memory, config, contracts,
                     newProxies, first, verified, orderly, restarts, proposals, otherUpgrades>>
  BY DEF GovernanceExecutes, scriptVars, operatorVars
<1>2. proposed \in 1 .. Len(changers) /\ ~ executes
  BY DEF IInv, TypeOK, GovernanceOK, GovernanceExecutes, DeployedOK
<1>3. /\ changers' \in Seq(ChangerRecords(release)) /\ Len(changers') = Len(changers)
      /\ chain' \in ChainRecords
      /\ \A i \in 1 .. Len(changers) :
            /\ changers'[i].upgrades = changers[i].upgrades
            /\ changers'[i].vendors = changers[i].vendors
            /\ changers'[i].splitter = changers[i].splitter
            /\ changers'[i].values = changers[i].values
  BY <1>1, <1>2, ExecuteEffects, ExecuteUpgrades DEF IInv
<1>4. PlaceOK' /\ DeployedOK' /\ verified' \in BOOLEAN
  BY <1>1, <1>3 DEF IInv, TypeOK, PlaceOK, DeployedOK
<1>5. GovernanceOK'
  BY <1>1, <1>3 DEF IInv, TypeOK, GovernanceOK, DeployedOK
<1>6. ConfigOK(memory)' /\ ConfigOK(config)'
  BY <1>1, <1>3 DEF IInv, TypeOK, ConfigOK
<1>7. SplittersInv'
  BY <1>1 DEF IInv, SplittersInv, NamesInitialized
<1>8. VerifiedInv'
  BY <1>1, <1>2, FitsStays DEF IInv
<1>9. PositionInv'
  <2>1. (config.changer # 0 => config.changer \in 1 .. Len(changers))
        /\ (memory.changer # 0 => memory.changer \in 1 .. Len(changers))
    BY DEF IInv, TypeOK, ConfigOK, Configurations
  <2>2. NamesFitting(config) => NamesFitting(config)'
    BY <1>1, <1>2, <1>3, <2>1 DEF NamesFitting, Fits
  <2>3. NamesFitting(memory) => NamesFitting(memory)'
    BY <1>1, <1>2, <1>3, <2>1 DEF NamesFitting, Fits
  <2>. QED
    BY <1>1, <2>2, <2>3 DEF IInv, PositionInv, AfterStep
<1>. QED
  BY <1>4, <1>5, <1>6, <1>7, <1>8, <1>9 DEF IInv, TypeOK

LEMMA OtherUpgradeKeeps ==
    ASSUME IInv, OtherUpgrade
    PROVE  IInv'
<1>1. /\ contracts' = Append(contracts,
                             [key |-> "MoC", initialized |-> FALSE, library |-> NoLibrary])
      /\ chain' = [chain EXCEPT !.impl["MoC"] = NextContract]
      /\ otherUpgrades' = 1 /\ verified' = FALSE
      /\ UNCHANGED <<release, executes, script, step, running, memory, config, newProxies, first,
                     changers, orderly, restarts, proposed, proposals>>
  BY DEF OtherUpgrade, scriptVars, operatorVars
<1>2. contracts' \in Seq(ContractRecords)
  <2>1. [key |-> "MoC", initialized |-> FALSE, library |-> NoLibrary] \in ContractRecords
    BY DEF ContractRecords, NoLibrary, Implementations
  <2>. QED
    BY <1>1, <2>1 DEF IInv, TypeOK, DeployedOK
<1>3. chain' \in ChainRecords
  <2>1. NextContract \in Nat /\ chain \in ChainRecords
    BY DEF IInv, TypeOK, DeployedOK, NextContract
  <2>2. [chain.impl EXCEPT !["MoC"] = NextContract] \in [Proxies -> Nat]
    BY <2>1 DEF ChainRecords
  <2>3. chain' = [chain EXCEPT !.impl = [chain.impl EXCEPT !["MoC"] = NextContract]]
    BY <1>1
  <2>. QED
    BY <2>1, <2>2, <2>3 DEF ChainRecords
<1>4. PlaceOK' /\ DeployedOK' /\ verified' \in BOOLEAN
  BY <1>1, <1>2, <1>3 DEF IInv, TypeOK, PlaceOK, DeployedOK
<1>5. GovernanceOK'
  BY <1>1 DEF IInv, TypeOK, GovernanceOK
<1>6. ConfigOK(memory)' /\ ConfigOK(config)'
  BY <1>1 DEF IInv, TypeOK, ConfigOK
<1>7. PositionInv' /\ SplittersInv'
  BY <1>1, SMTT(30) DEF IInv, PositionInv, AfterStep, NamesFitting, SplittersInv,
     NamesInitialized, Fits
<1>8. VerifiedInv'
  BY <1>1 DEF VerifiedInv
<1>. QED
  BY <1>4, <1>5, <1>6, <1>7, <1>8 DEF IInv, TypeOK

LEMMA InitIInv == ASSUME Init PROVE IInv
<1>1. PlaceOK
  <2>1. release \in AllReleases
    BY ReleasesAssumption DEF Init
  <2>2. 1 \in 1 .. Len(Scripts(release))
    BY <2>1, ScriptLengths
  <2>3. 1 \in 1 .. Len(Scripts(release)[1])
    BY <2>1, <2>2, AllWellFormed DEF WellFormed
  <2>. QED
    BY <2>1, <2>2, <2>3, ScriptLengths DEF Init, PlaceOK
<1>2. config \in Configurations /\ config.changer = 0
      /\ config.proxy = [n \in AddedProxies |-> 0] /\ memory = config
  BY DEF Init, Configurations
<1>3. DeployedOK
  <2>1. chain \in ChainRecords
    BY DEF Init, ChainRecords, Unset
  <2>. QED
    BY <2>1 DEF Init, DeployedOK
<1>4. GovernanceOK /\ verified \in BOOLEAN /\ ~ verified
  <2>1. verified = FALSE /\ orderly = TRUE /\ changers = <<>> /\ proposed = 0 /\ proposals = 0
        /\ restarts = 0 /\ otherUpgrades = 0
    BY DEF Init
  <2>2. Len(changers) = 0
    BY <2>1
  <2>3. verified \in BOOLEAN /\ ~ verified /\ orderly \in BOOLEAN
    BY <2>1, Zenon
  <2>4. proposed \in 0 .. Len(changers) /\ proposals \in Nat /\ restarts \in Nat
        /\ otherUpgrades \in {0, 1}
    BY <2>1, <2>2
  <2>. QED
    BY <2>1, <2>3, <2>4 DEF GovernanceOK
<1>5. ConfigOK(memory) /\ ConfigOK(config)
  BY <1>2 DEF ConfigOK, Init
<1>6. PositionInv /\ VerifiedInv /\ SplittersInv
  BY <1>2, <1>4 DEF Init, PositionInv, VerifiedInv, SplittersInv, NamesInitialized
<1>. QED
  BY <1>1, <1>3, <1>4, <1>5, <1>6 DEF IInv, TypeOK

LEMMA NextIInv ==
    ASSUME IInv, [Next]_vars
    PROVE  IInv'
<1>1. CASE RunStep
  BY <1>1, RunStepKeeps
<1>2. CASE Crash
  BY <1>2, CrashKeeps
<1>3. CASE EditConfig
  BY <1>3, EditConfigKeeps
<1>4. CASE Propose
  BY <1>4, ProposeKeeps
<1>5. CASE GovernanceExecutes
  BY <1>5, GovernanceKeeps
<1>6. CASE OtherUpgrade
  BY <1>6, OtherUpgradeKeeps
<1>7. CASE \E i \in 1 .. Len(Scripts(release)) : Restart(i)
  BY <1>7, RestartKeeps
<1>8. CASE UNCHANGED vars
  <2>1. UNCHANGED <<release, executes, script, step, running, memory, config, contracts,
                    newProxies, first, changers, chain, verified, orderly, restarts, proposed,
                    proposals, otherUpgrades>>
    BY <1>8 DEF vars, scriptVars, deployedVars, operatorVars, governanceVars
  <2>2. TypeOK'
    BY <2>1 DEF IInv, TypeOK, PlaceOK, DeployedOK, ConfigOK, GovernanceOK
  <2>3. PositionInv'
    BY <2>1 DEF IInv, PositionInv, AfterStep, NamesFitting, Fits
  <2>4. VerifiedInv' /\ SplittersInv'
    BY <2>1 DEF IInv, VerifiedInv, SplittersInv, NamesInitialized, Fits, InConfig
  <2>. QED
    BY <2>2, <2>3, <2>4 DEF IInv
<1>. QED
  BY <1>1, <1>2, <1>3, <1>4, <1>5, <1>6, <1>7, <1>8 DEF Next

LEMMA Invariant == Spec => []IInv
  BY InitIInv, NextIInv, PTL DEF Spec

(* ---------------------------------------------------------------------- *)
(* What follows.                                                          *)

\* Nothing of a release leaves its type, names a contract, proxy or changer that was not
\* deployed, or runs beyond the end of a script, however often scripts are run again.
THEOREM ReleasesTypeCorrect == Spec => []TypeOK
  BY Invariant, PTL DEF IInv

\* For any number of restarts, a splitter that a configuration names was initialized,
\* although zos initializes the first proxy of its file and the script creates another.
THEOREM SplittersInitialized == Spec => []SplitterInConfigIsInitialized
<1>1. IInv => SplitterInConfigIsInitialized
  BY DEF IInv, SplittersInv, NamesInitialized, SplitterInConfigIsInitialized, AddedProxies
<1>. QED
  BY <1>1, Invariant, PTL

\* What a script executes, or a vote approves after it was verified, configures the system.
LEMMA ExecutionConfigures ==
    ASSUME IInv, [Next]_vars,
           chain' # chain, otherUpgrades' = otherUpgrades,
           release \notin {"v0.1.16.2", "v0.2.0"},
           proposed' = proposed \/ (verified /\ proposed = config.changer)
    PROVE  Configured(chain')
<1>1. chain' # chain
  OBVIOUS
<1>2. CASE RunStep
  <2>. PICK op : op = Scripts(release)[script][step]
    OBVIOUS
  <2>1. running /\ ExecuteChange(op) /\ executes
    <3>1. \/ Deploy(op) \/ SaveConfig(op) \/ DeployProxy(op) \/ CreateSplitter(op)
          \/ InitializeSplitter(op) \/ SaveSplitter(op) \/ DeployChanger(op)
          \/ ScheduleBatch(op) \/ ExecuteChange(op) \/ Verify(op) \/ InitImplementation(op)
          \/ OnlyPrint(op) \/ Fail(op)
      BY <1>2 DEF RunStep
    <3>2. ExecuteChange(op)
      BY <1>1, <3>1 DEF Deploy, SaveConfig, DeployProxy, CreateSplitter, InitializeSplitter,
         SaveSplitter, DeployChanger, ScheduleBatch, Verify, InitImplementation, OnlyPrint, Fail
    <3>. QED
      BY <1>1, <1>2, <3>2 DEF ExecuteChange, RunStep
  <2>2. /\ config.changer \in 1 .. Len(changers) /\ Execute(config.changer)
        /\ Fits(changers[config.changer], config)
    BY <2>1, ExecutesFitting
  <2>3. changers[config.changer].scheduled
    BY <2>2, ExecuteUpgrades DEF IInv
  <2>. QED
    BY <2>2, <2>3, FittingConfigures DEF IInv
<1>3. CASE GovernanceExecutes
  <2>1. Execute(proposed) /\ proposed' = 0 /\ proposed # 0
    BY <1>3 DEF GovernanceExecutes
  <2>2. /\ proposed = config.changer /\ proposed \in 1 .. Len(changers)
        /\ Fits(changers[proposed], config)
    <3>1. verified /\ proposed = config.changer
      BY <2>1
    <3>. QED
      BY <2>1, <3>1 DEF IInv, TypeOK, GovernanceOK, DeployedOK, VerifiedInv, InConfig
  <2>3. changers[proposed].scheduled
    BY <2>1, <2>2, ExecuteUpgrades DEF IInv
  <2>. QED
    BY <2>1, <2>2, <2>3, FittingConfigures DEF IInv
<1>4. chain' = chain \/ RunStep \/ GovernanceExecutes
  <2>1. CASE OtherUpgrade
    BY <2>1 DEF OtherUpgrade
  <2>. QED
    BY <2>1 DEF Next, vars, Crash, EditConfig, Propose, Restart
<1>. QED
  BY <1>1, <1>2, <1>3, <1>4

\* For any number of restarts, edits and votes, a change that a script executes, or a vote
\* approves after it was verified, configures the system.
THEOREM ChangesConfigure == Spec => ExecutedIsConfigured
<1>1. IInv /\ [Next]_vars =>
        [ /\ chain' # chain /\ otherUpgrades' = otherUpgrades
          /\ release \notin {"v0.1.16.2", "v0.2.0"}
          /\ proposed' = proposed \/ (verified /\ proposed = config.changer)
          => Configured(chain') ]_vars
  BY ExecutionConfigures
<1>. QED
  BY <1>1, Invariant, PTL DEF Spec, ExecutedIsConfigured

\* No script of v0.1.16.2 schedules a batch.
LEMMA NothingScheduled ==
    ASSUME NEW i \in 1 .. Len(Scripts("v0.1.16.2")),
           NEW k \in 1 .. Len(Scripts("v0.1.16.2")[i])
    PROVE  Scripts("v0.1.16.2")[i][k].kind # "schedule"
<1>. DEFINE NoneIn(s) == \A j \in 1 .. Len(s) : s[j].kind # "schedule"
<1>1. /\ NoneIn(V162DeployMoC) /\ NoneIn(V162DeployMoCConnector)
      /\ NoneIn(V162DeployMoCExchange) /\ NoneIn(V162DeployMoCState)
      /\ NoneIn(V162DeployMoCSettlement)
  BY DEF V162DeployMoC, V162DeployMoCConnector, V162DeployMoCExchange, V162DeployMoCState,
         V162DeployMoCSettlement, Implementation, LinkedImplementation, Do
<1>2. NoneIn(V162DeployChanger) /\ NoneIn(V162VerificationTokens)
  BY DEF V162DeployChanger, V162VerificationTokens, Do
<1>3. i \in 1 .. 7
  BY V162ScriptsOf
<1>4. NoneIn(Scripts("v0.1.16.2")[i])
  <2>. HIDE DEF NoneIn
  <2>. QED
    BY <1>1, <1>2, <1>3, V162ScriptsOf
<1>. QED
  BY <1>4

\* How a step may change the changers and the system.
LEMMA ChangersAndChain ==
    ASSUME IInv, [Next]_vars
    PROVE  /\ release' = release
           /\ \/ UNCHANGED <<changers, chain, otherUpgrades>>
              \/ /\ UNCHANGED <<chain, otherUpgrades>>
                 /\ \E e \in ChangerRecords(release) :
                       /\ changers' = Append(changers, e)
                       /\ e.before = chain.impl /\ e.upgradesSeen = otherUpgrades
              \/ /\ UNCHANGED <<chain, otherUpgrades>>
                 /\ running /\ Scripts(release)[script][step].kind = "schedule"
                 /\ \E id \in 1 .. Len(changers), e \in ChangerRecords(release) :
                       /\ changers' = [changers EXCEPT ![id] = e]
                       /\ e.upgradesSeen = otherUpgrades
              \/ /\ UNCHANGED otherUpgrades
                 /\ \E id \in 1 .. Len(changers) : Execute(id)
              \/ OtherUpgrade /\ UNCHANGED changers
<1>1. CASE RunStep
  <2>. PICK op : op = Scripts(release)[script][step]
    OBVIOUS
  <2>1. running
    BY <1>1 DEF RunStep
  <2>2. \/ Deploy(op) \/ SaveConfig(op) \/ DeployProxy(op) \/ CreateSplitter(op)
        \/ InitializeSplitter(op) \/ SaveSplitter(op) \/ Verify(op) \/ InitImplementation(op)
        \/ OnlyPrint(op) \/ Fail(op)
        \/ DeployChanger(op) \/ ScheduleBatch(op) \/ ExecuteChange(op)
    BY <1>1 DEF RunStep
  <2>3. release' = release /\ UNCHANGED otherUpgrades
    <3>1. ASSUME NEW m, Advance(op, m)
          PROVE  release' = release /\ UNCHANGED otherUpgrades
      BY <3>1 DEF Advance, governanceVars
    <3>2. CASE Fail(op)
      BY <3>2 DEF Fail, governanceVars
    <3>. QED
      BY <2>2, <3>1, <3>2 DEF Deploy, SaveConfig, DeployProxy, CreateSplitter, InitializeSplitter,
         SaveSplitter, Verify, InitImplementation, OnlyPrint, DeployChanger, ScheduleBatch,
         ExecuteChange
  <2>4. CASE \/ Deploy(op) \/ SaveConfig(op) \/ DeployProxy(op) \/ CreateSplitter(op)
             \/ InitializeSplitter(op) \/ SaveSplitter(op) \/ Verify(op)
             \/ InitImplementation(op) \/ OnlyPrint(op) \/ Fail(op)
    <3>1. UNCHANGED <<changers, chain>>
      BY <2>4 DEF Deploy, SaveConfig, DeployProxy, CreateSplitter, InitializeSplitter,
         SaveSplitter, Verify, InitImplementation, OnlyPrint, Fail, deployedVars
    <3>. QED
      BY <2>3, <3>1
  <2>5. CASE DeployChanger(op)
    <3>. PICK e : e = IF op.kind = "newBatch" THEN [Recorded(memory) EXCEPT !.scheduled = FALSE]
                                             ELSE Recorded(memory)
      OBVIOUS
    <3>1. changers' = Append(changers, e) /\ UNCHANGED chain
      BY <2>5 DEF DeployChanger
    <3>2. e \in ChangerRecords(release)
      BY RecordedWellTyped DEF IInv, TypeOK
    <3>3. e.before = chain.impl /\ e.upgradesSeen = otherUpgrades
      BY DEF Recorded
    <3>. QED
      BY <2>3, <3>1, <3>2, <3>3
  <2>6. CASE ScheduleBatch(op)
    <3>. PICK e : e = Recorded(memory)
      OBVIOUS
    <3>1. changers' = [changers EXCEPT ![memory.changer] = e] /\ UNCHANGED chain
          /\ op.kind = "schedule"
      BY <2>6 DEF ScheduleBatch
    <3>2. e \in ChangerRecords(release) /\ e.upgradesSeen = otherUpgrades
      BY RecordedWellTyped DEF IInv, TypeOK, Recorded
    <3>3. memory.changer \in 1 .. Len(changers)
      BY <2>1, <3>1, SchedulesLast
    <3>. QED
      BY <2>1, <2>3, <3>1, <3>2, <3>3
  <2>7. CASE ExecuteChange(op)
    <3>1. CASE executes
      BY <2>1, <2>3, <2>7, <3>1, ExecutesFitting
    <3>2. CASE ~ executes
      BY <2>3, <2>7, <3>2 DEF ExecuteChange
    <3>. QED
      BY <3>1, <3>2
  <2>. QED
    BY <2>2, <2>4, <2>5, <2>6, <2>7
<1>2. CASE GovernanceExecutes
  <2>1. Execute(proposed) /\ proposed # 0 /\ UNCHANGED <<release, otherUpgrades>>
    BY <1>2 DEF GovernanceExecutes
  <2>2. proposed \in 1 .. Len(changers)
    BY <2>1 DEF IInv, TypeOK, GovernanceOK, DeployedOK
  <2>. QED
    BY <2>1, <2>2
<1>3. CASE OtherUpgrade
  BY <1>3 DEF OtherUpgrade
<1>4. CASE Crash \/ EditConfig \/ Propose \/ UNCHANGED vars
           \/ \E i \in 1 .. Len(Scripts(release)) : Restart(i)
  BY <1>4 DEF Crash, EditConfig, Propose, vars, Restart, deployedVars, governanceVars
<1>. QED
  BY <1>1, <1>2, <1>3, <1>4 DEF Next

\* What a changer of v0.1.16.2 puts back is what the system runs, unless another release
\* came between them.
RestoreInv ==
    /\ \A i \in 1 .. Len(changers) : changers[i].upgradesSeen <= otherUpgrades
    /\ release = "v0.1.16.2" =>
          \/ \E i \in 1 .. Len(changers) : changers[i].upgradesSeen < otherUpgrades
          \/ \A i \in 1 .. Len(changers) : \A p \in DOMAIN Upgrades(release) :
                changers[i].before[p] = chain.impl[p]

\* Where no changer is stale, executing one changes no implementation.
LEMMA RestoringChangesNothing ==
    ASSUME IInv, release = "v0.1.16.2", NEW id \in 1 .. Len(changers), Execute(id),
           \A p \in DOMAIN Upgrades(release) : changers[id].before[p] = chain.impl[p]
    PROVE  chain'.impl = chain.impl
<1>1. changers[id] \in ChangerRecords(release) /\ chain \in ChainRecords
  BY DEF IInv, TypeOK, DeployedOK
<1>2. DOMAIN changers[id].upgrades = DOMAIN Upgrades(release) /\ chain.impl \in [Proxies -> Nat]
  BY <1>1 DEF ChangerRecords, ChainRecords
<1>3. CASE ~ changers[id].scheduled
  BY <1>3, ExecuteUpgrades DEF IInv
<1>4. CASE changers[id].scheduled
  <2>1. chain'.impl = ImplementationsAfter(changers[id])
    BY <1>4, ExecuteUpgrades DEF IInv
  <2>2. ImplementationsAfter(changers[id]) = [p \in Proxies |-> chain.impl[p]]
    BY <1>2 DEF ImplementationsAfter
  <2>. QED
    BY <1>2, <2>1, <2>2
<1>. QED
  BY <1>3, <1>4

LEMMA InitRestoreInv == ASSUME Init PROVE RestoreInv
<1>1. Len(changers) = 0
  BY DEF Init
<1>. QED
  BY <1>1 DEF RestoreInv

LEMMA NextRestoreInv ==
    ASSUME IInv, RestoreInv, [Next]_vars
    PROVE  RestoreInv'
<1>. DEFINE U == DOMAIN Upgrades(release)
<1>1. release' = release
  BY ChangersAndChain
<1>2. /\ changers \in Seq(ChangerRecords(release)) /\ Len(changers) \in Nat
      /\ \A i \in 1 .. Len(changers) : changers[i].upgradesSeen \in Nat
      /\ otherUpgrades \in Nat
  <2>1. changers \in Seq(ChangerRecords(release)) /\ otherUpgrades \in Nat
    BY DEF IInv, TypeOK, DeployedOK, GovernanceOK
  <2>2. \A i \in 1 .. Len(changers) : changers[i] \in ChangerRecords(release)
    BY <2>1
  <2>3. \A i \in 1 .. Len(changers) : changers[i].upgradesSeen \in Nat
    BY <2>2 DEF ChangerRecords
  <2>. QED
    BY <2>1, <2>3
<1>3. CASE UNCHANGED <<changers, chain, otherUpgrades>>
  BY <1>1, <1>3 DEF RestoreInv
<1>4. ASSUME UNCHANGED <<chain, otherUpgrades>>,
             NEW e \in ChangerRecords(release), changers' = Append(changers, e),
             e.before = chain.impl, e.upgradesSeen = otherUpgrades
      PROVE  RestoreInv'
  <2>1. /\ Len(changers') = Len(changers) + 1 /\ changers'[Len(changers) + 1] = e
        /\ \A i \in 1 .. Len(changers) : changers'[i] = changers[i]
    BY <1>2, <1>4
  <2>2. \A i \in 1 .. Len(changers') : i \in 1 .. Len(changers) \/ i = Len(changers) + 1
    BY <1>2, <2>1
  <2>3. 1 .. Len(changers) \subseteq 1 .. Len(changers')
    BY <1>2, <2>1
  <2>4. \A i \in 1 .. Len(changers') : changers'[i].upgradesSeen <= otherUpgrades'
    BY <1>2, <1>4, <2>1, <2>2 DEF RestoreInv
  <2>5. ASSUME release = "v0.1.16.2",
               ~ \E i \in 1 .. Len(changers') : changers'[i].upgradesSeen < otherUpgrades'
        PROVE  \A i \in 1 .. Len(changers') : \A p \in U : changers'[i].before[p] = chain'.impl[p]
    <3>1. ~ \E i \in 1 .. Len(changers) : changers[i].upgradesSeen < otherUpgrades
      BY <1>4, <2>1, <2>3, <2>5
    <3>2. \A i \in 1 .. Len(changers) : \A p \in U : changers[i].before[p] = chain.impl[p]
      BY <2>5, <3>1 DEF RestoreInv
    <3>. QED
      BY <1>4, <2>1, <2>2, <3>2
  <2>. QED
    BY <1>1, <2>4, <2>5 DEF RestoreInv
<1>5. ASSUME UNCHANGED <<chain, otherUpgrades>>,
             running, Scripts(release)[script][step].kind = "schedule",
             NEW id \in 1 .. Len(changers), NEW e \in ChangerRecords(release),
             changers' = [changers EXCEPT ![id] = e], e.upgradesSeen = otherUpgrades
      PROVE  RestoreInv'
  <2>1. release # "v0.1.16.2"
    BY <1>5, NothingScheduled DEF IInv, TypeOK, PlaceOK
  <2>2. /\ Len(changers') = Len(changers)
        /\ \A i \in 1 .. Len(changers) : changers'[i] = IF i = id THEN e ELSE changers[i]
    BY <1>2, <1>5
  <2>3. \A i \in 1 .. Len(changers') : changers'[i].upgradesSeen <= otherUpgrades'
    BY <1>2, <1>5, <2>2 DEF RestoreInv
  <2>. QED
    BY <1>1, <2>1, <2>3 DEF RestoreInv
<1>6. ASSUME UNCHANGED otherUpgrades, NEW id \in 1 .. Len(changers), Execute(id)
      PROVE  RestoreInv'
  <2>1. /\ Len(changers') = Len(changers)
        /\ \A i \in 1 .. Len(changers) :
              /\ changers'[i].upgradesSeen = changers[i].upgradesSeen
              /\ changers'[i].before = changers[i].before
    BY <1>6, ExecuteEffects DEF IInv
  <2>2. CASE /\ release = "v0.1.16.2"
             /\ ~ \E i \in 1 .. Len(changers) : changers[i].upgradesSeen < otherUpgrades
    <3>1. \A i \in 1 .. Len(changers) : \A p \in U : changers[i].before[p] = chain.impl[p]
      BY <2>2 DEF RestoreInv
    <3>2. chain'.impl = chain.impl
      BY <1>6, <2>2, <3>1, RestoringChangesNothing
    <3>. QED
      BY <1>1, <1>6, <2>1, <3>1, <3>2 DEF RestoreInv
  <2>3. CASE ~ (/\ release = "v0.1.16.2"
                /\ ~ \E i \in 1 .. Len(changers) : changers[i].upgradesSeen < otherUpgrades)
    BY <1>1, <1>6, <2>1, <2>3 DEF RestoreInv
  <2>. QED
    BY <2>2, <2>3
<1>7. ASSUME OtherUpgrade, UNCHANGED changers
      PROVE  RestoreInv'
  <2>1. otherUpgrades = 0 /\ otherUpgrades' = 1
    BY <1>7 DEF OtherUpgrade
  <2>2. \A i \in 1 .. Len(changers) : changers[i].upgradesSeen = 0
    BY <1>2, <2>1 DEF RestoreInv
  <2>3. (\E i \in 1 .. Len(changers) : changers[i].upgradesSeen < otherUpgrades')
        \/ ~ \E i \in 1 .. Len(changers) : TRUE
    BY <2>1, <2>2
  <2>. QED
    BY <1>7, <2>1, <2>2, <2>3 DEF RestoreInv
<1>. QED
  BY <1>3, <1>4, <1>5, <1>6, <1>7, ChangersAndChain

\* For any number of restarts and votes, the migration of the tokens leaves every proxy on
\* the implementation it had, unless one was upgraded after a changer was deployed.
THEOREM MigrationRestores == Spec => RestoresImplementations
<1>1. ASSUME IInv, RestoreInv, [Next]_vars, release = "v0.1.16.2",
             otherUpgrades' = otherUpgrades, chain'.impl # chain.impl
      PROVE  \E i \in DOMAIN changers : changers[i].upgradesSeen < otherUpgrades
  <2>1. DOMAIN changers = 1 .. Len(changers)
    BY <1>1 DEF IInv, TypeOK, DeployedOK
  <2>2. PICK id \in 1 .. Len(changers) : Execute(id)
    <3>1. ~ OtherUpgrade
      BY <1>1 DEF OtherUpgrade
    <3>. QED
      BY <1>1, <3>1, ChangersAndChain
  <2>3. ~ \A p \in DOMAIN Upgrades(release) : changers[id].before[p] = chain.impl[p]
    BY <1>1, <2>2, RestoringChangesNothing
  <2>. QED
    BY <1>1, <2>1, <2>3 DEF RestoreInv
<1>2. IInv /\ RestoreInv /\ [Next]_vars =>
        [ /\ release = "v0.1.16.2" /\ otherUpgrades' = otherUpgrades
          /\ chain'.impl # chain.impl
          => \E i \in DOMAIN changers : changers[i].upgradesSeen < otherUpgrades ]_vars
  BY <1>1
<1>3. Spec => []RestoreInv
  BY InitRestoreInv, NextRestoreInv, Invariant, PTL DEF Spec
<1>. QED
  BY <1>2, <1>3, Invariant, PTL DEF Spec, RestoresImplementations

(* ---------------------------------------------------------------------- *)
(* What the steps made so far left behind.                                *)

\* What a step leaves in a configuration.
Effect(op, conf) ==
    /\ op.kind \in {"new", "newLinked"} => conf.impl[op.name] # 0
    /\ op.kind \in {"newProxy", "saveProxy"} => conf.proxy[op.name] # 0
    /\ op.kind \in {"newChanger", "newBatch"} => conf.changer # 0

\* What b names, a names.
Covers(a, b) ==
    /\ \A n \in Implementations : b.impl[n] # 0 => a.impl[n] # 0
    /\ \A n \in AddedProxies : b.proxy[n] # 0 => a.proxy[n] # 0
    /\ b.changer # 0 => a.changer # 0

\* The effects of the first k steps of a script: in its copy, and once saved in the file.
EffectsOf(s, k) ==
    \A l \in 1 .. k :
        /\ Effect(s[l], memory)
        /\ (\E i \in l + 1 .. k : s[i].kind = "save") => Effect(s[l], config)

\* The proxies zos finds first have an implementation; a script that runs has what it
\* did, and in order the scripts before it left theirs.
EffectsInv ==
    /\ \A n \in AddedProxies : first[n] # 0 => newProxies[first[n]].impl # 0
    /\ running => Covers(memory, config) /\ EffectsOf(Scripts(release)[script], step - 1)
    /\ orderly => \A j \in 1 .. script - 1 : \A l \in 1 .. Len(Scripts(release)[j]) :
                     Effect(Scripts(release)[j][l], config)

LEMMA EffectCovered ==
    ASSUME NEW s, WellFormed(s), NEW l \in 1 .. Len(s), NEW a, NEW b, Covers(a, b),
           Effect(s[l], b)
    PROVE  Effect(s[l], a)
  BY DEF WellFormed, Covers, Effect

\* The effects of the scripts in order outlive a configuration that names more.
LEMMA PastEffectsStay ==
    ASSUME IInv, orderly, EffectsInv, release' = release, Covers(config', config),
           NEW j \in 1 .. script - 1, NEW l \in 1 .. Len(Scripts(release)[j])
    PROVE  Effect(Scripts(release)[j][l], config')
<1>1. j \in 1 .. Len(Scripts(release))
  BY ScriptLengths DEF IInv, TypeOK, PlaceOK
<1>2. WellFormed(Scripts(release)[j])
  BY <1>1, AllWellFormed DEF IInv, TypeOK, PlaceOK
<1>3. Effect(Scripts(release)[j][l], config)
  BY DEF EffectsInv
<1>. QED
  BY <1>2, <1>3, EffectCovered

\* One step more.
LEMMA EffectsGrow ==
    ASSUME NEW s, WellFormed(s), NEW k \in 1 .. Len(s), EffectsOf(s, k - 1),
           Covers(memory', memory), Covers(config', config), Effect(s[k], memory'),
           s[k].kind = "save" => config' = memory'
    PROVE  EffectsOf(s, k)'
<1>. SUFFICES ASSUME NEW l \in 1 .. k
              PROVE  /\ Effect(s[l], memory')
                     /\ (\E i \in l + 1 .. k : s[i].kind = "save") => Effect(s[l], config')
  BY DEF EffectsOf
<1>0. Len(s) \in Nat /\ l \in 1 .. Len(s)
  BY DEF WellFormed
<1>1. CASE l = k
  BY <1>0, <1>1
<1>2. CASE l # k
  <2>1. l \in 1 .. k - 1
    BY <1>0, <1>2
  <2>2. Effect(s[l], memory')
    BY <1>0, <2>1, EffectCovered DEF EffectsOf
  <2>3. ASSUME NEW i \in l + 1 .. k, s[i].kind = "save" PROVE Effect(s[l], config')
    <3>1. CASE i = k
      BY <2>2, <2>3, <3>1
    <3>2. CASE i # k
      <4>1. i \in l + 1 .. k - 1
        BY <1>0, <3>2
      <4>2. Effect(s[l], config)
        BY <2>1, <2>3, <4>1 DEF EffectsOf
      <4>. QED
        BY <1>0, <4>2, EffectCovered
    <3>. QED
      BY <3>1, <3>2
  <2>. QED
    BY <2>2, <2>3
<1>. QED
  BY <1>1, <1>2

\* At its end a script has saved everything.
LEMMA EffectsSaved ==
    ASSUME NEW s, WellFormed(s), EffectsOf(s, Len(s) - 1), NEW conf, Covers(conf, config),
           s[Len(s)].kind = "save" => Covers(conf, memory),
           s[Len(s)].kind = "saveProxy" => Effect(s[Len(s)], conf),
           NEW l \in 1 .. Len(s)
    PROVE  Effect(s[l], conf)
<1>0. Len(s) \in Nat
  BY DEF WellFormed
<1>1. CASE s[l].kind = "saveProxy"
  BY <1>0, <1>1 DEF WellFormed
<1>2. CASE s[l].kind \in {"new", "newLinked", "newProxy", "newChanger", "newBatch"}
  <2>1. PICK i \in l + 1 .. Len(s) : s[i].kind = "save"
    <3>1. \/ l + 1 <= Len(s) /\ s[l + 1].kind = "save"
          \/ l + 2 <= Len(s) /\ s[l + 2].kind = "save"
      BY <1>2 DEF WellFormed
    <3>2. CASE l + 1 <= Len(s) /\ s[l + 1].kind = "save"
      <4>. l + 1 \in l + 1 .. Len(s)
        BY <1>0, <3>2
      <4>. QED
        BY <3>2
    <3>3. CASE l + 2 <= Len(s) /\ s[l + 2].kind = "save"
      <4>. l + 2 \in l + 1 .. Len(s)
        BY <1>0, <3>3
      <4>. QED
        BY <3>3
    <3>. QED
      BY <3>1, <3>2, <3>3
  <2>2. l \in 1 .. Len(s) - 1
    BY <1>0, <2>1
  <2>3. CASE i = Len(s)
    <3>1. Effect(s[l], memory) /\ Covers(conf, memory)
      BY <2>1, <2>2, <2>3 DEF EffectsOf
    <3>. QED
      BY <3>1, EffectCovered
  <2>4. CASE i # Len(s)
    <3>1. i \in l + 1 .. Len(s) - 1
      BY <1>0, <2>4
    <3>2. Effect(s[l], config)
      BY <2>1, <2>2, <3>1 DEF EffectsOf
    <3>. QED
      BY <3>2, EffectCovered
  <2>. QED
    BY <2>3, <2>4
<1>. QED
  BY <1>1, <1>2 DEF Effect

\* What is left to prove of a step of the script.
LEMMA StepLeaves ==
    ASSUME IInv, running, EffectsInv, NEW op, NEW m, Advance(op, m),
           op.kind # "saveProxy" => Effect(op, m) /\ Covers(m, memory) /\ Covers(m, config'),
           op.kind = "saveProxy" => Effect(op, config'),
           op.kind = "save" => config' = m,
           Covers(config', config),
           \A n \in AddedProxies : first'[n] # 0 => newProxies'[first'[n]].impl # 0
    PROVE  EffectsInv'
<1>. PICK s : s = Scripts(release)[script]
  OBVIOUS
<1>. PICK k : k = step
  OBVIOUS
<1>1. /\ WellFormed(s) /\ Len(s) \in Nat /\ k \in 1 .. Len(s) /\ s[k] = op
      /\ EffectsOf(s, k - 1)
  BY StepThatRuns, AdvanceMoves DEF IInv, TypeOK, EffectsInv
<1>2. UNCHANGED <<release, orderly>> /\ script \in Nat
  BY AdvanceMoves DEF IInv, TypeOK, PlaceOK, operatorVars
<1>3. CASE k < Len(s)
  <2>1. /\ step' = k + 1 /\ memory' = m /\ script' = script /\ running' = running
        /\ op.kind # "saveProxy"
    BY <1>1, <1>3 DEF Advance, WellFormed
  <2>2. EffectsOf(s, k)'
    BY <1>1, <2>1, EffectsGrow
  <2>3. EffectsOf(Scripts(release)[script], step - 1)'
    <3>1. s = Scripts(release')[script'] /\ k = step' - 1
      BY <1>1, <1>2, <2>1
    <3>. QED
      BY <2>2, <3>1 DEF EffectsOf
  <2>4. orderly => \A j \in 1 .. script - 1 : \A l \in 1 .. Len(Scripts(release)[j]) :
                     Effect(Scripts(release)[j][l], config')
    BY <1>2, PastEffectsStay
  <2>. QED
    BY <1>2, <2>1, <2>3, <2>4 DEF EffectsInv
<1>4. CASE k = Len(s)
  <2>1. step' = 1 /\ memory' = config' /\ script' = script + 1
    <3>1. ~ (step < Len(Scripts(release)[script]))
      BY <1>1, <1>4
    <3>. QED
      BY <3>1 DEF Advance
  <2>2. ASSUME NEW l \in 1 .. Len(s) PROVE Effect(s[l], config')
    <3>. PICK c : c = config'
      OBVIOUS
    <3>. QED
      BY <1>1, <1>4, EffectsSaved
  <2>3. ASSUME orderly, NEW j \in 1 .. script, NEW l \in 1 .. Len(Scripts(release)[j])
        PROVE  Effect(Scripts(release)[j][l], config')
    <3>1. CASE j = script
      BY <2>2, <3>1
    <3>2. CASE j # script
      <4>1. j \in 1 .. script - 1
        BY <1>2, <3>2
      <4>. QED
        BY <1>2, <2>3, <4>1, PastEffectsStay
    <3>. QED
      BY <3>1, <3>2
  <2>4. EffectsOf(Scripts(release)[script], step - 1)'
    BY <2>1 DEF EffectsOf
  <2>5. Covers(memory, config)'
    BY <2>1 DEF Covers
  <2>6. \A j \in 1 .. script' - 1 : j \in 1 .. script
    BY <1>2, <2>1
  <2>. QED
    BY <1>2, <2>3, <2>4, <2>5, <2>6 DEF EffectsInv
<1>. QED
  BY <1>1, <1>3, <1>4

\* The steps that change no configuration.
LEMMA OtherStepsLeave ==
    ASSUME IInv, running, EffectsInv, NEW op, Advance(op, memory),
           UNCHANGED config,
           op.kind \notin {"new", "newLinked", "newProxy", "newChanger", "newBatch", "save",
                           "saveProxy"},
           \A n \in AddedProxies : first'[n] # 0 => newProxies'[first'[n]].impl # 0
    PROVE  EffectsInv'
<1>. PICK m : m = memory
  OBVIOUS
<1>1. Covers(m, memory) /\ Covers(m, config') /\ Covers(config', config)
  BY DEF EffectsInv, Covers
<1>2. Effect(op, m)
  BY DEF Effect
<1>. QED
  BY <1>1, <1>2, StepLeaves

LEMMA DeployLeaves ==
    ASSUME IInv, running, EffectsInv, NEW op, op = Scripts(release)[script][step], Deploy(op)
    PROVE  EffectsInv'
<1>. PICK m : m = WithImpl(memory, op.name, NextContract)
  OBVIOUS
<1>1. memory \in Configurations
  BY DEF IInv, TypeOK, ConfigOK
<1>2. /\ Advance(op, m) /\ UNCHANGED <<config, newProxies, first>>
      /\ op.kind \in {"new", "newLinked"} /\ op.name \in Implementations
  BY <1>1, DeployEdits, WhatIsLeft DEF Deploy, WellFormed
<1>3. NextContract # 0
  BY DEF IInv, TypeOK, DeployedOK, NextContract
<1>4. Covers(m, memory) /\ Effect(op, m)
  BY <1>1, <1>2, <1>3 DEF Covers, Effect, WithImpl, Configurations
<1>5. Covers(m, config)
  BY <1>4 DEF EffectsInv, Covers
<1>. QED
  BY <1>2, <1>4, <1>5, StepLeaves DEF EffectsInv, Covers

LEMMA SaveConfigLeaves ==
    ASSUME IInv, running, EffectsInv, NEW op, SaveConfig(op)
    PROVE  EffectsInv'
<1>. PICK m : m = memory
  OBVIOUS
<1>1. Advance(op, m) /\ config' = m /\ op.kind = "save" /\ UNCHANGED <<newProxies, first>>
  BY DEF SaveConfig, deployedVars
<1>2. Covers(m, memory) /\ Covers(m, config') /\ Covers(config', config) /\ Effect(op, m)
  BY <1>1 DEF Covers, Effect, EffectsInv
<1>. QED
  BY <1>1, <1>2, StepLeaves DEF EffectsInv

LEMMA DeployProxyLeaves ==
    ASSUME IInv, running, EffectsInv, NEW op, op = Scripts(release)[script][step],
           DeployProxy(op)
    PROVE  EffectsInv'
<1>. PICK m : m = WithProxy(memory, op.name, Len(newProxies) + 1)
  OBVIOUS
<1>1. memory \in Configurations /\ newProxies \in Seq(ProxyRecords)
  BY DEF IInv, TypeOK, ConfigOK, DeployedOK
<1>2. /\ Advance(op, m) /\ UNCHANGED <<config, first>>
      /\ op.kind = "newProxy" /\ op.name \in AddedProxies
  BY <1>1, DeployProxyEdits, WhatIsLeft DEF DeployProxy, WellFormed
<1>3. Covers(m, memory) /\ Effect(op, m)
  BY <1>1, <1>2 DEF Covers, Effect, WithProxy, Configurations
<1>4. Covers(m, config)
  BY <1>3 DEF EffectsInv, Covers
<1>5. ASSUME NEW n \in AddedProxies, first'[n] # 0 PROVE newProxies'[first'[n]].impl # 0
  <2>1. newProxies[first[n]].impl # 0 /\ first[n] \in 1 .. Len(newProxies) /\ first'[n] = first[n]
    BY <1>2, <1>5 DEF EffectsInv, IInv, TypeOK, DeployedOK
  <2>2. newProxies'[first[n]] = newProxies[first[n]]
    BY <1>1, <2>1 DEF DeployProxy
  <2>. QED
    BY <2>1, <2>2
<1>. QED
  BY <1>2, <1>3, <1>4, <1>5, StepLeaves DEF Covers

LEMMA CreateSplitterLeaves ==
    ASSUME IInv, running, EffectsInv, NEW op, op = Scripts(release)[script][step],
           CreateSplitter(op)
    PROVE  EffectsInv'
<1>1. newProxies \in Seq(ProxyRecords) /\ Len(newProxies) \in Nat
      /\ first \in [AddedProxies -> Nat] /\ NextContract # 0
  BY DEF IInv, TypeOK, DeployedOK, NextContract
<1>2. /\ Advance(op, memory) /\ UNCHANGED config
      /\ op.kind = "create" /\ op.name \in AddedProxies
  BY WhatIsLeft DEF CreateSplitter, WellFormed
<1>3. /\ newProxies' = Append(newProxies, [impl |-> NextContract, initialized |-> FALSE])
      /\ first' = [first EXCEPT ![op.name] = IF @ = 0 THEN Len(newProxies) + 1 ELSE @]
  BY DEF CreateSplitter
<1>4. ASSUME NEW n \in AddedProxies, first'[n] # 0 PROVE newProxies'[first'[n]].impl # 0
  <2>1. CASE first[n] = 0
    <3>1. first'[n] = Len(newProxies) + 1
      BY <1>1, <1>2, <1>3, <1>4, <2>1
    <3>2. newProxies'[Len(newProxies) + 1] = [impl |-> NextContract, initialized |-> FALSE]
      BY <1>1, <1>3
    <3>. QED
      BY <1>1, <3>1, <3>2
  <2>2. CASE first[n] # 0
    <3>1. first'[n] = first[n]
      BY <1>1, <1>2, <1>3, <2>2
    <3>2. newProxies[first[n]].impl # 0 /\ first[n] \in 1 .. Len(newProxies)
      BY <2>2 DEF EffectsInv, IInv, TypeOK, DeployedOK
    <3>3. newProxies'[first[n]] = newProxies[first[n]]
      BY <1>1, <1>3, <3>2
    <3>. QED
      BY <3>1, <3>2, <3>3
  <2>. QED
    BY <2>1, <2>2
<1>. QED
  BY <1>2, <1>4, OtherStepsLeave

LEMMA InitializeSplitterLeaves ==
    ASSUME IInv, running, EffectsInv, NEW op, op = Scripts(release)[script][step],
           InitializeSplitter(op)
    PROVE  EffectsInv'
<1>1. newProxies \in Seq(ProxyRecords)
  BY DEF IInv, TypeOK, DeployedOK
<1>2. /\ Advance(op, memory) /\ UNCHANGED <<config, first>> /\ op.kind = "initialize"
  BY DEF InitializeSplitter
<1>3. ASSUME NEW n \in AddedProxies, first'[n] # 0 PROVE newProxies'[first'[n]].impl # 0
  <2>1. newProxies[first[n]].impl # 0 /\ first[n] \in 1 .. Len(newProxies) /\ first'[n] = first[n]
    BY <1>2, <1>3 DEF EffectsInv, IInv, TypeOK, DeployedOK
  <2>2. newProxies'[first[n]].impl = newProxies[first[n]].impl
    <3>1. first[op.name] \in 1 .. Len(newProxies)
      <4>1. op.name \in AddedProxies /\ step > 1
            /\ Scripts(release)[script][step - 1] = Do("create", op.name)
        BY <1>2, WhatIsLeft DEF WellFormed
      <4>2. first[op.name] # 0
        BY <4>1, WhatIsLeft DEF AfterStep, Do
      <4>. QED
        BY <4>1, <4>2 DEF IInv, TypeOK, DeployedOK
    <3>. PICK t : t = newProxies'
      OBVIOUS
    <3>2. t = [newProxies EXCEPT ![first[op.name]].initialized = TRUE]
      BY DEF InitializeSplitter
    <3>. QED
      BY <1>1, <2>1, <3>1, <3>2, ProxyInitialized, SMTT(30)
  <2>. QED
    BY <2>1, <2>2
<1>. QED
  BY <1>2, <1>3, OtherStepsLeave

LEMMA SaveSplitterLeaves ==
    ASSUME IInv, running, EffectsInv, NEW op, op = Scripts(release)[script][step],
           SaveSplitter(op)
    PROVE  EffectsInv'
<1>. PICK m : m = memory
  OBVIOUS
<1>1. memory \in Configurations
  BY DEF IInv, TypeOK, ConfigOK
<1>2. /\ Advance(op, m) /\ op.kind = "saveProxy" /\ UNCHANGED <<newProxies, first>>
      /\ config' = WithSplitter(memory, op.name, newProxies[first[op.name]].impl, first[op.name])
  BY <1>1, SaveSplitterEdits DEF SaveSplitter, deployedVars
<1>3. op.name \in AddedProxies /\ first[op.name] # 0 /\ newProxies[first[op.name]].impl # 0
  <2>1. op.name \in AddedProxies /\ step > 1
        /\ Scripts(release)[script][step - 1] = Do("initialize", op.name)
    BY <1>2, WhatIsLeft DEF WellFormed
  <2>2. first[op.name] # 0
    BY <2>1, WhatIsLeft DEF AfterStep, Do
  <2>. QED
    BY <2>1, <2>2 DEF EffectsInv
<1>4. Covers(config', memory) /\ Effect(op, config')
  BY <1>1, <1>2, <1>3 DEF Covers, Effect, WithSplitter, Configurations
<1>5. Covers(config', config)
  BY <1>4 DEF EffectsInv, Covers
<1>. QED
  BY <1>2, <1>4, <1>5, StepLeaves DEF EffectsInv

LEMMA DeployChangerLeaves ==
    ASSUME IInv, running, EffectsInv, NEW op, DeployChanger(op)
    PROVE  EffectsInv'
<1>. PICK m : m = WithChanger(memory, Len(changers) + 1)
  OBVIOUS
<1>1. memory \in Configurations /\ Len(changers) \in Nat
  BY DEF IInv, TypeOK, ConfigOK, DeployedOK
<1>2. /\ Advance(op, m) /\ UNCHANGED <<config, newProxies, first>>
      /\ op.kind \in {"newChanger", "newBatch"}
  BY <1>1, DeployChangerEdits DEF DeployChanger
<1>3. Covers(m, memory) /\ Effect(op, m)
  BY <1>1, <1>2 DEF Covers, Effect, WithChanger
<1>4. Covers(m, config)
  BY <1>3 DEF EffectsInv, Covers
<1>. QED
  BY <1>2, <1>3, <1>4, StepLeaves DEF EffectsInv, Covers

LEMMA RunStepLeaves ==
    ASSUME IInv, EffectsInv, RunStep
    PROVE  EffectsInv'
<1>. PICK op : op = Scripts(release)[script][step]
  OBVIOUS
<1>1. /\ running
      /\ \/ Deploy(op) \/ SaveConfig(op) \/ DeployProxy(op) \/ CreateSplitter(op)
         \/ InitializeSplitter(op) \/ SaveSplitter(op) \/ DeployChanger(op)
         \/ ScheduleBatch(op) \/ ExecuteChange(op) \/ Verify(op) \/ InitImplementation(op)
         \/ OnlyPrint(op) \/ Fail(op)
  BY DEF RunStep
<1>2. CASE ScheduleBatch(op) \/ ExecuteChange(op) \/ Verify(op) \/ InitImplementation(op)
           \/ OnlyPrint(op)
  <2>1. /\ Advance(op, memory) /\ UNCHANGED <<config, newProxies, first>>
        /\ op.kind \notin {"new", "newLinked", "newProxy", "newChanger", "newBatch", "save",
                           "saveProxy"}
    BY <1>2 DEF ScheduleBatch, ExecuteChange, Verify, InitImplementation, OnlyPrint, deployedVars
  <2>. QED
    BY <1>1, <2>1, OtherStepsLeave DEF EffectsInv
<1>3. CASE Fail(op)
  <2>1. running' = FALSE /\ UNCHANGED <<release, script, config, newProxies, first, orderly>>
    BY <1>3 DEF Fail, deployedVars, operatorVars
  <2>2. ~ running'
    BY <2>1
  <2>. QED
    BY <2>1, <2>2 DEF EffectsInv
<1>. QED
  BY <1>1, <1>2, <1>3, DeployLeaves, SaveConfigLeaves, DeployProxyLeaves, CreateSplitterLeaves,
     InitializeSplitterLeaves, SaveSplitterLeaves, DeployChangerLeaves

LEMMA NextEffectsInv ==
    ASSUME IInv, EffectsInv, [Next]_vars
    PROVE  EffectsInv'
<1>1. CASE RunStep
  BY <1>1, RunStepLeaves
<1>2. CASE Crash
  <2>1. running' = FALSE /\ UNCHANGED <<release, script, config, newProxies, first, orderly>>
    BY <1>2 DEF Crash, deployedVars, operatorVars
  <2>2. ~ running'
    BY <2>1
  <2>. QED
    BY <2>1, <2>2 DEF EffectsInv
<1>3. ASSUME NEW i \in 1 .. Len(Scripts(release)), Restart(i) PROVE EffectsInv'
  <2>1. /\ script' = i /\ step' = 1 /\ memory' = config
        /\ UNCHANGED <<release, config, newProxies, first>>
    BY <1>3 DEF Restart, deployedVars
  <2>2. orderly' => orderly /\ i \in {1, script}
    BY <1>3 DEF Restart
  <2>3. Covers(memory, config)' /\ EffectsOf(Scripts(release)[script], step - 1)'
    BY <2>1 DEF Covers, EffectsOf
  <2>4. ASSUME orderly', NEW j \in 1 .. script' - 1, NEW l \in 1 .. Len(Scripts(release)[j])
        PROVE  Effect(Scripts(release)[j][l], config)
    BY <2>1, <2>2, <2>4 DEF EffectsInv
  <2>. QED
    BY <2>1, <2>3, <2>4 DEF EffectsInv
<1>4. CASE EditConfig
  <2>1. /\ config' = [config EXCEPT !.values = 1] /\ memory' = config' /\ orderly' = FALSE
        /\ UNCHANGED <<release, script, step, running, newProxies, first>> /\ ~ running
    BY <1>4 DEF EditConfig, deployedVars
  <2>2. ~ orderly'
    BY <2>1
  <2>. QED
    BY <2>1, <2>2 DEF EffectsInv
<1>5. CASE Propose \/ GovernanceExecutes \/ OtherUpgrade \/ UNCHANGED vars
  <2>1. UNCHANGED <<release, script, step, running, memory, config, newProxies, first, orderly>>
    BY <1>5 DEF Propose, GovernanceExecutes, OtherUpgrade, vars, scriptVars, deployedVars,
       operatorVars
  <2>. QED
    BY <2>1 DEF EffectsInv, EffectsOf
<1>. QED
  BY <1>1, <1>2, <1>3, <1>4, <1>5 DEF Next

LEMMA InitEffectsInv == ASSUME Init PROVE EffectsInv
<1>1. /\ script = 1 /\ step = 1 /\ memory = config /\ first = [n \in AddedProxies |-> 0]
  BY DEF Init
<1>. QED
  BY <1>1 DEF EffectsInv, EffectsOf, Covers

LEMMA EffectsStay == Spec => []EffectsInv
  BY InitEffectsInv, NextEffectsInv, Invariant, PTL DEF Spec

(* ---------------------------------------------------------------------- *)
(* In order: what has been scheduled and executed.                        *)

\* A step of one of these kinds was made, by an earlier script or by the one that runs.
Made(kinds) ==
    \E j \in 1 .. Len(Scripts(release)) : \E l \in 1 .. Len(Scripts(release)[j]) :
        /\ j < script \/ (j = script /\ running /\ l < step)
        /\ Scripts(release)[j][l].kind \in kinds

\* In order, a step was made before or is made now.
LEMMA MadeInOrder ==
    ASSUME IInv, [Next]_vars, NEW kinds, orderly', Made(kinds)'
    PROVE  /\ release' = release /\ executes' = executes /\ orderly
           /\ \/ Made(kinds)
              \/ /\ running /\ RunStep
                 /\ \E m : Advance(Scripts(release)[script][step], m)
                 /\ Scripts(release)[script][step].kind \in kinds
<1>1. CASE RunStep
  <2>. PICK op : op = Scripts(release)[script][step]
    OBVIOUS
  <2>1. running
    BY <1>1 DEF RunStep
  <2>2. Fail(op) \/ \E m : Advance(op, m)
    BY <1>1 DEF RunStep, Deploy, SaveConfig, DeployProxy, CreateSplitter, InitializeSplitter,
       SaveSplitter, DeployChanger, ScheduleBatch, ExecuteChange, Verify, InitImplementation,
       OnlyPrint
  <2>3. CASE Fail(op)
    <3>1. running' = FALSE /\ UNCHANGED <<release, executes, script, orderly>>
      BY <2>3 DEF Fail, operatorVars
    <3>2. ~ running'
      BY <3>1
    <3>. QED
      BY <3>1, <3>2 DEF Made
  <2>4. ASSUME NEW m, Advance(op, m)
        PROVE  /\ release' = release /\ executes' = executes /\ orderly
               /\ Made(kinds) \/ op.kind \in kinds
    <3>1. /\ script \in Nat /\ step \in 1 .. Len(Scripts(release)[script])
          /\ Len(Scripts(release)[script]) \in Nat
      BY <2>1, StepThatRuns DEF IInv, TypeOK, PlaceOK
    <3>2. UNCHANGED <<release, executes, orderly>>
      BY <2>4 DEF Advance, operatorVars
    <3>3. PICK j \in 1 .. Len(Scripts(release)) : \E l \in 1 .. Len(Scripts(release)[j]) :
             /\ j < script' \/ (j = script' /\ running' /\ l < step')
             /\ Scripts(release)[j][l].kind \in kinds
      BY <3>2 DEF Made
    <3>4. PICK l \in 1 .. Len(Scripts(release)[j]) :
             /\ j < script' \/ (j = script' /\ running' /\ l < step')
             /\ Scripts(release)[j][l].kind \in kinds
      BY <3>3
    <3>5. CASE step < Len(Scripts(release)[script])
      <4>1. step' = step + 1 /\ script' = script
        BY <2>4, <3>5 DEF Advance
      <4>2. \/ j < script \/ (j = script /\ l < step)
            \/ j = script /\ l = step
        BY <3>1, <3>4, <4>1
      <4>. QED
        BY <2>1, <3>2, <3>4, <4>2 DEF Made
    <3>6. CASE ~ (step < Len(Scripts(release)[script]))
      <4>1. step' = 1 /\ script' = script + 1
        BY <2>4, <3>6 DEF Advance
      <4>2. step = Len(Scripts(release)[script])
        BY <3>1, <3>6
      <4>3. \/ j < script \/ (j = script /\ l < step)
            \/ j = script /\ l = step
        BY <3>1, <3>4, <4>1, <4>2
      <4>. QED
        BY <2>1, <3>2, <3>4, <4>3 DEF Made
    <3>. QED
      BY <3>5, <3>6
  <2>. QED
    BY <1>1, <2>1, <2>2, <2>3, <2>4
<1>2. CASE Crash
  <2>1. running' = FALSE /\ UNCHANGED <<release, executes, script, orderly>>
    BY <1>2 DEF Crash, operatorVars
  <2>2. ~ running'
    BY <2>1
  <2>. QED
    BY <2>1, <2>2 DEF Made
<1>3. ASSUME NEW i \in 1 .. Len(Scripts(release)), Restart(i)
      PROVE  release' = release /\ executes' = executes /\ orderly /\ Made(kinds)
  <2>1. /\ script' = i /\ step' = 1 /\ UNCHANGED <<release, executes>>
        /\ orderly /\ i \in {1, script}
    BY <1>3 DEF Restart
  <2>2. script \in Nat \ {0}
    BY ScriptLengths DEF IInv, TypeOK, PlaceOK
  <2>. QED
    BY <2>1, <2>2 DEF Made
<1>4. CASE EditConfig
  <2>1. orderly' = FALSE
    BY <1>4 DEF EditConfig
  <2>. QED
    BY <2>1
<1>5. CASE Propose \/ GovernanceExecutes \/ OtherUpgrade \/ UNCHANGED vars
  <2>1. UNCHANGED <<release, executes, script, step, running, orderly>>
    BY <1>5 DEF Propose, GovernanceExecutes, OtherUpgrade, vars, scriptVars, operatorVars
  <2>. QED
    BY <2>1 DEF Made
<1>. QED
  BY <1>1, <1>2, <1>3, <1>4, <1>5 DEF Next

\* After them the scripts save nothing.
LEMMA QuietNow ==
    ASSUME IInv, running, Made({"schedule", "execute", "executeVerified"})
    PROVE  Quiet(Scripts(release)[script][step])
<1>1. PICK j \in 1 .. Len(Scripts(release)) : \E l \in 1 .. Len(Scripts(release)[j]) :
         /\ j < script \/ (j = script /\ running /\ l < step)
         /\ Scripts(release)[j][l].kind \in {"schedule", "execute", "executeVerified"}
  BY DEF Made
<1>2. PICK l \in 1 .. Len(Scripts(release)[j]) :
         /\ j < script \/ (j = script /\ running /\ l < step)
         /\ Scripts(release)[j][l].kind \in {"schedule", "execute", "executeVerified"}
  BY <1>1
<1>3. /\ release \in AllReleases /\ script \in 1 .. Len(Scripts(release))
      /\ step \in 1 .. Len(Scripts(release)[script])
  BY DEF IInv, TypeOK, PlaceOK
<1>. QED
  BY <1>2, <1>3, NothingSavedAfter

LEMMA ConfigKept ==
    ASSUME IInv, [Next]_vars, orderly', Made({"schedule", "execute", "executeVerified"})
    PROVE  config' = config
<1>1. CASE RunStep
  <2>. PICK op : op = Scripts(release)[script][step]
    OBVIOUS
  <2>1. running
    BY <1>1 DEF RunStep
  <2>2. op.kind \notin {"save", "saveProxy"}
    BY <2>1, QuietNow DEF Quiet
  <2>3. \/ Deploy(op) \/ DeployProxy(op) \/ CreateSplitter(op)
        \/ InitializeSplitter(op) \/ DeployChanger(op)
        \/ ScheduleBatch(op) \/ ExecuteChange(op) \/ Verify(op) \/ InitImplementation(op)
        \/ OnlyPrint(op) \/ Fail(op)
    BY <1>1, <2>2 DEF RunStep, SaveConfig, SaveSplitter
  <2>. QED
    BY <2>3 DEF Deploy, DeployProxy, CreateSplitter, InitializeSplitter, DeployChanger,
       ScheduleBatch, ExecuteChange, Verify, InitImplementation, OnlyPrint, Fail
<1>2. CASE EditConfig
  BY <1>2 DEF EditConfig
<1>. QED
  BY <1>1, <1>2 DEF Next, vars, Crash, Propose, GovernanceExecutes, OtherUpgrade, Restart

\* A batch that was scheduled fits the configuration, until it is executed and after.
BatchInv ==
    orderly /\ Made({"schedule"}) =>
        /\ config.changer # 0
        /\ Fits(InConfig, config)
        /\ InConfig.scheduled \/ InConfig.applied > 0

\* A batch about to be executed was verified.
CheckedInv ==
    orderly /\ running /\ step > 1 /\ Scripts(release)[script][step - 1].kind = "verifyBatch" =>
        verified /\ (executes => InConfig.scheduled)

\* Once a change was executed, the system is what the configuration says.
ConfiguredInv ==
    /\ orderly /\ executes /\ release \notin {"v0.1.16.2", "v0.2.0"}
    /\ Made({"execute", "executeVerified"})
    => Configured(chain)

OrderInv == EffectsInv /\ BatchInv /\ CheckedInv /\ ConfiguredInv

LEMMA SchedulesFitting ==
    ASSUME IInv, running, NEW op, op = Scripts(release)[script][step], ScheduleBatch(op)
    PROVE  /\ config' = config /\ config.changer \in 1 .. Len(changers)
           /\ Fits(InConfig, config)' /\ InConfig'.scheduled
<1>. PICK e : e = Recorded(memory)
  OBVIOUS
<1>1. /\ op.kind = "schedule" /\ changers' = [changers EXCEPT ![memory.changer] = e]
      /\ config' = config /\ \E m : Advance(op, m)
  BY DEF ScheduleBatch
<1>2. config = memory /\ config.changer \in 1 .. Len(changers)
  BY <1>1, SchedulesLast
<1>3. e.scheduled /\ Fits(e, config)
  BY <1>2, RecordedWellTyped DEF IInv, TypeOK
<1>4. release' = release
  BY <1>1 DEF Advance
<1>5. changers'[config.changer] = e
  BY <1>1, <1>2 DEF IInv, TypeOK, DeployedOK
<1>. QED
  BY <1>1, <1>2, <1>3, <1>4, <1>5 DEF InConfig, Fits

LEMMA NextBatchInv ==
    ASSUME IInv, BatchInv, [Next]_vars
    PROVE  BatchInv'
<1>. SUFFICES ASSUME orderly', Made({"schedule"})'
              PROVE  /\ config'.changer # 0 /\ Fits(InConfig, config)'
                     /\ InConfig'.scheduled \/ InConfig'.applied > 0
  BY DEF BatchInv
<1>1. /\ orderly /\ release' = release
      /\ \/ Made({"schedule"})
         \/ /\ running /\ RunStep /\ Scripts(release)[script][step].kind = "schedule"
            /\ \E m : Advance(Scripts(release)[script][step], m)
  BY MadeInOrder
<1>2. CASE Made({"schedule"})
  <2>1. Made({"schedule", "execute", "executeVerified"})
    BY <1>2 DEF Made
  <2>2. config' = config
    BY <2>1, ConfigKept
  <2>3. /\ config.changer \in 1 .. Len(changers) /\ Fits(InConfig, config)
        /\ InConfig.scheduled \/ InConfig.applied > 0
    BY <1>1, <1>2 DEF BatchInv, IInv, TypeOK, ConfigOK, Configurations
  <2>. PICK id : id = config.changer
    OBVIOUS
  <2>4. ~ (running /\ Scripts(release)[script][step].kind = "schedule")
    BY <2>1, QuietNow DEF Quiet
  <2>5. /\ id \in 1 .. Len(changers) /\ changers[id].applied \in Nat
        /\ changers \in Seq(ChangerRecords(release))
    <3>1. changers \in Seq(ChangerRecords(release)) /\ id \in 1 .. Len(changers)
      BY <2>3 DEF IInv, TypeOK, DeployedOK
    <3>2. changers[id] \in ChangerRecords(release)
      BY <3>1
    <3>. QED
      BY <3>1, <3>2 DEF ChangerRecords
  <2>6. /\ changers'[id].upgrades = changers[id].upgrades
        /\ changers'[id].vendors = changers[id].vendors
        /\ changers'[id].splitter = changers[id].splitter
        /\ changers'[id].values = changers[id].values
        /\ changers'[id].scheduled \/ changers'[id].applied > 0
    <3>1. CASE UNCHANGED changers
      BY <2>3, <3>1 DEF InConfig
    <3>2. ASSUME NEW e \in ChangerRecords(release), changers' = Append(changers, e)
          PROVE  changers'[id] = changers[id]
      BY <2>5, <3>2
    <3>3. ASSUME NEW x \in 1 .. Len(changers), Execute(x)
          PROVE  /\ changers'[id].upgrades = changers[id].upgrades
                 /\ changers'[id].vendors = changers[id].vendors
                 /\ changers'[id].splitter = changers[id].splitter
                 /\ changers'[id].values = changers[id].values
                 /\ changers'[id].scheduled \/ changers'[id].applied > 0
      <4>1. TypeOK /\ TypeOK'
        BY NextIInv DEF IInv
      <4>2. /\ changers'[id].upgrades = changers[id].upgrades
            /\ changers'[id].vendors = changers[id].vendors
            /\ changers'[id].splitter = changers[id].splitter
            /\ changers'[id].values = changers[id].values
            /\ changers'[id].applied >= changers[id].applied
            /\ changers[id].scheduled => changers'[id].scheduled \/ changers'[id].applied > 0
            /\ Len(changers') = Len(changers)
        BY <2>5, <3>3, <4>1, ExecuteEffects
      <4>3. changers'[id].applied \in Nat
        <5>1. changers' \in Seq(ChangerRecords(release)) /\ id \in 1 .. Len(changers')
          BY <1>1, <2>5, <4>1, <4>2 DEF TypeOK, DeployedOK
        <5>2. changers'[id] \in ChangerRecords(release)
          BY <5>1
        <5>. QED
          BY <5>2 DEF ChangerRecords
      <4>4. changers[id].scheduled \/ changers[id].applied > 0
        BY <2>3 DEF InConfig
      <4>. QED
        BY <2>5, <4>2, <4>3, <4>4
    <3>. QED
      BY <2>3, <2>4, <3>1, <3>2, <3>3, ChangersAndChain DEF InConfig
  <2>. QED
    BY <1>1, <2>2, <2>3, <2>6 DEF InConfig, Fits
<1>3. CASE ~ Made({"schedule"})
  <2>. PICK op : op = Scripts(release)[script][step]
    OBVIOUS
  <2>1. running /\ RunStep /\ op.kind = "schedule" /\ Succeeds(op)
    <3>1. running /\ RunStep /\ op.kind = "schedule" /\ \E m : Advance(op, m)
      BY <1>1, <1>3
    <3>. QED
      BY <3>1 DEF Advance
  <2>2. ScheduleBatch(op)
    BY <2>1 DEF RunStep, Deploy, SaveConfig, DeployProxy, CreateSplitter, InitializeSplitter,
       SaveSplitter, DeployChanger, ExecuteChange, Verify, InitImplementation, OnlyPrint, Fail
  <2>. QED
    BY <1>1, <2>1, <2>2, SchedulesFitting DEF IInv, TypeOK, ConfigOK, Configurations, InConfig
<1>. QED
  BY <1>2, <1>3

\* What the order of the scripts says of the step that runs.
LEMMA OrderedNow ==
    ASSUME IInv, running
    PROVE  /\ release \in AllReleases /\ script \in 1 .. Len(Scripts(release))
           /\ step \in 1 .. Len(Scripts(release)[script]) /\ Ordered(release, script, step)
  BY AllOrdered DEF IInv, TypeOK, PlaceOK

\* A verification of the batch finds what its script scheduled.
LEMMA ScheduledBefore ==
    ASSUME IInv, running, orderly, BatchInv,
           Scripts(release)[script][step].kind = "verifyBatch"
    PROVE  /\ release \in {"v0.1.12", "governor"} /\ config.changer # 0
           /\ Fits(InConfig, config)
           /\ InConfig.scheduled \/ InConfig.applied > 0
<1>1. /\ release \in {"v0.1.12", "governor"}
      /\ \E j \in 1 .. script - 1 : \E l \in 1 .. Len(Scripts(release)[j]) :
            Scripts(release)[j][l].kind = "schedule"
  BY OrderedNow DEF Ordered
<1>2. Made({"schedule"})
  <2>1. \A j \in 1 .. script - 1 : j \in 1 .. Len(Scripts(release)) /\ j < script
    BY OrderedNow, ScriptLengths
  <2>. QED
    BY <1>1, <2>1 DEF Made
<1>. QED
  BY <1>1, <1>2 DEF BatchInv

LEMMA FittingMatches ==
    ASSUME release \in {"v0.1.12", "governor"}, NEW c, Fits(c, config)
    PROVE  MatchesConfig(c)
<1>1. MatchesUpgrades(c)
  BY DEF Fits, MatchesUpgrades, Recorded
<1>. QED
  BY <1>1 DEF Fits, MatchesConfig, MatchesAddresses, MatchesReplaced, MatchesValues

LEMMA NextCheckedInv ==
    ASSUME IInv, BatchInv, CheckedInv, [Next]_vars
    PROVE  CheckedInv'
<1>. SUFFICES ASSUME orderly', running', step' > 1,
                     Scripts(release')[script'][step' - 1].kind = "verifyBatch"
              PROVE  verified' /\ (executes' => InConfig'.scheduled)
  BY DEF CheckedInv
<1>1. CASE RunStep
  <2>. PICK op : op = Scripts(release)[script][step]
    OBVIOUS
  <2>1. running
    BY <1>1 DEF RunStep
  <2>2. ~ Fail(op)
    BY DEF Fail
  <2>3. \E m : Advance(op, m)
    BY <1>1, <2>2 DEF RunStep, Deploy, SaveConfig, DeployProxy, CreateSplitter,
       InitializeSplitter, SaveSplitter, DeployChanger, ScheduleBatch, ExecuteChange, Verify,
       InitImplementation, OnlyPrint
  <2>4. /\ op.kind = "verifyBatch" /\ Succeeds(op)
        /\ UNCHANGED <<release, executes, orderly>>
    <3>1. PICK m : Advance(op, m)
      BY <2>3
    <3>2. /\ script' = script /\ step' = step + 1 /\ step \in Nat
          /\ UNCHANGED <<release, executes, orderly>>
      BY <2>1, <3>1, AdvanceMoves DEF IInv, TypeOK, PlaceOK, operatorVars
    <3>3. op = Scripts(release')[script'][step' - 1]
      <4>1. step' - 1 = step
        BY <3>2
      <4>. QED
        BY <3>2, <4>1
    <3>4. Succeeds(op)
      BY <3>1 DEF Advance
    <3>. QED
      BY <3>2, <3>3, <3>4
  <2>5. Verify(op)
    BY <1>1, <2>2, <2>4 DEF RunStep, Deploy, SaveConfig, DeployProxy, CreateSplitter,
       InitializeSplitter, SaveSplitter, DeployChanger, ScheduleBatch, ExecuteChange,
       InitImplementation, OnlyPrint
  <2>6. UNCHANGED <<config, changers>> /\ verified' = MatchesConfig(InConfig)
    BY <2>5 DEF Verify, deployedVars
  <2>7. MatchesConfig(InConfig)
    BY <2>1, <2>4, ScheduledBefore, FittingMatches
  <2>8. verified'
    BY <2>6, <2>7
  <2>9. InConfig'.scheduled
    BY <2>4, <2>6 DEF Succeeds, InConfig
  <2>. QED
    BY <2>8, <2>9
<1>2. CASE Crash
  BY <1>2 DEF Crash
<1>3. ASSUME NEW i \in 1 .. Len(Scripts(release)), Restart(i) PROVE FALSE
  BY <1>3 DEF Restart
<1>4. CASE EditConfig
  BY <1>4 DEF EditConfig
<1>5. CASE Propose \/ UNCHANGED vars
  <2>1. UNCHANGED <<release, executes, script, step, running, config, changers, verified,
                    orderly>>
    BY <1>5 DEF Propose, vars, scriptVars, deployedVars, operatorVars
  <2>. QED
    BY <2>1 DEF CheckedInv, InConfig
<1>6. CASE GovernanceExecutes
  <2>1. /\ proposed # 0
        /\ UNCHANGED <<release, executes, script, step, running, config, verified, orderly>>
    BY <1>6 DEF GovernanceExecutes, scriptVars, operatorVars
  <2>2. ~ executes
    BY <2>1 DEF IInv, TypeOK, GovernanceOK
  <2>. QED
    BY <2>1, <2>2 DEF CheckedInv
<1>7. CASE OtherUpgrade
  <2>1. /\ release = "v0.1.16.2"
        /\ UNCHANGED <<release, script, step, running>>
    BY <1>7 DEF OtherUpgrade, scriptVars
  <2>2. /\ script \in 1 .. Len(Scripts(release))
        /\ step - 1 \in 1 .. Len(Scripts(release)[script])
    <3>1. running /\ step > 1
      BY <2>1
    <3>2. Len(Scripts(release)[script]) \in Nat /\ step \in 1 .. Len(Scripts(release)[script])
      BY <3>1, StepThatRuns DEF IInv, TypeOK
    <3>. QED
      BY <3>1, <3>2, OrderedNow
  <2>3. Scripts(release)[script][step - 1].kind # "verifyBatch"
    <3>1. Ordered(release, script, step - 1)
      BY <2>2, AllOrdered DEF IInv, TypeOK, PlaceOK
    <3>. QED
      BY <2>1, <3>1 DEF Ordered
  <2>. QED
    BY <2>1, <2>3
<1>. QED
  BY <1>1, <1>2, <1>3, <1>4, <1>5, <1>6, <1>7 DEF Next

\* What a step in order executes fits the configuration and was not executed before.
LEMMA ExecutionFits ==
    ASSUME IInv, CheckedInv, running, orderly, executes, RunStep,
           NEW op, op = Scripts(release)[script][step], Succeeds(op),
           op.kind \in {"execute", "executeVerified"}
    PROVE  /\ config' = config /\ config.changer \in 1 .. Len(changers)
           /\ Execute(config.changer)
           /\ Fits(changers[config.changer], config) /\ changers[config.changer].scheduled
<1>1. op.kind = "executeVerified" => verified /\ changers[config.changer].scheduled
  <2>. SUFFICES ASSUME op.kind = "executeVerified"
                PROVE  verified /\ changers[config.changer].scheduled
    OBVIOUS
  <2>1. step = 2 /\ Scripts(release)[script][1].kind = "verifyBatch"
    BY OrderedNow DEF Ordered
  <2>. QED
    BY <2>1 DEF CheckedInv, InConfig
<1>2. ExecuteChange(op)
  BY <1>1 DEF RunStep, Deploy, SaveConfig, DeployProxy, CreateSplitter, InitializeSplitter,
     SaveSplitter, DeployChanger, ScheduleBatch, Verify, InitImplementation, OnlyPrint, Fail
<1>3. config' = config
  BY <1>2 DEF ExecuteChange
<1>. QED
  BY <1>1, <1>2, <1>3, ExecutesFitting

LEMMA NextConfiguredInv ==
    ASSUME IInv, CheckedInv, ConfiguredInv, [Next]_vars
    PROVE  ConfiguredInv'
<1>. SUFFICES ASSUME orderly', executes', release' \notin {"v0.1.16.2", "v0.2.0"},
                     Made({"execute", "executeVerified"})'
              PROVE  Configured(chain)'
  BY DEF ConfiguredInv
<1>1. /\ orderly /\ release' = release /\ executes' = executes
      /\ \/ Made({"execute", "executeVerified"})
         \/ /\ running /\ RunStep
            /\ \E m : Advance(Scripts(release)[script][step], m)
            /\ Scripts(release)[script][step].kind \in {"execute", "executeVerified"}
  BY MadeInOrder
<1>2. config' = config /\ Configured(chain')
  <2>1. CASE Made({"execute", "executeVerified"})
    <3>1. config' = config
      <4>1. Made({"schedule", "execute", "executeVerified"})
        BY <2>1 DEF Made
      <4>. QED
        BY <4>1, ConfigKept
    <3>2. CASE chain' = chain
      BY <1>1, <2>1, <3>1, <3>2 DEF ConfiguredInv
    <3>3. CASE chain' # chain
      <4>1. otherUpgrades' = otherUpgrades
        <5>1. ~ OtherUpgrade
          BY <1>1 DEF OtherUpgrade
        <5>. QED
          BY <5>1, ChangersAndChain
      <4>2. proposed' = proposed
        BY <1>1, NextIInv DEF IInv, TypeOK, GovernanceOK
      <4>. QED
        BY <1>1, <3>1, <3>3, <4>1, <4>2, ExecutionConfigures
    <3>. QED
      BY <3>2, <3>3
  <2>2. CASE ~ Made({"execute", "executeVerified"})
    <3>. PICK op : op = Scripts(release)[script][step]
      OBVIOUS
    <3>1. /\ running /\ RunStep /\ op.kind \in {"execute", "executeVerified"}
          /\ Succeeds(op)
      BY <1>1, <2>2 DEF Advance
    <3>. QED
      BY <1>1, <3>1, ExecutionFits, FittingConfigures DEF IInv
  <2>. QED
    BY <2>1, <2>2
<1>. QED
  BY <1>1, <1>2 DEF Configured

LEMMA InitOrderInv == ASSUME Init PROVE OrderInv
<1>1. ASSUME NEW kinds PROVE ~ Made(kinds)
  <2>1. script = 1 /\ step = 1
    BY DEF Init
  <2>. QED
    BY <2>1 DEF Made
<1>2. BatchInv /\ ConfiguredInv
  BY <1>1 DEF BatchInv, ConfiguredInv
<1>3. CheckedInv
  BY DEF Init, CheckedInv
<1>. QED
  BY <1>2, <1>3, InitEffectsInv DEF OrderInv

LEMMA OrderInvariant == Spec => []OrderInv
<1>1. IInv /\ OrderInv /\ [Next]_vars => OrderInv'
  BY NextEffectsInv, NextBatchInv, NextCheckedInv, NextConfiguredInv DEF OrderInv
<1>. QED
  BY <1>1, InitOrderInv, Invariant, PTL DEF Spec

\* In order, for any number of restarts where the release stopped or at its beginning, it
\* ends with the system upgraded to what it deployed, although no verification stops it.
THEOREM FinishedReleases == Spec => []FinishedIsConfigured
<1>1. ASSUME IInv, OrderInv, orderly, executes, script = Len(Scripts(release)) + 1,
             release \in {"v0.1.11", "v0.1.12", "v0.1.14", "v0.1.16.1"}
      PROVE  Configured(chain)
  <2>1. PICK k \in 1 .. Len(Scripts(release)) : \E i \in 1 .. Len(Scripts(release)[k]) :
                Scripts(release)[k][i].kind \in {"execute", "executeVerified"}
    BY <1>1, SomethingExecutes
  <2>2. k < script
    BY <1>1, <2>1, ScriptLengths DEF AllReleases
  <2>3. Made({"execute", "executeVerified"})
    BY <2>1, <2>2 DEF Made
  <2>. QED
    BY <1>1, <2>3 DEF OrderInv, ConfiguredInv
<1>. QED
  BY <1>1, Invariant, OrderInvariant, PTL DEF FinishedIsConfigured

\* What a changer is deployed or scheduled for was deployed before it.
LEMMA NeedsAreMet ==
    ASSUME IInv, EffectsInv, running, orderly, NEW op, op = Scripts(release)[script][step],
           op.kind \in {"newChanger", "schedule"}, release # "v0.2.0"
    PROVE  Complete(memory)
<1>. PICK s : s = Scripts(release)[script]
  OBVIOUS
<1>0. Ordered(release, script, step) /\ release \in AllReleases
  BY OrderedNow
<1>1. ASSUME NEW p \in DOMAIN Upgrades(release) PROVE memory.impl[Upgrades(release)[p]] # 0
  <2>1. PICK j \in 1 .. script :
                /\ j < script \/ step > 1
                /\ Scripts(release)[j][1].kind \in {"new", "newLinked"}
                /\ Scripts(release)[j][1].name = Upgrades(release)[p]
    BY <1>0 DEF Ordered
  <2>2. Upgrades(release)[p] \in Implementations
    BY <1>0, UpgradesWellTyped
  <2>3. Effect(Scripts(release)[j][1], memory) \/ Effect(Scripts(release)[j][1], config)
    <3>1. CASE j < script
      <4>1. j \in 1 .. script - 1 /\ j \in 1 .. Len(Scripts(release))
        BY <2>1, <3>1, OrderedNow
      <4>2. 1 \in 1 .. Len(Scripts(release)[j])
        <5>1. WellFormed(Scripts(release)[j])
          BY <1>0, <4>1, AllWellFormed
        <5>. QED
          BY <5>1 DEF WellFormed
      <4>. QED
        BY <4>1, <4>2 DEF EffectsInv
    <3>2. CASE ~ (j < script)
      <4>1. j = script /\ 1 \in 1 .. step - 1
        BY <2>1, <3>2, OrderedNow, StepThatRuns DEF IInv, TypeOK
      <4>. QED
        BY <4>1 DEF EffectsInv, EffectsOf
    <3>. QED
      BY <3>1, <3>2
  <2>. QED
    BY <2>1, <2>2, <2>3 DEF Effect, EffectsInv, Covers
<1>2. release = "v0.1.12" => memory.proxy["MoCVendors"] # 0
  <2>. SUFFICES ASSUME release = "v0.1.12" PROVE memory.proxy["MoCVendors"] # 0
    OBVIOUS
  <2>1. PICK j \in 1 .. script - 1 : \E l \in 1 .. Len(Scripts(release)[j]) :
                Scripts(release)[j][l] = Do("newProxy", "MoCVendors")
    BY <1>0 DEF Ordered
  <2>2. PICK l \in 1 .. Len(Scripts(release)[j]) :
                Scripts(release)[j][l] = Do("newProxy", "MoCVendors")
    BY <2>1
  <2>3. Effect(Scripts(release)[j][l], config)
    BY <2>1, <2>2 DEF EffectsInv
  <2>4. config.proxy["MoCVendors"] # 0
    BY <2>2, <2>3 DEF Effect, Do
  <2>. QED
    BY <2>4 DEF EffectsInv, Covers, AddedProxies
<1>. QED
  BY <1>1, <1>2 DEF Complete

\* What a check or a split reads was saved before it.
LEMMA ReadsAreMet ==
    ASSUME IInv, EffectsInv, running, orderly, NEW op, op = Scripts(release)[script][step]
    PROVE  /\ op.kind \in {"verify", "verifyBatch"} => config.changer # 0
           /\ op.kind = "split" => config.proxy[op.name] # 0
<1>1. Ordered(release, script, step)
  BY OrderedNow
<1>2. ASSUME op.kind \in {"verify", "verifyBatch"} PROVE config.changer # 0
  <2>1. PICK j \in 1 .. script - 1 : \E l \in 1 .. Len(Scripts(release)[j]) :
                Scripts(release)[j][l].kind \in {"newChanger", "newBatch"}
    BY <1>1, <1>2 DEF Ordered
  <2>. QED
    BY <2>1 DEF EffectsInv, Effect
<1>3. ASSUME op.kind = "split" PROVE config.proxy[op.name] # 0
  <2>1. PICK j \in 1 .. script - 1 : \E l \in 1 .. Len(Scripts(release)[j]) :
                Scripts(release)[j][l] = Do("saveProxy", op.name)
    BY <1>1, <1>3 DEF Ordered
  <2>. QED
    BY <2>1 DEF EffectsInv, Effect, Do
<1>. QED
  BY <1>2, <1>3

\* In order, for any number of restarts, no step fails for want of what an earlier script
\* deploys or saves.
THEOREM OnlyKnownFailures == Spec => []OnlyTheseFail
<1>1. ASSUME IInv, OrderInv, running, orderly, NEW op, op = Scripts(release)[script][step],
             op.kind \notin {"initialize", "initImplementation", "executeOrThrow", "throw"},
             ~ (op.kind = "verifyBatch" /\ InConfig.applied > 0),
             ~ (release = "governor" /\ op.kind = "execute"),
             ~ (release = "v0.2.0" /\ op.kind = "newChanger")
      PROVE  Succeeds(op)
  <2>1. Ordered(release, script, step)
    BY <1>1, OrderedNow
  <2>2. op.kind \in {"newChanger", "schedule"} => release # "v0.2.0" /\ Complete(memory)
    <3>1. op.kind = "schedule" => release # "v0.2.0"
      BY <1>1, <2>1 DEF Ordered
    <3>. QED
      BY <1>1, <3>1, NeedsAreMet DEF OrderInv
  <2>3. /\ op.kind \in {"verify", "verifyBatch"} => config.changer # 0
        /\ op.kind = "split" => config.proxy[op.name] # 0
    BY <1>1, ReadsAreMet DEF OrderInv
  <2>4. op.kind = "verifyBatch" => InConfig.scheduled
    BY <1>1, ScheduledBefore DEF OrderInv
  <2>5. op.kind \in {"execute", "executeVerified"} => ~ Reverts(InConfig)
    <3>1. op.kind \in {"execute", "executeVerified"} =>
             release \in {"v0.1.11", "v0.1.12", "v0.1.14", "v0.1.16.1"}
      BY <1>1, <2>1 DEF Ordered
    <3>. QED
      BY <3>1 DEF Reverts
  <2>. QED
    BY <1>1, <2>2, <2>3, <2>4, <2>5 DEF Succeeds
<1>2. IInv /\ OrderInv => OnlyTheseFail
  BY <1>1 DEF OnlyTheseFail
<1>. QED
  BY <1>2, Invariant, OrderInvariant, PTL

(* ---------------------------------------------------------------------- *)
(* In order: what one batch of v0.1.12 installs is linked to one library. *)

\* The scripts that link a contract to the library of the configuration.
LinkedBy == [MoCVendors |-> 2, MoC |-> 3, MoCExchange |-> 4, MoCInrate |-> 7, MoCState |-> 8]

LEMMA LinkedScripts ==
    /\ DOMAIN LinkedBy = {"MoCVendors", "MoC", "MoCExchange", "MoCInrate", "MoCState"}
    /\ LinkedBy["MoCVendors"] = 2 /\ LinkedBy["MoC"] = 3 /\ LinkedBy["MoCExchange"] = 4
    /\ LinkedBy["MoCInrate"] = 7 /\ LinkedBy["MoCState"] = 8
  BY DEF LinkedBy

\* What the i-th of the steps s of script k has to do with the library.
Links(s, k, i) ==
    /\ s[i].kind \notin {"newChanger", "saveProxy"}
    /\ s[i].kind \in {"new", "newLinked"} =>
          \/ s[i].name = "MoCHelperLib" /\ k = 1
          \/ /\ s[i].kind = "newLinked"
             /\ s[i].name \in DOMAIN LinkedBy /\ k = LinkedBy[s[i].name] /\ i = 1
          \/ s[i].name \in {"MoCSettlement", "CommissionSplitter"}
    /\ s[i].kind = "newProxy" =>
          \/ s[i].name = "MoCVendors" /\ k = 2 /\ i = 3
          \/ s[i].name = "CommissionSplitter"
    /\ i = 1 => \A n \in DOMAIN LinkedBy : LinkedBy[n] = k => s[i] = Do("newLinked", n)
    /\ k = 2 /\ i = 3 => s[i] = Do("newProxy", "MoCVendors")
    /\ s[i].kind = "schedule" => k = 9
    /\ i = Len(s) /\ k \in {2, 3, 4, 7, 8} =>
          s[i].kind = "save" /\ i > 1 /\ (k = 2 => i > 3)

\* The shapes of scripts, each in its place.
LEMMA ShapesLink ==
    /\ \A k, n : n \in DOMAIN LinkedBy /\ LinkedBy[n] = k /\ k # 2 =>
          \A i \in 1 .. Len(LinkedImplementation(n)) : Links(LinkedImplementation(n), k, i)
    /\ \A i \in 1 .. Len(Implementation("MoCHelperLib")) :
          Links(Implementation("MoCHelperLib"), 1, i)
    /\ \A i \in 1 .. Len(Implementation("MoCSettlement")) :
          Links(Implementation("MoCSettlement"), 5, i)
<1>1. ASSUME NEW n \in DOMAIN LinkedBy, LinkedBy[n] # 2, NEW i \in 1 .. 2
      PROVE  Links(<<Do("newLinked", n), Do("save", n)>>, LinkedBy[n], i)
  <2>1. \A m \in DOMAIN LinkedBy : LinkedBy[m] = LinkedBy[n] => m = n
    BY LinkedScripts
  <2>2. CASE i = 1
    BY <1>1, <2>1, <2>2 DEF Links, Do
  <2>3. CASE i = 2
    BY <1>1, <2>3 DEF Links, Do
  <2>. QED
    BY <2>2, <2>3
<1>2. ASSUME NEW i \in 1 .. 2
      PROVE  /\ Links(<<Do("new", "MoCHelperLib"), Do("save", "MoCHelperLib")>>, 1, i)
             /\ Links(<<Do("new", "MoCSettlement"), Do("save", "MoCSettlement")>>, 5, i)
  BY LinkedScripts DEF Links, Do
<1>3. \A n : Len(LinkedImplementation(n)) = 2 /\ Len(Implementation(n)) = 2
  BY DEF LinkedImplementation, Implementation
<1>4. ASSUME NEW k, NEW n, n \in DOMAIN LinkedBy /\ LinkedBy[n] = k /\ k # 2,
             NEW i \in 1 .. Len(LinkedImplementation(n))
      PROVE  Links(LinkedImplementation(n), k, i)
  <2>1. i \in 1 .. 2
    BY <1>3
  <2>. QED
    BY <1>1, <1>4, <2>1 DEF LinkedImplementation
<1>. QED
  BY <1>2, <1>3, <1>4 DEF Implementation

LEMMA AllLink ==
    ASSUME NEW k \in 1 .. Len(Scripts("v0.1.12")), NEW i \in 1 .. Len(Scripts("v0.1.12")[k])
    PROVE  Links(Scripts("v0.1.12")[k], k, i)
<1>1. k \in 1 .. 11
  BY V12ScriptsOf
<1>2. CASE k \in {1, 5}
  <2>1. /\ Scripts("v0.1.12")[1] = Implementation("MoCHelperLib")
        /\ Scripts("v0.1.12")[5] = Implementation("MoCSettlement")
    BY V12ScriptsOf DEF V12DeployMoCLib, V12DeployMoCSettlement
  <2>2. CASE k = 1
    BY <2>1, <2>2, ShapesLink
  <2>3. CASE k = 5
    BY <2>1, <2>3, ShapesLink
  <2>. QED
    BY <1>2, <2>2, <2>3
<1>3. CASE k \in {3, 4, 7, 8}
  <2>1. /\ Scripts("v0.1.12")[3] = LinkedImplementation("MoC")
        /\ Scripts("v0.1.12")[4] = LinkedImplementation("MoCExchange")
        /\ Scripts("v0.1.12")[7] = LinkedImplementation("MoCInrate")
        /\ Scripts("v0.1.12")[8] = LinkedImplementation("MoCState")
    BY V12ScriptsOf DEF V12DeployMoC, V12DeployMoCExchange, V12DeployMoCInrate, V12DeployMoCState
  <2>2. \E n \in DOMAIN LinkedBy :
           LinkedBy[n] = k /\ Scripts("v0.1.12")[k] = LinkedImplementation(n)
    BY <1>3, <2>1, LinkedScripts
  <2>3. k # 2
    BY <1>3
  <2>. QED
    BY <2>2, <2>3, ShapesLink
<1>4. CASE k = 2
  <2>1. Scripts("v0.1.12")[2] = ImplementationAndProxy("newLinked", "MoCVendors")
    BY V12ScriptsOf DEF V12DeployMoCVendors
  <2>. PICK s : s = ImplementationAndProxy("newLinked", "MoCVendors")
    OBVIOUS
  <2>2. /\ s[1] = Do("newLinked", "MoCVendors") /\ s[2] = Do("save", "MoCVendors")
        /\ s[3] = Do("newProxy", "MoCVendors") /\ s[4] = Do("save", "MoCVendors")
        /\ Len(s) = 4
    BY DEF ImplementationAndProxy
  <2>3. \A n \in DOMAIN LinkedBy : LinkedBy[n] = 2 => n = "MoCVendors"
    BY LinkedScripts
  <2>4. i \in 1 .. 4
    BY <1>4, <2>1, <2>2
  <2>5. i = 1 => Links(s, 2, i)
    BY <2>2, <2>3, LinkedScripts DEF Links, Do
  <2>6. i = 2 => Links(s, 2, i)
    BY <2>2 DEF Links, Do
  <2>7. i = 3 => Links(s, 2, i)
    BY <2>2 DEF Links, Do
  <2>8. i = 4 => Links(s, 2, i)
    BY <2>2 DEF Links, Do
  <2>. QED
    BY <1>4, <2>1, <2>4, <2>5, <2>6, <2>7, <2>8
<1>5. CASE k = 6
  <2>1. Scripts("v0.1.12")[6] = ImplementationAndProxy("new", "CommissionSplitter")
    BY V12ScriptsOf DEF V12DeployCommissionSplitter
  <2>. PICK s : s = ImplementationAndProxy("new", "CommissionSplitter")
    OBVIOUS
  <2>2. /\ s[1] = Do("new", "CommissionSplitter") /\ s[2] = Do("save", "CommissionSplitter")
        /\ s[3] = Do("newProxy", "CommissionSplitter")
        /\ s[4] = Do("save", "CommissionSplitter") /\ Len(s) = 4
    BY DEF ImplementationAndProxy
  <2>3. \A n \in DOMAIN LinkedBy : LinkedBy[n] # 6
    BY LinkedScripts
  <2>4. i \in 1 .. 4
    BY <1>5, <2>1, <2>2
  <2>5. i \in {1, 3} => Links(s, 6, i)
    BY <2>2, <2>3 DEF Links, Do
  <2>6. i \in {2, 4} => Links(s, 6, i)
    BY <2>2 DEF Links, Do
  <2>. QED
    BY <1>5, <2>1, <2>4, <2>5, <2>6
<1>6. CASE k \in {9, 10, 11}
  <2>1. \A n \in DOMAIN LinkedBy : LinkedBy[n] # k
    BY <1>6, LinkedScripts
  <2>2. k = 9 => Links(Scripts("v0.1.12")[k], k, i)
    <3>. HAVE k = 9
    <3>. PICK s : s = V12BatchChanger
      OBVIOUS
    <3>1. Scripts("v0.1.12")[k] = s
      BY V12ScriptsOf
    <3>2. /\ Len(s) = 3 /\ s[1].kind = "newBatch" /\ s[2].kind = "save"
          /\ s[3].kind = "schedule"
      BY DEF V12BatchChanger, Batch, Do
    <3>3. i \in 1 .. 3
      BY <3>1, <3>2
    <3>. QED
      BY <2>1, <3>1, <3>2, <3>3 DEF Links
  <2>3. k = 10 => Links(Scripts("v0.1.12")[k], k, i)
    <3>. HAVE k = 10
    <3>. PICK s : s = V12VerificationChanger
      OBVIOUS
    <3>1. Scripts("v0.1.12")[k] = s
      BY V12ScriptsOf
    <3>2. Len(s) = 2 /\ s[1].kind = "verifyBatch" /\ s[2].kind = "executeVerified"
      BY DEF V12VerificationChanger, Do
    <3>3. i \in 1 .. 2
      BY <3>1, <3>2
    <3>. QED
      BY <2>1, <3>1, <3>2, <3>3 DEF Links
  <2>4. k = 11 => Links(Scripts("v0.1.12")[k], k, i)
    <3>. HAVE k = 11
    <3>. PICK s : s = V12CheckDeploy
      OBVIOUS
    <3>1. Scripts("v0.1.12")[k] = s
      BY V12ScriptsOf
    <3>2. Len(s) = 1 /\ s[1].kind = "print"
      BY DEF V12CheckDeploy, Do
    <3>3. i \in 1 .. 1
      BY <3>1, <3>2
    <3>. QED
      BY <2>1, <3>1, <3>2, <3>3 DEF Links
  <2>. QED
    BY <1>6, <2>2, <2>3, <2>4
<1>. QED
  BY <1>1, <1>2, <1>3, <1>4, <1>5, <1>6

\* The contract that conf names n is linked to the library conf names.
LinkedTo(conf, n) ==
    /\ conf.impl[n] \in 1 .. Len(contracts)
    /\ contracts[conf.impl[n]].library = conf.impl["MoCHelperLib"]

VendorsProxied(conf) ==
    /\ conf.proxy["MoCVendors"] \in 1 .. Len(newProxies)
    /\ newProxies[conf.proxy["MoCVendors"]].impl = conf.impl["MoCVendors"]

\* What the scripts before k, and the steps of k before i, link in conf.
LinkedUpTo(conf, k, i) ==
    /\ \A n \in DOMAIN LinkedBy :
          LinkedBy[n] < k \/ (LinkedBy[n] = k /\ i > 1) => LinkedTo(conf, n)
    /\ k > 2 \/ (k = 2 /\ i > 3) => VendorsProxied(conf)

\* The contracts the changer c installs that are linked to a library.
Installs(c) ==
    {c.upgrades[p] : p \in DOMAIN c.upgrades \ {"MoCSettlement"}}
    \cup {newProxies[c.vendors].impl}

OneLibraryIn(c) ==
    /\ c.vendors \in 1 .. Len(newProxies)
    /\ \E lib : \A x \in Installs(c) : x \in 1 .. Len(contracts) /\ contracts[x].library = lib

LibraryInv ==
    release = "v0.1.12" /\ orderly =>
        /\ LinkedUpTo(config, script, 1)
        /\ running => LinkedUpTo(memory, script, step)
        /\ \A c \in {changers[i] : i \in 1 .. Len(changers)} : c.scheduled => OneLibraryIn(c)

\* No contract is linked again and no proxy deployed here is upgraded.
Grows ==
    /\ Len(contracts) <= Len(contracts') /\ Len(newProxies) <= Len(newProxies')
    /\ \A x \in 1 .. Len(contracts) : contracts'[x].library = contracts[x].library
    /\ \A x \in 1 .. Len(newProxies) : newProxies'[x].impl = newProxies[x].impl

LEMMA LibraryLengths ==
    ASSUME IInv
    PROVE  Len(contracts) \in Nat /\ Len(newProxies) \in Nat
  BY DEF IInv, TypeOK, DeployedOK

LEMMA LinksStay ==
    ASSUME IInv, IInv', Grows, NEW conf, NEW k, NEW i, LinkedUpTo(conf, k, i)
    PROVE  LinkedUpTo(conf, k, i)'
<1>1. /\ Len(contracts) \in Nat /\ Len(newProxies) \in Nat
      /\ Len(contracts') \in Nat /\ Len(newProxies') \in Nat
  BY LibraryLengths DEF IInv, TypeOK, DeployedOK
<1>2. ASSUME NEW n, LinkedTo(conf, n) PROVE LinkedTo(conf, n)'
  BY <1>1, <1>2 DEF LinkedTo, Grows
<1>3. VendorsProxied(conf) => VendorsProxied(conf)'
  BY <1>1 DEF VendorsProxied, Grows
<1>. QED
  BY <1>2, <1>3 DEF LinkedUpTo

LEMMA InstallsStay ==
    ASSUME IInv, IInv', Grows, NEW c, OneLibraryIn(c), NEW d,
           d.upgrades = c.upgrades, d.vendors = c.vendors
    PROVE  OneLibraryIn(d)'
<1>1. /\ Len(contracts) \in Nat /\ Len(newProxies) \in Nat
      /\ Len(contracts') \in Nat /\ Len(newProxies') \in Nat
  BY LibraryLengths DEF IInv, TypeOK, DeployedOK
<1>2. c.vendors \in 1 .. Len(newProxies) /\ c.vendors \in 1 .. Len(newProxies')
  BY <1>1 DEF OneLibraryIn, Grows
<1>3. newProxies'[c.vendors].impl = newProxies[c.vendors].impl
  BY <1>2 DEF Grows
<1>4. PICK lib : \A x \in Installs(c) : x \in 1 .. Len(contracts) /\ contracts[x].library = lib
  BY DEF OneLibraryIn
<1>5. \A x \in Installs(c) : x \in 1 .. Len(contracts') /\ contracts'[x].library = lib
  BY <1>1, <1>4 DEF Grows
<1>6. Installs(d)' = Installs(c)
  BY <1>3 DEF Installs
<1>. QED
  BY <1>2, <1>5, <1>6 DEF OneLibraryIn

LEMMA ContractAppended ==
    ASSUME NEW s, s \in Seq(ContractRecords), NEW e, NEW t, t = Append(s, e)
    PROVE  /\ Len(t) = Len(s) + 1 /\ Len(s) \in Nat /\ t[Len(s) + 1] = e
           /\ \A i \in 1 .. Len(s) : t[i] = s[i]
<1>. HIDE DEF ContractRecords
<1>. QED
  OBVIOUS

\* Marking a contract initialized leaves what every contract is linked to.
LibrariesAre(t, s) == \A x \in 1 .. Len(s) : t[x].library = s[x].library

LEMMA LibrariesKept ==
    ASSUME NEW s \in Seq(ContractRecords), NEW i, NEW t,
           t = [s EXCEPT ![i].initialized = TRUE]
    PROVE  Len(t) = Len(s) /\ LibrariesAre(t, s)
BY ContractInitialized DEF LibrariesAre

LEMMA RunStepGrows ==
    ASSUME IInv, RunStep
    PROVE  Grows
<1>. PICK op : op = Scripts(release)[script][step]
  OBVIOUS
<1>0. /\ contracts \in Seq(ContractRecords) /\ newProxies \in Seq(ProxyRecords)
      /\ Len(contracts) \in Nat /\ Len(newProxies) \in Nat /\ running
  BY DEF IInv, TypeOK, DeployedOK, RunStep
<1>. PICK t : t = contracts'
  OBVIOUS
<1>. PICK u : u = newProxies'
  OBVIOUS
<1>. DEFINE ContractsGrow ==
                /\ Len(contracts) <= Len(t)
                /\ \A x \in 1 .. Len(contracts) : t[x].library = contracts[x].library
            ProxiesGrow ==
                /\ Len(newProxies) <= Len(u)
                /\ \A x \in 1 .. Len(newProxies) : u[x].impl = newProxies[x].impl
<1>1. ASSUME NEW e, contracts' = Append(contracts, e) PROVE ContractsGrow
  BY <1>0, <1>1, ContractAppended
<1>2. ASSUME NEW e \in ProxyRecords, newProxies' = Append(newProxies, e) PROVE ProxiesGrow
  BY <1>0, <1>2, ProxyAppended
<1>3. contracts' = contracts => ContractsGrow
  BY <1>0
<1>4. newProxies' = newProxies => ProxiesGrow
  BY <1>0
<1>5. CASE Deploy(op)
  BY <1>1, <1>4, <1>5 DEF Deploy, Grows
<1>6. CASE DeployProxy(op)
  <2>1. [impl |-> memory.impl[op.name], initialized |-> TRUE] \in ProxyRecords
    <3>1. op.name \in Implementations /\ memory \in Configurations
      BY <1>0, <1>6, WhatIsLeft DEF DeployProxy, WellFormed, IInv, TypeOK, ConfigOK
    <3>. QED
      BY <3>1 DEF ProxyRecords, Configurations
  <2>. QED
    BY <1>2, <1>3, <1>6, <2>1 DEF DeployProxy, Grows
<1>7. CASE CreateSplitter(op)
  <2>1. [impl |-> NextContract, initialized |-> FALSE] \in ProxyRecords
    BY <1>0 DEF ProxyRecords, NextContract
  <2>. QED
    BY <1>1, <1>2, <1>7, <2>1 DEF CreateSplitter, Grows
<1>8. CASE InitializeSplitter(op)
  <2>1. ProxiesGrow
    <3>1. op.name \in AddedProxies /\ step > 1
          /\ Scripts(release)[script][step - 1] = Do("create", op.name)
      BY <1>0, <1>8, WhatIsLeft DEF InitializeSplitter, WellFormed
    <3>2. first[op.name] # 0
      BY <1>0, <3>1, WhatIsLeft DEF AfterStep, Do
    <3>3. first[op.name] \in 1 .. Len(newProxies)
      BY <3>1, <3>2 DEF IInv, TypeOK, DeployedOK
    <3>4. u = [newProxies EXCEPT ![first[op.name]].initialized = TRUE]
      BY <1>8 DEF InitializeSplitter
    <3>. QED
      BY <1>0, <3>3, <3>4, ProxyInitialized
  <2>. QED
    BY <1>3, <1>8, <2>1 DEF InitializeSplitter, Grows
<1>9. CASE InitImplementation(op)
  <2>1. ContractsGrow
    <3>1. contracts' = [contracts EXCEPT ![config.impl[op.name]].initialized = TRUE]
      BY <1>9 DEF InitImplementation
    <3>2. Len(t) = Len(contracts) /\ LibrariesAre(t, contracts)
      BY <1>0, <3>1, LibrariesKept
    <3>. QED
      BY <1>0, <3>2 DEF LibrariesAre
  <2>. QED
    BY <1>4, <1>9, <2>1 DEF InitImplementation, Grows
<1>10. CASE \/ SaveConfig(op) \/ SaveSplitter(op) \/ DeployChanger(op) \/ ScheduleBatch(op)
            \/ ExecuteChange(op) \/ Verify(op) \/ OnlyPrint(op) \/ Fail(op)
  <2>1. UNCHANGED <<contracts, newProxies>>
    BY <1>10 DEF SaveConfig, SaveSplitter, DeployChanger, ScheduleBatch, ExecuteChange, Verify,
       OnlyPrint, Fail, deployedVars
  <2>. QED
    BY <1>3, <1>4, <2>1 DEF Grows
<1>. QED
  BY <1>5, <1>6, <1>7, <1>8, <1>9, <1>10 DEF RunStep

LEMMA DeploymentsGrow ==
    ASSUME IInv, [Next]_vars, release = "v0.1.12"
    PROVE  Grows
<1>1. CASE RunStep
  BY <1>1, RunStepGrows
<1>2. CASE ~ RunStep
  <2>1. UNCHANGED <<contracts, newProxies>>
    BY <1>2 DEF Next, vars, Crash, EditConfig, Propose, GovernanceExecutes, OtherUpgrade,
       Restart, deployedVars
  <2>. QED
    BY <2>1, LibraryLengths DEF Grows
<1>. QED
  BY <1>1, <1>2

\* A step done, the file and the copy link what they should.
LEMMA StepLinks ==
    ASSUME IInv, IInv', LibraryInv, Grows, running, orderly, release = "v0.1.12",
           NEW op, op = Scripts(release)[script][step], NEW m, Advance(op, m),
           NEW k, k = script, NEW i, i = step, LinkedUpTo(m, k, i + 1)',
           NEW conf, conf = config',
           IF op.kind = "save" THEN conf = m ELSE conf = config
    PROVE  LinkedUpTo(config, script, 1)' /\ (running => LinkedUpTo(memory, script, step))'
<1>. PICK s : s = Scripts(release)[script]
  OBVIOUS
<1>1. /\ Links(s, k, i) /\ s[i] = op /\ i \in 1 .. Len(s) /\ Len(s) \in Nat /\ k \in Nat
  BY OrderedNow, AllLink, StepThatRuns DEF IInv, TypeOK
<1>2. LinkedUpTo(m, k, i + 1)' /\ LinkedUpTo(config, k, 1)
  BY DEF LibraryInv
<1>3. LinkedUpTo(conf, k, 1)'
  <2>1. CASE conf = m
    BY <1>1, <1>2, <2>1, LinkedScripts DEF LinkedUpTo
  <2>2. CASE conf = config
    BY <1>2, <2>2, LinksStay
  <2>. QED
    BY <2>1, <2>2
<1>4. CASE i < Len(s)
  <2>1. step' = i + 1 /\ memory' = m /\ script' = k
    BY <1>4 DEF Advance
  <2>. QED
    BY <1>2, <1>3, <2>1 DEF LinkedUpTo, LinkedTo, VendorsProxied
<1>5. CASE ~ (i < Len(s))
  <2>1. step' = 1 /\ memory' = conf /\ script' = k + 1
    BY <1>5 DEF Advance
  <2>2. i = Len(s)
    BY <1>1, <1>5
  <2>3. ASSUME NEW n \in DOMAIN LinkedBy, LinkedBy[n] < k + 1 PROVE LinkedTo(conf, n)'
    <3>1. CASE LinkedBy[n] < k
      BY <1>3, <3>1 DEF LinkedUpTo
    <3>2. CASE LinkedBy[n] = k
      <4>1. k \in {2, 3, 4, 7, 8}
        BY <3>2, LinkedScripts
      <4>2. op.kind = "save" /\ i + 1 > 1
        BY <1>1, <2>2, <4>1 DEF Links
      <4>. QED
        BY <1>2, <3>2, <4>2 DEF LinkedUpTo
    <3>. QED
      BY <1>1, <2>3, <3>1, <3>2, LinkedScripts
  <2>4. k + 1 > 2 => VendorsProxied(conf)'
    <3>1. CASE k > 2
      BY <1>3, <3>1 DEF LinkedUpTo
    <3>2. CASE k = 2
      <4>1. op.kind = "save" /\ i + 1 > 3
        BY <1>1, <2>2, <3>2 DEF Links
      <4>. QED
        BY <1>2, <3>2, <4>1 DEF LinkedUpTo
    <3>. QED
      BY <1>1, <3>1, <3>2
  <2>5. LinkedUpTo(conf, k + 1, 1)'
    BY <1>1, <2>3, <2>4 DEF LinkedUpTo
  <2>. QED
    BY <2>1, <2>5 DEF LinkedUpTo, LinkedTo, VendorsProxied
<1>. QED
  BY <1>4, <1>5

\* A step that neither deploys a contract nor a proxy.
LEMMA NothingLinked ==
    ASSUME IInv, NEW s, NEW k \in Nat, NEW i \in Nat, Links(s, k, i),
           s[i].kind \notin {"newLinked", "newProxy"} \/ s[i].name \notin DOMAIN LinkedBy,
           LinkedUpTo(memory, k, i)
    PROVE  LinkedUpTo(memory, k, i + 1)
<1>1. i = 1 => \A n \in DOMAIN LinkedBy : LinkedBy[n] # k
  BY LinkedScripts DEF Links, Do
<1>2. ~ (k = 2 /\ i = 3)
  BY LinkedScripts DEF Links, Do
<1>3. ASSUME NEW n \in DOMAIN LinkedBy, LinkedBy[n] < k \/ (LinkedBy[n] = k /\ i + 1 > 1)
      PROVE  LinkedTo(memory, n)
  BY <1>1, <1>3 DEF LinkedUpTo
<1>4. k > 2 \/ (k = 2 /\ i + 1 > 3) => VendorsProxied(memory)
  BY <1>2 DEF LinkedUpTo
<1>. QED
  BY <1>3, <1>4 DEF LinkedUpTo

LEMMA DeployLinks ==
    ASSUME IInv, IInv', LibraryInv, Grows, running, orderly, release = "v0.1.12",
           NEW op, op = Scripts(release)[script][step], Deploy(op),
           NEW m, m = WithImpl(memory, op.name, NextContract),
           NEW k, k = script, NEW i, i = step
    PROVE  LinkedUpTo(m, k, i + 1)'
<1>. PICK s : s = Scripts(release)[script]
  OBVIOUS
<1>1. /\ Links(s, k, i) /\ s[i] = op /\ k \in Nat /\ i \in Nat \ {0}
      /\ op.kind \in {"new", "newLinked"} /\ op.name \in Implementations
  BY OrderedNow, AllLink, WhatIsLeft, StepThatRuns DEF IInv, TypeOK, PlaceOK, Deploy, WellFormed
<1>2. /\ contracts \in Seq(ContractRecords) /\ memory \in Configurations
      /\ LinkedUpTo(memory, k, i) /\ UNCHANGED newProxies
  BY DEF IInv, TypeOK, DeployedOK, ConfigOK, LibraryInv, Deploy
<1>3. /\ \A n \in Implementations : n # op.name => m.impl[n] = memory.impl[n]
      /\ m.impl[op.name] = Len(contracts) + 1 /\ m.proxy = memory.proxy
  BY <1>1, <1>2 DEF WithImpl, Configurations, NextContract
<1>4. /\ Len(contracts') = Len(contracts) + 1 /\ Len(contracts) \in Nat
      /\ op.kind = "newLinked" =>
            contracts'[Len(contracts) + 1].library = memory.impl["MoCHelperLib"]
  <2>. PICK e : e = [key |-> op.name, initialized |-> FALSE,
                     library |-> IF op.kind = "newLinked" THEN memory.impl["MoCHelperLib"]
                                                          ELSE NoLibrary]
    OBVIOUS
  <2>. PICK t : t = contracts'
    OBVIOUS
  <2>1. t = Append(contracts, e)
    BY DEF Deploy
  <2>. QED
    BY <1>2, <2>1, ContractAppended
<1>5. /\ DOMAIN LinkedBy \subseteq Implementations \ {"MoCHelperLib"}
      /\ {"MoCHelperLib", "MoCVendors"} \subseteq Implementations
      /\ \A n \in DOMAIN LinkedBy : LinkedBy[n] \in Nat /\ LinkedBy[n] > 1
      /\ \A n, p \in DOMAIN LinkedBy : LinkedBy[n] = LinkedBy[p] => n = p
      /\ {"MoCSettlement", "CommissionSplitter"} \cap DOMAIN LinkedBy = {}
      /\ "MoCHelperLib" \notin {"MoCSettlement", "CommissionSplitter"}
      /\ "MoCVendors" \in DOMAIN LinkedBy /\ LinkedBy["MoCVendors"] = 2
  BY LinkedScripts DEF Implementations
<1>6. CASE k = 1
  BY <1>1, <1>5, <1>6 DEF LinkedUpTo
<1>7. ASSUME op.name # "MoCHelperLib", NEW n \in DOMAIN LinkedBy, n # op.name,
             LinkedTo(memory, n)
      PROVE  LinkedTo(m, n)'
  <2>1. m.impl[n] = memory.impl[n] /\ m.impl["MoCHelperLib"] = memory.impl["MoCHelperLib"]
    BY <1>3, <1>5, <1>7
  <2>. QED
    BY <1>4, <1>7, <2>1 DEF LinkedTo, Grows
<1>8. ASSUME op.name # "MoCHelperLib", op.name # "MoCVendors", VendorsProxied(memory)
      PROVE  VendorsProxied(m)'
  <2>1. m.impl["MoCVendors"] = memory.impl["MoCVendors"]
    BY <1>3, <1>5, <1>8
  <2>. QED
    BY <1>2, <1>3, <1>8, <2>1 DEF VendorsProxied
<1>9. CASE op.kind = "newLinked" /\ op.name \in DOMAIN LinkedBy /\ k = LinkedBy[op.name] /\ i = 1
  <2>1. LinkedTo(m, op.name)'
    <3>1. m.impl["MoCHelperLib"] = memory.impl["MoCHelperLib"]
      BY <1>3, <1>5, <1>9
    <3>2. m.impl[op.name] \in 1 .. Len(contracts')
      BY <1>3, <1>4
    <3>3. contracts'[m.impl[op.name]].library = m.impl["MoCHelperLib"]
      BY <1>3, <1>4, <1>9, <3>1
    <3>. QED
      BY <3>2, <3>3 DEF LinkedTo
  <2>2. ASSUME NEW n \in DOMAIN LinkedBy, LinkedBy[n] < k \/ LinkedBy[n] = k
        PROVE  LinkedTo(m, n)'
    <3>1. CASE n = op.name
      BY <2>1, <3>1
    <3>2. CASE n # op.name
      <4>1. LinkedBy[n] < k
        BY <1>5, <1>9, <2>2, <3>2
      <4>2. LinkedTo(memory, n)
        BY <1>2, <4>1 DEF LinkedUpTo
      <4>. QED
        BY <1>5, <1>7, <1>9, <3>2, <4>2
    <3>. QED
      BY <3>1, <3>2
  <2>3. k > 2 => VendorsProxied(m)'
    <3>. HAVE k > 2
    <3>1. VendorsProxied(memory)
      BY <1>2 DEF LinkedUpTo
    <3>2. op.name # "MoCHelperLib"
      BY <1>5, <1>9
    <3>3. LinkedBy["MoCVendors"] = 2
      BY <1>5
    <3>4. k = LinkedBy[op.name]
      BY <1>9
    <3>5. op.name # "MoCVendors"
      <4>1. op.name = "MoCVendors" => k = 2
        BY <3>3, <3>4, Zenon
      <4>2. k # 2
        OBVIOUS
      <4>. QED
        BY <4>1, <4>2, Zenon
    <3>. QED
      BY <1>8, <3>1, <3>2, <3>5
  <2>4. i = 1
    BY <1>9
  <2>. PICK j : j = i + 1
    OBVIOUS
  <2>5. j > 1 /\ ~ (j > 3)
    BY <2>4
  <2>7. LinkedUpTo(m, k, j)'
    BY <1>5, <1>9, <2>2, <2>3, <2>5 DEF LinkedUpTo
  <2>. QED
    BY <2>7
<1>10. CASE op.name \in {"MoCSettlement", "CommissionSplitter"}
  <2>1. LinkedUpTo(memory, k, i + 1)
    BY <1>1, <1>2, <1>5, <1>10, NothingLinked
  <2>2. ASSUME NEW n \in DOMAIN LinkedBy, LinkedTo(memory, n) PROVE LinkedTo(m, n)'
    BY <1>5, <1>7, <1>10, <2>2
  <2>3. VendorsProxied(memory) => VendorsProxied(m)'
    BY <1>5, <1>8, <1>10
  <2>4. LinkedUpTo(m, k, i + 1)'
    BY <2>1, <2>2, <2>3 DEF LinkedUpTo
  <2>. QED
    BY <2>4 DEF LinkedUpTo
<1>. QED
  BY <1>1, <1>6, <1>9, <1>10 DEF Links

LEMMA DeployProxyLinks ==
    ASSUME IInv, IInv', LibraryInv, Grows, running, orderly, release = "v0.1.12",
           NEW op, op = Scripts(release)[script][step], DeployProxy(op),
           NEW m, m = WithProxy(memory, op.name, Len(newProxies) + 1),
           NEW k, k = script, NEW i, i = step
    PROVE  LinkedUpTo(m, k, i + 1)'
<1>. PICK s : s = Scripts(release)[script]
  OBVIOUS
<1>1. /\ Links(s, k, i) /\ s[i] = op /\ k \in Nat /\ i \in Nat \ {0}
      /\ op.kind = "newProxy" /\ op.name \in AddedProxies /\ op.name \in Implementations
  BY OrderedNow, AllLink, WhatIsLeft, StepThatRuns
     DEF IInv, TypeOK, PlaceOK, DeployProxy, WellFormed
<1>2. /\ newProxies \in Seq(ProxyRecords) /\ memory \in Configurations
      /\ LinkedUpTo(memory, k, i) /\ UNCHANGED contracts
  BY DEF IInv, TypeOK, DeployedOK, ConfigOK, LibraryInv, DeployProxy
<1>3. /\ \A n \in AddedProxies : n # op.name => m.proxy[n] = memory.proxy[n]
      /\ m.proxy[op.name] = Len(newProxies) + 1 /\ m.impl = memory.impl
  BY <1>1, <1>2 DEF WithProxy, Configurations
<1>4. /\ Len(newProxies') = Len(newProxies) + 1 /\ Len(newProxies) \in Nat
      /\ newProxies'[Len(newProxies) + 1].impl = memory.impl[op.name]
  <2>. PICK e : e = [impl |-> memory.impl[op.name], initialized |-> TRUE]
    OBVIOUS
  <2>. PICK t : t = newProxies'
    OBVIOUS
  <2>1. t = Append(newProxies, e)
    BY DEF DeployProxy
  <2>2. e \in ProxyRecords
    BY <1>1, <1>2 DEF ProxyRecords, Configurations
  <2>. QED
    BY <1>2, <2>1, <2>2, ProxyAppended
<1>5. ASSUME NEW n, LinkedTo(memory, n) PROVE LinkedTo(m, n)'
  BY <1>2, <1>3, <1>5 DEF LinkedTo
<1>6. CASE op.name = "MoCVendors" /\ k = 2 /\ i = 3
  <2>1. VendorsProxied(m)'
    BY <1>3, <1>4, <1>6 DEF VendorsProxied
  <2>2. ASSUME NEW n \in DOMAIN LinkedBy, LinkedBy[n] < k \/ (LinkedBy[n] = k /\ i + 1 > 1)
        PROVE  LinkedTo(m, n)'
    BY <1>2, <1>5, <1>6, <2>2 DEF LinkedUpTo
  <2>. QED
    BY <2>1, <2>2 DEF LinkedUpTo
<1>7. CASE op.name = "CommissionSplitter"
  <2>1. LinkedUpTo(memory, k, i + 1)
    BY <1>1, <1>2, <1>7, LinkedScripts, NothingLinked
  <2>2. VendorsProxied(memory) => VendorsProxied(m)'
    <3>. SUFFICES ASSUME VendorsProxied(memory) PROVE VendorsProxied(m)'
      OBVIOUS
    <3>1. m.proxy["MoCVendors"] = memory.proxy["MoCVendors"]
      BY <1>3, <1>7 DEF AddedProxies
    <3>. QED
      BY <1>3, <1>4, <3>1 DEF VendorsProxied, Grows
  <2>. QED
    BY <1>5, <2>1, <2>2 DEF LinkedUpTo
<1>. QED
  BY <1>1, <1>6, <1>7 DEF Links

\* A step that changes neither addresses nor proxies of the copy.
LEMMA OtherStepLinks ==
    ASSUME IInv, IInv', LibraryInv, Grows, running, orderly, release = "v0.1.12",
           NEW op, op = Scripts(release)[script][step],
           op.kind \notin {"newLinked", "newProxy"},
           NEW m, m.impl = memory.impl, m.proxy = memory.proxy,
           NEW k, k = script, NEW i, i = step
    PROVE  LinkedUpTo(m, k, i + 1)'
<1>. PICK s : s = Scripts(release)[script]
  OBVIOUS
<1>1. Links(s, k, i) /\ s[i] = op /\ k \in Nat /\ i \in Nat
  BY OrderedNow, AllLink DEF IInv, TypeOK, PlaceOK
<1>2. LinkedUpTo(memory, k, i)
  BY DEF LibraryInv
<1>3. LinkedUpTo(memory, k, i + 1)
  BY <1>1, <1>2, NothingLinked
<1>4. LinkedUpTo(m, k, i + 1)
  BY <1>3 DEF LinkedUpTo, LinkedTo, VendorsProxied
<1>. QED
  BY <1>4, LinksStay

LEMMA RunStepLinks ==
    ASSUME IInv, IInv', LibraryInv, Grows, RunStep, orderly, release = "v0.1.12"
    PROVE  LinkedUpTo(config, script, 1)' /\ (running => LinkedUpTo(memory, script, step))'
<1>. PICK op : op = Scripts(release)[script][step]
  OBVIOUS
<1>. PICK k : k = script
  OBVIOUS
<1>. PICK i : i = step
  OBVIOUS
<1>. PICK conf : conf = config'
  OBVIOUS
<1>1. /\ running /\ memory \in Configurations
      /\ op.kind \notin {"newChanger", "saveProxy"}
  BY OrderedNow, AllLink DEF RunStep, Links, IInv, TypeOK, ConfigOK
<1>2. CASE Deploy(op)
  <2>. PICK m : m = WithImpl(memory, op.name, NextContract)
    OBVIOUS
  <2>1. Advance(op, m) /\ conf = config /\ op.kind # "save"
    BY <1>1, <1>2, DeployEdits DEF Deploy
  <2>2. LinkedUpTo(m, k, i + 1)'
    BY <1>1, <1>2, DeployLinks
  <2>. QED
    BY <1>1, <2>1, <2>2, StepLinks
<1>3. CASE DeployProxy(op)
  <2>. PICK m : m = WithProxy(memory, op.name, Len(newProxies) + 1)
    OBVIOUS
  <2>1. Advance(op, m) /\ conf = config /\ op.kind # "save"
    BY <1>1, <1>3, DeployProxyEdits DEF DeployProxy
  <2>2. LinkedUpTo(m, k, i + 1)'
    BY <1>1, <1>3, DeployProxyLinks
  <2>. QED
    BY <1>1, <2>1, <2>2, StepLinks
<1>4. CASE DeployChanger(op)
  <2>. PICK m : m = WithChanger(memory, Len(changers) + 1)
    OBVIOUS
  <2>1. Advance(op, m) /\ conf = config /\ op.kind \in {"newChanger", "newBatch"}
    BY <1>1, <1>4, DeployChangerEdits DEF DeployChanger
  <2>2. m.impl = memory.impl /\ m.proxy = memory.proxy
    BY DEF WithChanger
  <2>3. LinkedUpTo(m, k, i + 1)'
    BY <1>1, <2>1, <2>2, OtherStepLinks
  <2>. QED
    BY <1>1, <2>1, <2>3, StepLinks
<1>5. CASE SaveConfig(op)
  <2>. PICK m : m = memory
    OBVIOUS
  <2>1. Advance(op, m) /\ conf = m /\ op.kind = "save"
    BY <1>5 DEF SaveConfig
  <2>2. LinkedUpTo(m, k, i + 1)'
    BY <1>1, <2>1, OtherStepLinks
  <2>. QED
    BY <1>1, <2>1, <2>2, StepLinks
<1>6. CASE CreateSplitter(op) \/ InitializeSplitter(op) \/ ScheduleBatch(op) \/ ExecuteChange(op)
           \/ Verify(op) \/ InitImplementation(op) \/ OnlyPrint(op)
  <2>. PICK m : m = memory
    OBVIOUS
  <2>1. /\ Advance(op, m) /\ conf = config
        /\ op.kind \notin {"newLinked", "newProxy", "save"}
    BY <1>6 DEF CreateSplitter, InitializeSplitter, ScheduleBatch, ExecuteChange, Verify,
       InitImplementation, OnlyPrint
  <2>2. LinkedUpTo(m, k, i + 1)'
    BY <1>1, <2>1, OtherStepLinks
  <2>. QED
    BY <1>1, <2>1, <2>2, StepLinks
<1>7. CASE Fail(op)
  <2>1. running' = FALSE /\ UNCHANGED <<script, config, contracts, newProxies>>
    BY <1>7 DEF Fail, deployedVars
  <2>2. ~ running'
    BY <2>1
  <2>. QED
    BY <2>1, <2>2 DEF LibraryInv, LinkedUpTo, LinkedTo, VendorsProxied
<1>8. \/ Deploy(op) \/ SaveConfig(op) \/ DeployProxy(op) \/ CreateSplitter(op)
      \/ InitializeSplitter(op) \/ DeployChanger(op)
      \/ ScheduleBatch(op) \/ ExecuteChange(op) \/ Verify(op) \/ InitImplementation(op)
      \/ OnlyPrint(op) \/ Fail(op)
  BY <1>1 DEF RunStep, SaveSplitter
<1>. QED
  BY <1>2, <1>3, <1>4, <1>5, <1>6, <1>7, <1>8

\* What a batch is scheduled from the copy at the ninth script installs.
LEMMA ScheduledLinked ==
    ASSUME IInv, release = "v0.1.12", NEW i, LinkedUpTo(memory, 9, i),
           NEW e, e = Recorded(memory)
    PROVE  OneLibraryIn(e)
<1>. PICK lib : lib = memory.impl["MoCHelperLib"]
  OBVIOUS
<1>1. /\ \A n \in DOMAIN LinkedBy : LinkedTo(memory, n)
      /\ VendorsProxied(memory)
  BY LinkedScripts DEF LinkedUpTo
<1>2. \A n \in DOMAIN LinkedBy :
         memory.impl[n] \in 1 .. Len(contracts) /\ contracts[memory.impl[n]].library = lib
  BY <1>1 DEF LinkedTo
<1>3. /\ e.vendors \in 1 .. Len(newProxies)
      /\ newProxies[e.vendors].impl = memory.impl["MoCVendors"]
  BY <1>1 DEF VendorsProxied, Recorded
<1>4. \A p \in DOMAIN e.upgrades \ {"MoCSettlement"} :
         p \in DOMAIN LinkedBy /\ e.upgrades[p] = memory.impl[p]
  BY LinkedScripts DEF Recorded, Upgrades
<1>5. ASSUME NEW x \in Installs(e)
      PROVE  x \in 1 .. Len(contracts) /\ contracts[x].library = lib
  <2>1. \E n \in DOMAIN LinkedBy : x = memory.impl[n]
    BY <1>3, <1>4, LinkedScripts DEF Installs
  <2>. QED
    BY <1>2, <2>1
<1>. QED
  BY <1>3, <1>5 DEF OneLibraryIn

LEMMA ChangersLinked ==
    ASSUME IInv, IInv', LibraryInv, Grows, [Next]_vars, orderly, release = "v0.1.12",
           NEW j \in 1 .. Len(changers'), NEW d, d = changers'[j], d.scheduled
    PROVE  OneLibraryIn(d)'
<1>0. changers \in Seq(ChangerRecords(release)) /\ Len(changers) \in Nat
  BY DEF IInv, TypeOK, DeployedOK
<1>1. ASSUME j \in 1 .. Len(changers), changers[j].scheduled,
             d.upgrades = changers[j].upgrades, d.vendors = changers[j].vendors
      PROVE  OneLibraryIn(d)'
  <2>. PICK c : c = changers[j]
    OBVIOUS
  <2>1. OneLibraryIn(c)
    BY <1>1 DEF LibraryInv
  <2>. QED
    BY <1>1, <2>1, InstallsStay
<1>2. CASE UNCHANGED changers
  BY <1>1, <1>2
<1>3. ASSUME NEW id \in 1 .. Len(changers), Execute(id) PROVE OneLibraryIn(d)'
  <2>1. /\ Len(changers') = Len(changers)
        /\ \A i \in 1 .. Len(changers) :
              /\ changers'[i].upgrades = changers[i].upgrades
              /\ changers'[i].vendors = changers[i].vendors
              /\ changers'[i].scheduled => changers[i].scheduled
    BY <1>3, ExecuteEffects DEF IInv
  <2>. QED
    BY <1>1, <2>1
<1>4. CASE RunStep
  <2>. PICK op : op = Scripts(release)[script][step]
    OBVIOUS
  <2>1. /\ running /\ op.kind # "newChanger" /\ (op.kind = "schedule" => script = 9)
    BY <1>4, OrderedNow, AllLink DEF RunStep, Links
  <2>2. CASE DeployChanger(op)
    <3>. PICK e : e = [Recorded(memory) EXCEPT !.scheduled = FALSE]
      OBVIOUS
    <3>1. changers' = Append(changers, e)
      BY <2>1, <2>2 DEF DeployChanger
    <3>2. e \in ChangerRecords(release) /\ ~ e.scheduled
      BY RecordedWellTyped DEF IInv, TypeOK, Recorded
    <3>3. /\ Len(changers') = Len(changers) + 1 /\ changers'[Len(changers) + 1] = e
          /\ \A x \in 1 .. Len(changers) : changers'[x] = changers[x]
      <4>. PICK t : t = changers'
        OBVIOUS
      <4>. QED
        BY <1>0, <3>1, <3>2, ChangersGrow
    <3>4. j \in 1 .. Len(changers) /\ changers'[j] = changers[j]
      <4>1. j # Len(changers) + 1
        BY <3>2, <3>3
      <4>2. j \in 1 .. Len(changers) + 1
        BY <3>3
      <4>3. j \in 1 .. Len(changers)
        BY <1>0, <4>1, <4>2
      <4>. QED
        BY <3>3, <4>3
    <3>. QED
      BY <1>1, <3>4
  <2>3. CASE ScheduleBatch(op)
    <3>. PICK e : e = Recorded(memory)
      OBVIOUS
    <3>1. /\ changers' = [changers EXCEPT ![memory.changer] = e] /\ op.kind = "schedule"
          /\ UNCHANGED <<contracts, newProxies>>
      BY <2>3 DEF ScheduleBatch
    <3>2. memory.changer \in 1 .. Len(changers)
      BY <2>1, <3>1, SchedulesLast
    <3>3. LinkedUpTo(memory, 9, step)
      BY <2>1, <3>1 DEF LibraryInv
    <3>4. OneLibraryIn(e)
      BY <3>3, ScheduledLinked
    <3>5. j \in 1 .. Len(changers) /\ d = IF j = memory.changer THEN e ELSE changers[j]
      BY <1>0, <3>1, <3>2
    <3>6. CASE d = e
      BY <3>4, <3>6, InstallsStay
    <3>7. CASE d = changers[j]
      BY <1>1, <3>5, <3>7
    <3>. QED
      BY <3>5, <3>6, <3>7
  <2>4. CASE ExecuteChange(op)
    <3>1. CASE executes
      BY <1>3, <2>1, <2>4, <3>1, ExecutesFitting
    <3>2. CASE ~ executes
      BY <1>2, <2>4, <3>2 DEF ExecuteChange
    <3>. QED
      BY <3>1, <3>2
  <2>5. CASE ~ (DeployChanger(op) \/ ScheduleBatch(op) \/ ExecuteChange(op))
    BY <1>2, <1>4, <2>5 DEF RunStep, Deploy, SaveConfig, DeployProxy, CreateSplitter,
       InitializeSplitter, SaveSplitter, Verify, InitImplementation, OnlyPrint, Fail,
       deployedVars
  <2>. QED
    BY <2>2, <2>3, <2>4, <2>5
<1>5. CASE GovernanceExecutes
  <2>1. Execute(proposed) /\ proposed # 0
    BY <1>5 DEF GovernanceExecutes
  <2>2. proposed \in 1 .. Len(changers)
    BY <2>1 DEF IInv, TypeOK, GovernanceOK, DeployedOK
  <2>. QED
    BY <1>3, <2>1, <2>2
<1>6. CASE ~ RunStep /\ ~ GovernanceExecutes
  <2>1. UNCHANGED changers
    BY <1>6 DEF Next, vars, Crash, EditConfig, Propose, OtherUpgrade, Restart, deployedVars
  <2>. QED
    BY <1>2, <2>1
<1>. QED
  BY <1>4, <1>5, <1>6

LEMMA NextLibraryInv ==
    ASSUME IInv, LibraryInv, [Next]_vars
    PROVE  LibraryInv'
<1>. SUFFICES ASSUME release' = "v0.1.12", orderly'
              PROVE  /\ LinkedUpTo(config, script, 1)'
                     /\ (running => LinkedUpTo(memory, script, step))'
                     /\ \A c \in {changers'[i] : i \in 1 .. Len(changers')} :
                           c.scheduled => OneLibraryIn(c)'
  BY DEF LibraryInv
<1>1. IInv' /\ release = "v0.1.12" /\ orderly
  <2>1. orderly
    <3>1. CASE RunStep
      <4>1. \A op, m : Advance(op, m) \/ Fail(op) => orderly' = orderly
        BY DEF Advance, Fail, operatorVars
      <4>. QED
        BY <3>1, <4>1 DEF RunStep, Deploy, SaveConfig, DeployProxy, CreateSplitter,
           InitializeSplitter, SaveSplitter, DeployChanger, ScheduleBatch, ExecuteChange, Verify,
           InitImplementation, OnlyPrint
    <3>. QED
      BY <3>1 DEF Next, vars, Crash, EditConfig, Propose, GovernanceExecutes, OtherUpgrade,
         Restart, operatorVars
  <2>. QED
    BY <2>1, NextIInv, ChangersAndChain
<1>2. Grows
  BY <1>1, DeploymentsGrow
<1>3. ASSUME NEW c \in {changers'[i] : i \in 1 .. Len(changers')}, c.scheduled
      PROVE  OneLibraryIn(c)'
  <2>. PICK i \in 1 .. Len(changers') : c = changers'[i]
    OBVIOUS
  <2>. QED
    BY <1>1, <1>2, <1>3, ChangersLinked
<1>4. LinkedUpTo(config, script, 1) /\ (running => LinkedUpTo(memory, script, step))
  BY <1>1 DEF LibraryInv
<1>5. LinkedUpTo(config, script, 1)' /\ (running => LinkedUpTo(memory, script, step))'
  <2>1. CASE RunStep
    BY <1>1, <1>2, <2>1, RunStepLinks
  <2>2. CASE Crash
    <3>1. running' = FALSE /\ UNCHANGED <<script, config, contracts, newProxies>>
      BY <2>2 DEF Crash, deployedVars
    <3>2. ~ running'
      BY <3>1
    <3>. QED
      BY <1>4, <3>1, <3>2 DEF LinkedUpTo, LinkedTo, VendorsProxied
  <2>3. ASSUME NEW i \in 1 .. Len(Scripts(release)), Restart(i)
        PROVE  LinkedUpTo(config, script, 1)' /\ (running => LinkedUpTo(memory, script, step))'
    <3>1. /\ script' = i /\ step' = 1 /\ memory' = config /\ i \in {1, script}
          /\ UNCHANGED <<config, contracts, newProxies>>
      BY <2>3 DEF Restart, deployedVars
    <3>. PICK k : k = i
      OBVIOUS
    <3>2. LinkedUpTo(config, k, 1)
      BY <1>4, <3>1, LinkedScripts DEF LinkedUpTo
    <3>. QED
      BY <3>1, <3>2 DEF LinkedUpTo, LinkedTo, VendorsProxied
  <2>4. CASE Propose \/ GovernanceExecutes \/ UNCHANGED vars
    <3>1. UNCHANGED <<script, step, running, memory, config, contracts, newProxies>>
      BY <2>4 DEF Propose, GovernanceExecutes, vars, scriptVars, deployedVars
    <3>. QED
      BY <1>4, <3>1 DEF LinkedUpTo, LinkedTo, VendorsProxied
  <2>5. ~ EditConfig /\ ~ OtherUpgrade
    BY <1>1 DEF EditConfig, OtherUpgrade
  <2>. QED
    BY <2>1, <2>2, <2>3, <2>4, <2>5 DEF Next
<1>. QED
  BY <1>3, <1>5

LEMMA InitLibraryInv == ASSUME Init PROVE LibraryInv
<1>1. script = 1 /\ step = 1 /\ changers = <<>>
  BY DEF Init
<1>. QED
  BY <1>1, LinkedScripts DEF LibraryInv, LinkedUpTo

\* In order, for any number of restarts, what one batch of v0.1.12 installs was linked to
\* one library.
THEOREM BatchesLinked == Spec => []OneLibrary
<1>1. Spec => []LibraryInv
  BY InitLibraryInv, NextLibraryInv, Invariant, PTL DEF Spec
<1>2. ASSUME LibraryInv, IInv, release = "v0.1.12", orderly,
             NEW i \in DOMAIN changers, changers[i].scheduled
      PROVE  Cardinality({contracts[x].library : x \in Installs(changers[i])}) = 1
  <2>1. changers \in Seq(ChangerRecords(release))
    BY <1>2 DEF IInv, TypeOK, DeployedOK
  <2>2. OneLibraryIn(changers[i])
    BY <1>2, <2>1 DEF LibraryInv
  <2>3. PICK lib : \A x \in Installs(changers[i]) : contracts[x].library = lib
    BY <2>2 DEF OneLibraryIn
  <2>4. newProxies[changers[i].vendors].impl \in Installs(changers[i])
    BY DEF Installs
  <2>5. {contracts[x].library : x \in Installs(changers[i])} = {lib}
    BY <2>3, <2>4
  <2>. QED
    BY <2>5, FS_Singleton
<1>3. LibraryInv /\ IInv => OneLibrary
  BY <1>2 DEF OneLibrary, Installs
<1>. QED
  BY <1>1, <1>3, Invariant, PTL

=============================================================================
