--------------------------- MODULE RiskProxManager ---------------------------
(***************************************************************************)
(* The leveraged positions (RiskProx) of bucket X2: contracts/             *)
(* MoCRiskProxManager.sol, the tracker of active addresses kept in         *)
(* contracts/MoCBucketContainer.sol, and the deleveraging of the           *)
(* settlement, which closes the positions one by one at a frozen price.    *)
(*                                                                         *)
(* The addresses with a position are the first activeBalancesLength slots  *)
(* of an array that never shrinks.  Nothing is erased: a position that is  *)
(* closed gives its slot to the last one, and liquidating the bucket only  *)
(* sets the length to zero, so values and indices of past positions        *)
(* survive and have to be told from live ones at every read.               *)
(***************************************************************************)
EXTENDS Integers, FiniteSets

CONSTANTS
    Users,            \* the addresses that may hold a position
    RiskProxAmounts,  \* the amounts an operation may be asked for
    Costs,            \* the reserve tokens that may come with them
    LockedReserves,   \* what the stable tokens of the bucket may lock at its price
    MocPrecision,
    MaxRiskPro, MaxReserve    \* bounds of the model on nRiskPro and nReserve

ASSUME RiskProxAssumption ==
    /\ IsFiniteSet(Users)
    /\ RiskProxAmounts \subseteq Nat /\ Costs \subseteq Nat /\ LockedReserves \subseteq Nat
    /\ MocPrecision \in Nat \ {0}

VARIABLES
    riskProxBalances,     \* user -> value and index, the index from 1 (0: none)
    activeBalances,       \* slot (from 0) -> address; only grows
    activeBalancesLength,
    nRiskPro, nReserve,   \* what the bucket believes it has
    settlement,           \* where the settlement is
    riskProxPrice         \* frozen when it began

trackerVars == <<riskProxBalances, activeBalances, activeBalancesLength>>
vars == <<trackerVars, nRiskPro, nReserve, settlement, riskProxPrice>>

-----------------------------------------------------------------------------
HasValidBalance(user, index) ==
    /\ index # 0
    /\ index <= activeBalancesLength
    /\ activeBalances[index - 1] = user

RiskProxBalanceOf(user) ==
    IF HasValidBalance(user, riskProxBalances[user].index)
    THEN riskProxBalances[user].value ELSE 0

\* A user who is not in the tracker is appended, over whatever a longer list
\* left in the slot.
Append(user, value) ==
    /\ activeBalances' = [slot \in DOMAIN activeBalances \union {activeBalancesLength} |->
                             IF slot = activeBalancesLength THEN user ELSE activeBalances[slot]]
    /\ activeBalancesLength' = activeBalancesLength + 1
    /\ riskProxBalances' = [riskProxBalances EXCEPT
                               ![user] = [value |-> value, index |-> activeBalancesLength + 1]]

\* Mutant: the moved address keeps its old index.
DeleteWithoutReindex(user) ==
    LET index == riskProxBalances[user].index
        keyToMove == activeBalances[activeBalancesLength - 1]
    IN  /\ activeBalances' = [activeBalances EXCEPT ![index - 1] = keyToMove]
        /\ activeBalancesLength' = activeBalancesLength - 1
        /\ riskProxBalances' = [riskProxBalances EXCEPT ![user] = [value |-> 0, index |-> 0]]

\* A user who leaves the tracker gives his slot to the last one, perhaps himself.
Delete(user) ==
    LET index == riskProxBalances[user].index
        keyToMove == activeBalances[activeBalancesLength - 1]
    IN  /\ activeBalances' = [activeBalances EXCEPT ![index - 1] = keyToMove]
        /\ activeBalancesLength' = activeBalancesLength - 1
        /\ riskProxBalances' = [u \in Users |->
               IF u = user THEN [value |-> 0, index |-> 0]
               ELSE IF u = keyToMove THEN [riskProxBalances[u] EXCEPT !.index = index]
               ELSE riskProxBalances[u]]

\* Mutant: an address whose position is closed stays in the tracker.
SetKeepingEmptyPositions(user, value) ==
    LET tracked == HasValidBalance(user, riskProxBalances[user].index)
    IN  \/ ~tracked /\ value > 0 /\ Append(user, value)
        \/ /\ tracked \/ value = 0
           /\ riskProxBalances' = [riskProxBalances EXCEPT ![user].value = value]
           /\ UNCHANGED <<activeBalances, activeBalancesLength>>

SetRiskProxBalanceOf(user, value) ==
    LET tracked == HasValidBalance(user, riskProxBalances[user].index)
    IN  \/ ~tracked /\ value > 0 /\ Append(user, value)
        \/ tracked /\ value = 0 /\ Delete(user)
        \/ /\ tracked <=> value > 0
           /\ riskProxBalances' = [riskProxBalances EXCEPT ![user].value = value]
           /\ UNCHANGED <<activeBalances, activeBalancesLength>>

RiskProResTokensValue(amount, price) == (amount * price) \div MocPrecision

-----------------------------------------------------------------------------
Init ==
    /\ riskProxBalances = [u \in Users |-> [value |-> 0, index |-> 0]]
    /\ activeBalances = [slot \in {} |-> 0]
    /\ activeBalancesLength = 0
    /\ nRiskPro = 0 /\ nReserve = 0
    /\ settlement = "Ready"
    /\ riskProxPrice = 0

\* Positions were opened by mintRiskProx, which now reverts; those opened before
\* are still there.
AssignRiskProx(user, amount, totalCost) ==
    /\ settlement = "Ready"
    /\ nRiskPro + amount <= MaxRiskPro /\ nReserve + totalCost <= MaxReserve
    /\ SetRiskProxBalanceOf(user, RiskProxBalanceOf(user) + amount)
    /\ nRiskPro' = nRiskPro + amount
    /\ nReserve' = nReserve + totalCost
    /\ UNCHANGED <<settlement, riskProxPrice>>

\* Mutant: the reserve tokens of the bucket are not checked.
CanRemoveUnbacked(user, amount, totalCost) ==
    amount <= RiskProxBalanceOf(user) /\ amount <= nRiskPro

\* The three subtractions revert when there is not enough.
CanRemove(user, amount, totalCost) ==
    /\ amount <= RiskProxBalanceOf(user)
    /\ amount <= nRiskPro
    /\ totalCost <= nReserve

Removed(user, amount, totalCost) ==
    /\ CanRemove(user, amount, totalCost)
    /\ SetRiskProxBalanceOf(user, RiskProxBalanceOf(user) - amount)
    /\ nRiskPro' = nRiskPro - amount
    /\ nReserve' = nReserve - totalCost

\* Likewise redeemRiskProx.
RemoveRiskProx(user, amount, totalCost) ==
    /\ settlement = "Ready"
    /\ Removed(user, amount, totalCost)
    /\ UNCHANGED <<settlement, riskProxPrice>>

\* Mutant: the total survives the positions.
LiquidateBucketKeepingTotal ==
    /\ settlement = "Ready"
    /\ activeBalancesLength' = 0
    /\ nReserve' = 0
    /\ UNCHANGED <<riskProxBalances, activeBalances, nRiskPro, settlement, riskProxPrice>>

\* MoC.evalBucketLiquidation: every position of X2 is lost, and what was in the
\* bucket goes to C0.
LiquidateBucket ==
    /\ settlement = "Ready"
    /\ activeBalancesLength' = 0
    /\ nRiskPro' = 0
    /\ nReserve' = 0
    /\ UNCHANGED <<riskProxBalances, activeBalances, settlement, riskProxPrice>>

\* Mutant: the division rounds up.
RiskProTecPriceRoundedUp(lb) ==
    IF nReserve < lb THEN 0
    ELSE IF nRiskPro = 0 THEN MocPrecision
    ELSE ((nReserve - lb) * MocPrecision + nRiskPro - 1) \div nRiskPro

\* bucketRiskProTecPrice of X2, lb being what its stable tokens lock.
RiskProTecPrice(lb) ==
    IF nReserve < lb THEN 0
    ELSE IF nRiskPro = 0 THEN MocPrecision
    ELSE ((nReserve - lb) * MocPrecision) \div nRiskPro

InitializeSettlement(lb) ==
    /\ settlement = "Ready"
    /\ settlement' = "Deleveraging"
    /\ riskProxPrice' = RiskProTecPrice(lb)
    /\ UNCHANGED <<trackerVars, nRiskPro, nReserve>>

\* The first address is closed whole; whether the reserve tokens reach it or not.
DeleveragingStep ==
    /\ settlement = "Deleveraging" /\ activeBalancesLength > 0
    /\ LET user == activeBalances[0]
           amount == RiskProxBalanceOf(user)
       IN  Removed(user, amount, RiskProResTokensValue(amount, riskProxPrice))
    /\ UNCHANGED <<settlement, riskProxPrice>>

\* The rest of the bucket goes to C0.
FinishDeleveraging ==
    /\ settlement = "Deleveraging" /\ activeBalancesLength = 0
    /\ settlement' = "Redeeming"
    /\ nReserve' = 0
    /\ UNCHANGED <<trackerVars, nRiskPro, riskProxPrice>>

\* The settlement ends, or governance restarts it at any point.
SettlementReady ==
    /\ settlement # "Ready"
    /\ settlement' = "Ready"
    /\ UNCHANGED <<trackerVars, nRiskPro, nReserve, riskProxPrice>>

Position ==
    \E user \in Users, amount \in RiskProxAmounts, totalCost \in Costs :
        AssignRiskProx(user, amount, totalCost) \/ RemoveRiskProx(user, amount, totalCost)

Settle ==
    \/ \E lb \in LockedReserves : InitializeSettlement(lb)
    \/ DeleveragingStep
    \/ FinishDeleveraging
    \/ SettlementReady

Next == Position \/ LiquidateBucket \/ Settle

Spec == Init /\ [][Next]_vars

-----------------------------------------------------------------------------
Entry == [value : Nat, index : Nat]

\* Every variable keeps its type, and the slots in use exist.
TypeOK ==
    /\ activeBalancesLength \in Nat
    /\ DOMAIN activeBalances \subseteq Nat
    /\ 0 .. activeBalancesLength - 1 \subseteq DOMAIN activeBalances
    /\ activeBalances \in [DOMAIN activeBalances -> Users]
    /\ riskProxBalances \in [Users -> Entry]
    /\ nRiskPro \in Nat /\ nReserve \in Nat
    /\ settlement \in {"Ready", "Deleveraging", "Redeeming"}
    /\ riskProxPrice \in Nat

\* Slots and indices agree on the live positions, whatever removals, liquidations
\* and new positions over stale slots came before: each address in use points back
\* to its slot, so none is listed twice, and has a position.
TrackerConsistent ==
    \A slot \in 0 .. activeBalancesLength - 1 :
        LET balance == riskProxBalances[activeBalances[slot]]
        IN  balance.index = slot + 1 /\ balance.value > 0

\* With the price frozen when the settlement began, and rounded, no step of its
\* deleveraging asks the bucket for more than it has: it would revert, and the
\* settlement could not be run any more.
DeleveragingNeverReverts ==
    settlement = "Deleveraging" /\ activeBalancesLength > 0 =>
        LET user == activeBalances[0]
            amount == RiskProxBalanceOf(user)
        IN  CanRemove(user, amount, RiskProResTokensValue(amount, riskProxPrice))

\* A step of the deleveraging closes exactly one position, which is what the
\* settlement counts on when it freezes its number of steps.
DeleveragingClosesOne ==
    [][ settlement = "Deleveraging" /\ settlement' = "Deleveraging" =>
          /\ activeBalancesLength' = activeBalancesLength - 1
          /\ \E user \in Users :
                /\ RiskProxBalanceOf(user) > 0
                /\ RiskProxBalanceOf(user)' = 0
                /\ \A other \in Users \ {user} :
                      RiskProxBalanceOf(other)' = RiskProxBalanceOf(other) ]_vars

\* Seen through riskProxBalanceOf, the bucket is a plain ledger.
Ledger == INSTANCE RiskProxLedger WITH
    holding <- [u \in Users |-> RiskProxBalanceOf(u)],
    total <- nRiskPro

ImplementsLedger == Ledger!Spec

=============================================================================
