------------------------ MODULE MoCSettlement_proofs ------------------------
(***************************************************************************)
(* Proofs about MoCSettlement for every number of users, queue length,     *)
(* balance and step count: its tasks and its queue in any circumstances,   *)
(* then what it keeps when nothing disturbs a running settlement.          *)
(***************************************************************************)
EXTENDS MoCSettlement, Sums_proofs

(* ---------------------------------------------------------------------- *)
(* The step engine.                                                       *)

\* A task as it may be found between two transactions: never past its step
\* count, and left Running only when steps remain.
TaskOK(t) ==
    /\ t \in Task
    /\ t.state = "Running" => t.currentStep < t.stepCount
    /\ t.state = "Finished" => t.currentStep = t.stepCount
    /\ t.state = "Ready" => t.currentStep = 0

LEMMA ExecuteTaskOK ==
    ASSUME NEW t, TaskOK(t), NEW steps \in Nat \ {0}, NEW count \in Nat
    PROVE  LET e == ExecuteTask(t, steps, count) IN
           /\ TaskOK(e)
           /\ Consumed(t, e) \in 0 .. steps
           /\ e.state # "Ready"
           /\ e.state # "Finished" => Consumed(t, e) = steps
           /\ t.state = "Ready" => e.stepCount = count
           /\ t.state # "Ready" => e.stepCount = t.stepCount
           /\ e.currentStep >= t.currentStep
           /\ e.currentStep <= e.stepCount
           /\ t.state = "Finished" => e = t
<1> DEFINE e == ExecuteTask(t, steps, count)
           s == StartTask(t, count)
<1>1. CASE t.state = "Finished"
  <2>1. e = t
    BY <1>1 DEF ExecuteTask
  <2>. QED
    BY <1>1, <2>1 DEF TaskOK, Task, Consumed
<1>2. CASE t.state # "Finished"
  <2>1. /\ s.state = "Running"
        /\ s.currentStep = t.currentStep
        /\ s.stepCount = IF t.state = "Ready" THEN count ELSE t.stepCount
    BY <1>2 DEF TaskOK, Task, ExecutionState, StartTask
  <2>2. /\ s.currentStep \in Nat /\ s.stepCount \in Nat
        /\ s.currentStep <= s.stepCount
    BY <1>2, <2>1 DEF TaskOK, Task, ExecutionState
  <2>3. e = RunSteps(s, steps)
    BY <1>2 DEF ExecuteTask
  <2>. HIDE DEF s, e
  <2>4. /\ EndStep(s, steps) \in s.currentStep .. s.stepCount
        /\ EndStep(s, steps) - s.currentStep \in 0 .. steps
        /\ EndStep(s, steps) # s.stepCount => EndStep(s, steps) - s.currentStep = steps
    BY <2>2 DEF EndStep
  <2>5. /\ e \in Task
        /\ e.state = IF EndStep(s, steps) = s.stepCount THEN "Finished" ELSE "Running"
        /\ e.currentStep = EndStep(s, steps)
        /\ e.stepCount = s.stepCount
    BY <2>2, <2>3, <2>4 DEF RunSteps, Task, ExecutionState
  <2>6. TaskOK(e)
    BY <2>2, <2>4, <2>5 DEF TaskOK
  <2>7. Consumed(t, e) = EndStep(s, steps) - s.currentStep
    BY <2>1, <2>5 DEF Consumed
  <2>. QED
    BY <1>2, <2>1, <2>2, <2>4, <2>5, <2>6, <2>7 DEF e
<1>. QED
  BY <1>1, <1>2

LEMMA ResetTaskOK ==
    ASSUME NEW t, TaskOK(t)
    PROVE  TaskOK(ResetTask(t)) /\ ResetTask(t).state = "Ready"
  BY DEF TaskOK, Task, ExecutionState, ResetTask

LEMMA NewTaskOK == TaskOK(NewTask) /\ NewTask.state = "Ready"
  BY DEF TaskOK, Task, ExecutionState, NewTask

(* ---------------------------------------------------------------------- *)
(* The two tasks of a settlement, whatever the environment does.          *)

\* The inductive invariant: TasksInOrder and StepsStayWithinBounds only hold
\* because a task is never left past its step count.
TasksInv ==
    /\ TypeOK
    /\ TaskOK(deleveraging) /\ TaskOK(redemption)
    /\ TasksInOrder
    /\ StepsStayWithinBounds

LEMMA DeleveredOK ==
    ASSUME TasksInv, NEW steps \in Nat
    PROVE  LET d == Delevered(steps) IN
           /\ TaskOK(d)
           /\ Consumed(deleveraging, d) \in 0 .. positions
           /\ LeftSteps(steps) \in Nat
           /\ LeftSteps(steps) > 0 => d.state = "Finished"
           /\ d.state = "Ready" => deleveraging.state = "Ready"
           /\ deleveraging.state = "Finished" => d.state = "Finished"
           /\ d.state = "Finished" => positions - Consumed(deleveraging, d) = 0
           /\ d.state = "Running" =>
                positions - Consumed(deleveraging, d) = d.stepCount - d.currentStep
<1> DEFINE d == Delevered(steps)
<1>1. /\ TaskOK(deleveraging) /\ positions \in Nat /\ deleveraging \in Task
      /\ deleveraging.state = "Finished" => positions = 0
      /\ deleveraging.state = "Running" =>
           positions = deleveraging.stepCount - deleveraging.currentStep
  BY SettlementConstants DEF TasksInv, TypeOK, TasksInOrder, StepsStayWithinBounds
<1>2. CASE steps = 0
  <2>1. d = deleveraging
    BY <1>2 DEF Delevered
  <2>2. Consumed(deleveraging, d) = 0 /\ LeftSteps(steps) = 0
    BY <1>1, <1>2, <2>1 DEF Consumed, LeftSteps, Task
  <2>. QED
    BY <1>1, <2>1, <2>2
<1>3. CASE steps > 0
  <2>1. d = ExecuteTask(deleveraging, steps, positions)
    BY <1>3 DEF Delevered
  <2>. HIDE DEF d
  <2>a. steps \in Nat \ {0} /\ TaskOK(deleveraging) /\ positions \in Nat
    BY <1>1, <1>3
  <2>2. /\ TaskOK(d)
        /\ Consumed(deleveraging, d) \in 0 .. steps
        /\ d.state # "Ready"
        /\ d.state # "Finished" => Consumed(deleveraging, d) = steps
        /\ deleveraging.state = "Ready" => d.stepCount = positions
        /\ deleveraging.state # "Ready" => d.stepCount = deleveraging.stepCount
        /\ d.currentStep >= deleveraging.currentStep
        /\ d.currentStep <= d.stepCount
        /\ deleveraging.state = "Finished" => d = deleveraging
    BY <2>1, <2>a, ExecuteTaskOK
  <2>3. Consumed(deleveraging, d) = d.currentStep - deleveraging.currentStep
    BY DEF Consumed
  <2>4. LeftSteps(steps) = steps - Consumed(deleveraging, d)
    BY DEF LeftSteps, d
  <2>5. /\ Consumed(deleveraging, d) \in 0 .. positions
        /\ d.state = "Finished" => positions - Consumed(deleveraging, d) = 0
        /\ d.state = "Running" =>
             positions - Consumed(deleveraging, d) = d.stepCount - d.currentStep
    BY <1>1, <2>2, <2>3 DEF TaskOK, Task, ExecutionState
  <2>6. LeftSteps(steps) \in Nat /\ (LeftSteps(steps) > 0 => d.state = "Finished")
    BY <2>2, <2>4
  <2>. QED
    BY <2>2, <2>5, <2>6 DEF d
<1>. QED
  BY <1>2, <1>3

LEMMA RedeemedOK ==
    ASSUME TasksInv, NEW steps \in Nat, NEW mode \in BOOLEAN
    PROVE  LET d == Delevered(steps)
               r == Redeemed(steps, mode) IN
           /\ TaskOK(r)
           /\ r.state # "Ready" => d.state = "Finished"
           /\ r.state = "Running" => r.stepCount = redeemQueueLength
           /\ redemption.state = "Finished" => r = redemption
           /\ redemption.state # "Ready" => r.state # "Ready"
           /\ r.currentStep >= redemption.currentStep
           /\ r.currentStep <= r.stepCount
           /\ redemption.state # "Finished" => r.currentStep <= redeemQueueLength
           /\ redemption.state = "Running" => r.stepCount = redeemQueueLength
           /\ JustFinished(redemption, r) /\ redemption.state = "Ready" =>
                r.currentStep = StableTokenRedemptionStepCount(mode)
           /\ redemption.state = "Ready" /\ mode =>
                r.state # "Running" /\ r.currentStep = 0
<1> DEFINE d == Delevered(steps)
           r == Redeemed(steps, mode)
           left == LeftSteps(steps)
           count == StableTokenRedemptionStepCount(mode)
<1>1. /\ TaskOK(redemption) /\ redeemQueueLength \in Nat /\ count \in Nat
      /\ count <= redeemQueueLength
      /\ redemption.state # "Ready" => deleveraging.state = "Finished"
      /\ redemption.state = "Running" => redemption.stepCount = redeemQueueLength
  BY DEF TasksInv, TypeOK, TasksInOrder, StepsStayWithinBounds,
         StableTokenRedemptionStepCount
<1>2. /\ left \in Nat
      /\ left > 0 => d.state = "Finished"
      /\ deleveraging.state = "Finished" => d.state = "Finished"
  BY DeleveredOK
<1>3. CASE left = 0
  <2>1. r = redemption
    BY <1>3 DEF Redeemed
  <2>. QED
    BY <1>1, <1>2, <2>1 DEF TaskOK, Task, ExecutionState, JustFinished
<1>4. CASE left > 0
  <2>1. r = ExecuteTask(redemption, left, count)
    BY <1>4 DEF Redeemed
  <2>. HIDE DEF r, left, count
  <2>a. left \in Nat \ {0} /\ TaskOK(redemption) /\ count \in Nat
    BY <1>1, <1>2, <1>4
  <2>2. /\ TaskOK(r)
        /\ r.state # "Ready"
        /\ redemption.state = "Ready" => r.stepCount = count
        /\ redemption.state # "Ready" => r.stepCount = redemption.stepCount
        /\ r.currentStep >= redemption.currentStep
        /\ r.currentStep <= r.stepCount
        /\ redemption.state = "Finished" => r = redemption
    BY <2>1, <2>a, ExecuteTaskOK
  <2>3. r.state = "Running" => r.stepCount = redeemQueueLength
    \* A redemption that starts in protected mode has no step: it is Finished.
    BY <1>1, <2>2 DEF TaskOK, Task, ExecutionState, count,
                      StableTokenRedemptionStepCount
  <2>4. redemption.state # "Finished" => r.currentStep <= redeemQueueLength
    BY <1>1, <2>2 DEF TaskOK, Task, ExecutionState
  <2>5. JustFinished(redemption, r) => r.currentStep = r.stepCount
    BY <2>2 DEF TaskOK, JustFinished
  <2>6. redemption.state = "Ready" /\ mode => r.state # "Running" /\ r.currentStep = 0
    BY <2>2 DEF TaskOK, Task, ExecutionState, count, StableTokenRedemptionStepCount
  <2>. QED
    BY <1>1, <1>2, <1>4, <2>2, <2>3, <2>4, <2>5, <2>6 DEF r, count
<1>. QED
  BY <1>2, <1>3, <1>4

\* A rate of at most one takes at most all of it.
LEMMA PartOf ==
    ASSUME NEW n \in Nat
    PROVE  /\ (n * CommissionRate) \div Precision \in Nat
           /\ (n * CommissionRate) \div Precision <= n
<1>. DEFINE m == n * CommissionRate
            q == m \div Precision
<1>1. /\ CommissionRate \in Nat /\ Precision \in Nat \ {0}
      /\ CommissionRate <= Precision
  BY SettlementConstants
<1>2. PICK k \in Nat : Precision = CommissionRate + k
  BY <1>1
<1>3. m \in Nat /\ n * k \in Nat /\ n * Precision \in Nat /\ n * Precision = m + n * k
  BY <1>1, <1>2
<1>4. m <= n * Precision
  BY <1>3
<1>5. q \in Nat /\ Precision * q <= m
  <2>. HIDE DEF m
  <2>. QED
    BY <1>1, <1>3
<1>. HIDE DEF m, q
<1>6. ~ (n < q)
  <2>. SUFFICES ASSUME n < q PROVE FALSE
    OBVIOUS
  <2>1. PICK j \in Nat : q = n + 1 + j
    BY <1>5
  <2>2. /\ Precision * q = n * Precision + Precision + Precision * j
        /\ Precision * j \in Nat
    BY <1>1, <2>1
  <2>. QED
    BY <1>1, <1>3, <1>4, <1>5, <2>2
<1>. QED
  BY <1>5, <1>6 DEF m, q

LEMMA CommissionAndRest ==
    ASSUME NEW amount \in Nat
    PROVE  CalcCommission(amount) \in Nat /\ ReserveTokenToRedeem(amount) \in Nat
<1>. DEFINE n == StableTokensResTokensValue(amount)
<1>1. n \in Nat
  BY SettlementConstants DEF StableTokensResTokensValue
<1>. HIDE DEF n
<1>2. /\ (n * CommissionRate) \div Precision \in Nat
      /\ (n * CommissionRate) \div Precision <= n
  BY <1>1, PartOf
<1>3. CalcCommission(amount) = (n * CommissionRate) \div Precision
  BY DEF CalcCommission, n
<1>4. ReserveTokenToRedeem(amount) = n - CalcCommission(amount)
  BY DEF ReserveTokenToRedeem, n
<1>. QED
  BY <1>1, <1>2, <1>3, <1>4

LEMMA InitializeSettlementType ==
    ASSUME TypeOK
    PROVE  InitializeSettlement \in [isProtectedMode : BOOLEAN,
                                     partialCommissionAmount : Commission,
                                     finalCommissionAmount : Commission]
<1>1. NoCommission \in Commission
  BY DEF NoCommission, Commission
<1>. QED
  BY <1>1 DEF TypeOK, InitializeSettlement

LEMMA CollectCommissionsType ==
    ASSUME TypeOK, NEW r, NEW info \in [isProtectedMode : BOOLEAN,
                                        partialCommissionAmount : Commission,
                                        finalCommissionAmount : Commission],
           NEW paidOut \in [Users -> Balances],
           CollectCommissions(r, info, paidOut)
    PROVE  /\ settlementInfo' \in [isProtectedMode : BOOLEAN,
                                   partialCommissionAmount : Commission,
                                   finalCommissionAmount : Commission]
           /\ owed' \in [Users -> Int]
<1> DEFINE partial == [u \in Users |-> info.partialCommissionAmount[u]
                                         + CalcCommission(paidOut[u])]
           final == IF r.state = "Finished" THEN partial
                                            ELSE info.finalCommissionAmount
<1>1. \A u \in Users : CalcCommission(paidOut[u]) \in Nat
  BY CommissionAndRest, SettlementConstants DEF Balances
<1>2. partial \in Commission /\ final \in Commission
  BY <1>1 DEF Commission
<1>3. \A u \in Users : owed[u] + CalcCommission(paidOut[u]) - final[u] \in Int
  BY <1>1, <1>2 DEF TypeOK, Commission
<1>4. /\ settlementInfo' = [isProtectedMode |-> info.isProtectedMode,
                            partialCommissionAmount |-> partial,
                            finalCommissionAmount |-> final]
      /\ owed' = [u \in Users |-> owed[u] + CalcCommission(paidOut[u]) - final[u]]
  BY DEF CollectCommissions
<1>. HIDE DEF partial, final
<1>. QED
  BY <1>2, <1>3, <1>4

LEMMA BurnType ==
    ASSUME TypeOK, NEW indices, NEW paidOut \in [Users -> Balances],
           Burn(indices, paidOut)
    PROVE  balance' \in [Users -> Balances]
<1>1. ASSUME NEW u \in Users
      PROVE  balance[u] - paidOut[u] \in Balances
  <2>1. balance[u] \in Balances /\ paidOut[u] \in Balances
    BY DEF TypeOK
  <2>2. paidOut[u] = 0 \/ paidOut[u] = balance[u]
          \/ (~(balance[u] <= Requested(u, indices)) /\ paidOut[u] = Requested(u, indices))
    BY DEF Burn, RedeemedFrom
  <2>3. paidOut[u] <= balance[u]
    BY <2>1, <2>2, SettlementConstants DEF Balances
  <2>. QED
    BY <2>1, <2>3, SettlementConstants DEF Balances
<1>. QED
  BY <1>1 DEF Burn

\* What has decayed of the accumulators keeps their types.
LEMMA FluxDecays ==
    ASSUME TypeOK
    PROVE  Flux!AbsoluteAfter(0) \in Nat /\ Flux!DifferentialAfter(0) \in Int
<1>. DEFINE factor == Flux!DecayFactor(0)
            n == (elapsed + 0) * Precision
            ratio == n \div DecayBlockSpan
<1>1. /\ elapsed \in Nat /\ Precision \in Nat \ {0} /\ DecayBlockSpan \in Nat \ {0}
      /\ absoluteAccumulator \in Nat /\ differentialAccumulator \in Int
  BY SettlementConstants DEF TypeOK
<1>2. n \in Nat
  BY <1>1
<1>3. ratio \in Nat
  <2>. HIDE DEF n
  <2>. QED
    BY <1>1, <1>2
<1>4. factor = IF ratio >= Precision THEN 0 ELSE Precision - ratio
  BY DEF Flux!DecayFactor
<1>. HIDE DEF factor, ratio, n
<1>5. factor \in Nat
  BY <1>1, <1>3, <1>4
<1>. DEFINE a == absoluteAccumulator * factor
            d == differentialAccumulator * factor
<1>6. a \in Nat /\ d \in Int
  BY <1>1, <1>5
<1>7. /\ Flux!AbsoluteAfter(0) = a \div Precision
      /\ Flux!DifferentialAfter(0) = Flux!DivideTowardsZero(d, Precision)
  BY DEF Flux!AbsoluteAfter, Flux!DifferentialAfter, factor
<1>. HIDE DEF a, d
<1>8. Flux!DivideTowardsZero(d, Precision) \in Int
  BY <1>1, <1>6 DEF Flux!DivideTowardsZero
<1>. QED
  BY <1>1, <1>6, <1>7, <1>8

\* The types of the flux capacitor, which every transaction keeps.
FluxType ==
    /\ absoluteAccumulator \in Nat /\ differentialAccumulator \in Int
    /\ elapsed \in 0 .. DecayBlockSpan

LEMMA RecordType ==
    ASSUME NEW a \in Nat, NEW d \in Int, Flux!Record(a, d)
    PROVE  FluxType'
  BY SettlementConstants DEF Flux!Record, FluxType

LEMMA MovedNat ==
    ASSUME TypeOK, NEW indices \in SUBSET DOMAIN redeemQueue, IsFiniteSet(indices),
           NEW paidOut \in [Users -> Balances]
    PROVE  AllMoved(indices, paidOut) \in Nat
<1>1. ASSUME NEW i \in indices PROVE ReserveTokenToRedeem(AmountToRedeem(i)) \in Nat
  <2>1. redeemQueue[i] \in Request
    BY DEF TypeOK
  <2>2. balance[redeemQueue[i].who] \in Nat /\ redeemQueue[i].amount \in Nat
    BY <2>1, SettlementConstants DEF TypeOK, Request, Balances, Amounts
  <2>3. AmountToRedeem(i) \in Nat
    BY <2>2 DEF AmountToRedeem
  <2>. QED
    BY <2>3, CommissionAndRest
<1>2. ASSUME NEW u \in Users PROVE Moved(u, indices, paidOut) \in Nat
  <2>. DEFINE f == [i \in indices |-> ReserveTokenToRedeem(AmountToRedeem(i))]
              mine == {i \in indices : redeemQueue[i].who = u}
  <2>1. IsFiniteSet(mine)
    BY FS_Subset
  <2>2. \A i \in mine : f[i] \in Nat
    BY <1>1
  <2>3. Moved(u, indices, paidOut) = IF paidOut[u] > 0 THEN ReserveTokenToRedeem(paidOut[u])
                                                       ELSE SumFunctionOnSet(f, mine)
    BY DEF Moved
  <2>. HIDE DEF f, mine
  <2>4. SumFunctionOnSet(f, mine) \in Nat
    BY <2>1, <2>2, SumOfNaturals
  <2>5. ReserveTokenToRedeem(paidOut[u]) \in Nat
    BY CommissionAndRest, SettlementConstants DEF Balances
  <2>. QED
    BY <2>3, <2>4, <2>5
<1>. DEFINE g == [u \in Users |-> Moved(u, indices, paidOut)]
<1>3. \A u \in Users : g[u] \in Nat
  BY <1>2
<1>4. AllMoved(indices, paidOut) = SumFunctionOnSet(g, Users)
  BY DEF AllMoved
<1>. HIDE DEF g
<1>. QED
  BY <1>3, <1>4, SumOfNaturals, SettlementConstants

LEMMA BurnFluxType ==
    ASSUME TypeOK, NEW indices \in SUBSET DOMAIN redeemQueue, IsFiniteSet(indices),
           NEW paidOut \in [Users -> Balances], Burn(indices, paidOut)
    PROVE  FluxType'
<1>. DEFINE amount == AllMoved(indices, paidOut)
<1>1. amount \in Nat
  BY MovedNat
<1>2. UpdateAccumulatorsOnRedeem(indices, amount)
  BY DEF Burn
<1>. HIDE DEF amount
<1>3. CASE \E i \in indices : AmountToRedeem(i) > 0
  <2>1. Flux!Record(Flux!AbsoluteAfter(0) + amount, Flux!DifferentialAfter(0) - amount)
    BY <1>2, <1>3 DEF UpdateAccumulatorsOnRedeem
  <2>2. /\ Flux!AbsoluteAfter(0) + amount \in Nat
        /\ Flux!DifferentialAfter(0) - amount \in Int
    BY <1>1, FluxDecays
  <2>. QED
    BY <2>1, <2>2, RecordType
<1>4. CASE ~ \E i \in indices : AmountToRedeem(i) > 0
  BY <1>2, <1>4 DEF UpdateAccumulatorsOnRedeem, TypeOK, FluxType
<1>. QED
  BY <1>3, <1>4

LEMMA TradeType ==
    ASSUME TypeOK, NEW amount \in Amounts, Trade(amount)
    PROVE  FluxType'
<1>1. PICK n \in {amount, -amount} :
         Flux!Record(Flux!AbsoluteAfter(0) + amount, Flux!DifferentialAfter(0) + n)
  <2>1. /\ amount \in Int /\ Flux!DifferentialAfter(0) \in Int
        /\ Flux!DifferentialAfter(0) - amount = Flux!DifferentialAfter(0) + (-amount)
    BY FluxDecays, SettlementConstants DEF Amounts
  <2>. QED
    BY <2>1 DEF Trade
<1>2. amount \in Nat /\ n \in Int
  BY SettlementConstants DEF Amounts
<1>3. Flux!AbsoluteAfter(0) + amount \in Nat /\ Flux!DifferentialAfter(0) + n \in Int
  BY <1>2, FluxDecays
<1>. QED
  BY <1>1, <1>3, RecordType

LEMMA CloseRequestsType ==
    ASSUME TypeOK, NEW indices, CloseRequests(indices)
    PROVE  /\ DOMAIN redeemQueue' = DOMAIN redeemQueue
           /\ redeemQueue' \in [DOMAIN redeemQueue -> Request]
           /\ redeemMapping' \in [Users -> [index : Nat, activeRedeemer : BOOLEAN]]
<1>1. \A i \in DOMAIN redeemQueue : redeemQueue[i] \in Request
  BY DEF TypeOK
<1>2. \A q \in Request : [q EXCEPT !.amount = 0] \in Request
  BY SettlementConstants DEF Request, Amounts
<1>3. \A m \in [index : Nat, activeRedeemer : BOOLEAN] :
         [m EXCEPT !.activeRedeemer = FALSE] \in [index : Nat, activeRedeemer : BOOLEAN]
  OBVIOUS
<1>. QED
  BY <1>1, <1>2, <1>3 DEF CloseRequests, TypeOK

SettlementInv == TasksInv /\ ProcessedStayClosed

LEMMA SettleOK ==
    ASSUME SettlementInv, IsSettlementEnabled, UNCHANGED <<autoRestart, blockSpan>>,
           NEW steps \in Steps, NEW mode \in BOOLEAN,
           NEW paidOut \in [Users -> Balances],
           positions' = positions - Consumed(deleveraging, Delevered(steps)),
           protected' = mode, UNCHANGED <<paused, liquidated, maxAbsoluteOperation>>,
           Settle(Delevered(steps), Redeemed(steps, mode), InitializeSettlement, paidOut)
    PROVE  SettlementInv'
<1> DEFINE d == Delevered(steps)
           r == Redeemed(steps, mode)
           indices == StepsRun(redemption, r)
<1>1. steps \in Nat /\ TasksInv
  BY SettlementConstants DEF SettlementInv
<1>2. /\ TaskOK(d)
      /\ Consumed(deleveraging, d) \in 0 .. positions
      /\ d.state = "Finished" => positions - Consumed(deleveraging, d) = 0
      /\ d.state = "Running" =>
           positions - Consumed(deleveraging, d) = d.stepCount - d.currentStep
  BY <1>1, DeleveredOK
<1>3. /\ TaskOK(r)
      /\ r.state # "Ready" => d.state = "Finished"
      /\ r.state = "Running" => r.stepCount = redeemQueueLength
      /\ redemption.state = "Finished" => r = redemption
      /\ redemption.state # "Ready" => r.state # "Ready"
      /\ r.currentStep <= r.stepCount
      /\ r.currentStep >= redemption.currentStep
      /\ redemption.state # "Finished" => r.currentStep <= redeemQueueLength
  BY <1>1, RedeemedOK
<1>4. /\ Burn(indices, paidOut)
      /\ CloseRequests(indices)
      /\ ClearQueue(r, InitializeSettlement)
      /\ CollectCommissions(r, InitializeSettlement, paidOut)
      /\ FinishGroup(d, r)
  BY DEF Settle
<1>. HIDE DEF d, r
<1>5. /\ ResetTask(d) \in Task /\ TaskOK(ResetTask(d)) /\ ResetTask(d).state = "Ready"
      /\ ResetTask(r) \in Task /\ TaskOK(ResetTask(r)) /\ ResetTask(r).state = "Ready"
      /\ d \in Task /\ r \in Task
  BY <1>2, <1>3, ResetTaskOK DEF TaskOK
<1>6. TypeOK'
  <2>1. group' \in ExecutionState /\ autoRestart' \in BOOLEAN
    BY <1>1, <1>4 DEF FinishGroup, ExecutionState, TasksInv, TypeOK
  <2>2. deleveraging' \in Task /\ redemption' \in Task
    BY <1>4, <1>5 DEF FinishGroup
  <2>3. /\ DOMAIN redeemQueue' = DOMAIN redeemQueue
        /\ redeemQueue' \in [DOMAIN redeemQueue -> Request]
        /\ redeemMapping' \in [Users -> [index : Nat, activeRedeemer : BOOLEAN]]
    BY <1>1, <1>4, CloseRequestsType DEF TasksInv
  <2>4. redeemQueueLength' = redeemQueueLength \/ redeemQueueLength' = 0
    BY <1>4 DEF ClearQueue
  <2>5. /\ redeemQueueLength' \in Nat
        /\ 0 .. redeemQueueLength' - 1 \subseteq DOMAIN redeemQueue'
        /\ DOMAIN redeemQueue' \subseteq Nat
        /\ redeemQueue' \in [DOMAIN redeemQueue' -> Request]
    BY <1>1, <2>3, <2>4 DEF TasksInv, TypeOK
  <2>6. /\ settlementInfo' \in [isProtectedMode : BOOLEAN,
                                partialCommissionAmount : Commission,
                                finalCommissionAmount : Commission]
        /\ owed' \in [Users -> Int]
    BY <1>1, <1>4, InitializeSettlementType, CollectCommissionsType DEF TasksInv
  <2>7. blockSpan' \in BlockSpans /\ lag' \in 0 .. MaxLag
    BY <1>1, <1>4, SettlementConstants
       DEF FinishGroup, IsSettlementEnabled, TasksInv, TypeOK
  <2>8. positions' \in 0 .. MaxPositions
    BY <1>1, <1>2, SettlementConstants DEF TasksInv, TypeOK, d
  <2>9. balance' \in [Users -> Balances]
    BY <1>1, <1>4, BurnType DEF TasksInv
  <2>10. protected' \in BOOLEAN /\ paused' \in BOOLEAN /\ liquidated' \in BOOLEAN
    BY <1>1 DEF TasksInv, TypeOK
  <2>11. indices \in SUBSET DOMAIN redeemQueue /\ IsFiniteSet(indices)
    <3>1. /\ redemption.currentStep \in Nat /\ r.currentStep \in Nat
          /\ redeemQueueLength \in Nat
          /\ 0 .. redeemQueueLength - 1 \subseteq DOMAIN redeemQueue
      BY <1>1, <1>5 DEF TasksInv, TypeOK, Task
    <3>2. indices = redemption.currentStep .. (r.currentStep - 1)
      BY DEF StepsRun
    <3>3. IsFiniteSet(indices)
      <4>. DEFINE first == redemption.currentStep
                  last == r.currentStep - 1
      <4>1. first \in Int /\ last \in Int
        BY <3>1
      <4>. HIDE DEF first, last
      <4>2. IsFiniteSet(first .. last)
        BY <4>1, FS_Interval
      <4>. QED
        BY <3>2, <4>2 DEF first, last
    <3>. QED
      BY <1>3, <3>1, <3>2, <3>3
  <2>12. FluxType' /\ maxAbsoluteOperation' \in FluxLimits
    <3>1. TypeOK
      BY <1>1 DEF TasksInv
    <3>. HIDE DEF indices
    <3>2. FluxType'
      BY <1>4, <2>11, <3>1, BurnFluxType
    <3>. QED
      BY <3>1, <3>2 DEF TypeOK
  <2>. QED
    BY <2>1, <2>2, <2>3, <2>5, <2>6, <2>7, <2>8, <2>9, <2>10, <2>12 DEF TypeOK, FluxType
<1>7. TaskOK(deleveraging)' /\ TaskOK(redemption)'
  <2>1. \/ deleveraging' = d /\ redemption' = r
        \/ deleveraging' = ResetTask(d) /\ redemption' = ResetTask(r)
    BY <1>4 DEF FinishGroup
  <2>2. TaskOK(deleveraging') /\ TaskOK(redemption')
    BY <1>2, <1>3, <1>5, <2>1
  <2>. QED
    BY <2>2 DEF TaskOK
<1>8. CASE r.state # "Finished"
  <2>1. group' = "Running" /\ deleveraging' = d /\ redemption' = r
    BY <1>4, <1>8 DEF FinishGroup
  <2>2. TasksInOrder'
    BY <1>2, <1>3, <1>8, <2>1 DEF TasksInOrder, TaskOK, d
  <2>3. redeemQueueLength' = redeemQueueLength
    BY <1>4, <1>8 DEF ClearQueue, JustFinished
  <2>4. StepsStayWithinBounds'
    BY <1>2, <1>3, <2>1, <2>3 DEF StepsStayWithinBounds, d
  <2>5. ProcessedStayClosed'
    <3>. SUFFICES ASSUME r.state = "Running", NEW i \in 0 .. r.currentStep - 1
                  PROVE  /\ redeemQueue'[i].amount = 0
                         /\ ~redeemMapping'[redeemQueue'[i].who].activeRedeemer
      BY <2>1 DEF ProcessedStayClosed
    <3>1. /\ redemption \in Task /\ TaskOK(redemption)
          /\ i \in DOMAIN redeemQueue /\ i \in Nat
          /\ redeemQueue[i] \in Request
          /\ redeemMapping \in [Users -> [index : Nat, activeRedeemer : BOOLEAN]]
      BY <1>1, <1>3, <1>5 DEF TasksInv, TypeOK, Task
    <3>2. /\ redeemQueue' = [j \in DOMAIN redeemQueue |->
                               IF j \in indices THEN [redeemQueue[j] EXCEPT !.amount = 0]
                                                ELSE redeemQueue[j]]
          /\ redeemMapping' = [u \in Users |->
                                 IF \E j \in indices : redeemQueue[j].who = u
                                 THEN [redeemMapping[u] EXCEPT !.activeRedeemer = FALSE]
                                 ELSE redeemMapping[u]]
      BY <1>4 DEF CloseRequests
    <3>3. redeemQueue[i].who \in Users /\ redeemQueue'[i].who = redeemQueue[i].who
      BY <3>1, <3>2 DEF Request
    <3>4. CASE i \in indices
      BY <3>1, <3>2, <3>3, <3>4 DEF Request
    <3>5. CASE i \notin indices
      <4>1. i < redemption.currentStep
        BY <1>3, <1>5, <3>1, <3>5 DEF StepsRun, Task
      <4>2. redemption.state = "Running"
        BY <1>3, <3>1, <4>1 DEF TaskOK, Task, ExecutionState
      <4>3. /\ redeemQueue[i].amount = 0
            /\ ~redeemMapping[redeemQueue[i].who].activeRedeemer
        BY <3>1, <4>1, <4>2 DEF SettlementInv, ProcessedStayClosed, Task
      <4>. QED
        BY <3>1, <3>2, <3>3, <3>5, <4>3
    <3>. QED
      BY <3>4, <3>5
  <2>. QED
    BY <1>6, <1>7, <2>2, <2>4, <2>5 DEF SettlementInv, TasksInv
<1>9. CASE r.state = "Finished" /\ autoRestart = TRUE
  <2>1. group' = "Ready" /\ deleveraging' = ResetTask(d) /\ redemption' = ResetTask(r)
    BY <1>4, <1>9 DEF FinishGroup
  <2>2. TasksInOrder' /\ StepsStayWithinBounds' /\ ProcessedStayClosed'
    BY <1>5, <2>1 DEF TasksInOrder, StepsStayWithinBounds, ProcessedStayClosed
  <2>. QED
    BY <1>6, <1>7, <2>2 DEF SettlementInv, TasksInv
<1>10. CASE r.state = "Finished" /\ autoRestart = FALSE
  <2>1. group' = "Finished" /\ deleveraging' = d /\ redemption' = r
    BY <1>4, <1>10 DEF FinishGroup
  <2>2. d.state = "Finished" /\ positions' = 0
    BY <1>2, <1>3, <1>10 DEF d
  <2>3. TasksInOrder' /\ StepsStayWithinBounds' /\ ProcessedStayClosed'
    BY <1>10, <2>1, <2>2 DEF TasksInOrder, StepsStayWithinBounds, ProcessedStayClosed
  <2>. QED
    BY <1>6, <1>7, <2>3 DEF SettlementInv, TasksInv
<1>. QED
  BY <1>8, <1>9, <1>10 DEF SettlementInv, TasksInv, TypeOK

LEMMA PushRequestType ==
    ASSUME TypeOK, NEW u \in Users, NEW amount \in Amounts, PushRequest(u, amount)
    PROVE  /\ redeemQueueLength' \in Nat
           /\ DOMAIN redeemQueue' \subseteq Nat
           /\ 0 .. redeemQueueLength' - 1 \subseteq DOMAIN redeemQueue'
           /\ redeemQueue' \in [DOMAIN redeemQueue' -> Request]
           /\ redeemMapping' \in [Users -> [index : Nat, activeRedeemer : BOOLEAN]]
<1>1. /\ redeemQueueLength \in Nat /\ DOMAIN redeemQueue \subseteq Nat
      /\ 0 .. redeemQueueLength - 1 \subseteq DOMAIN redeemQueue
      /\ \A i \in DOMAIN redeemQueue : redeemQueue[i] \in Request
      /\ [who |-> u, amount |-> amount] \in Request
  BY DEF TypeOK, Request
<1>2. redeemQueueLength' = redeemQueueLength + 1
  BY DEF PushRequest
<1>3. /\ DOMAIN redeemQueue' = DOMAIN redeemQueue \cup {redeemQueueLength}
      /\ redeemQueue' \in [DOMAIN redeemQueue \cup {redeemQueueLength} -> Request]
  BY <1>1 DEF PushRequest
<1>4. redeemMapping' \in [Users -> [index : Nat, activeRedeemer : BOOLEAN]]
  BY <1>1 DEF PushRequest, TypeOK
<1>. QED
  BY <1>1, <1>2, <1>3, <1>4

LEMMA AlterRequestType ==
    ASSUME TypeOK, NEW u \in Users, NEW isAddition \in BOOLEAN,
           NEW delta \in Amounts, AlterRequest(u, isAddition, delta)
    PROVE  /\ DOMAIN redeemQueue' = DOMAIN redeemQueue
           /\ redeemQueue' \in [DOMAIN redeemQueue -> Request]
           /\ redeemQueueLength' = redeemQueueLength
           /\ redeemMapping' = redeemMapping
<1> DEFINE index == redeemMapping[u].index
           new == AlteredAmount(redeemQueue[index].amount, isAddition, delta)
<1>1. \A i \in DOMAIN redeemQueue : redeemQueue[i] \in Request
  BY DEF TypeOK
<1>2. /\ new \in Amounts
      /\ redeemQueue' = [redeemQueue EXCEPT ![index].amount = new]
      /\ redeemQueueLength' = redeemQueueLength
      /\ redeemMapping' = redeemMapping
  BY DEF AlterRequest
<1>. HIDE DEF index, new
<1>3. \A q \in Request : [q EXCEPT !.amount = new] \in Request
  BY <1>2 DEF Request
<1>. QED
  BY <1>1, <1>2, <1>3 DEF TypeOK

\* A user's request: the settlement is ready, so no task is under way.
LEMMA UserStepOK ==
    ASSUME SettlementInv, UserStep
    PROVE  SettlementInv'
<1>1. PICK u \in Users, amount \in Amounts :
        \/ RedeemStableTokenRequest(u, amount)
        \/ \E isAddition \in BOOLEAN : AlterRedeemRequestAmount(u, isAddition, amount)
  BY DEF UserStep
<1>2. /\ WhenSettlementReady
      /\ UNCHANGED <<taskVars, settlementInfo, envVars, owed>>
      /\ PushRequest(u, amount)
           \/ \E isAddition \in BOOLEAN : AlterRequest(u, isAddition, amount)
  BY <1>1 DEF RedeemStableTokenRequest, AlterRedeemRequestAmount
<1>3. TypeOK
  BY DEF SettlementInv, TasksInv
<1>4. /\ redeemQueueLength' \in Nat
      /\ DOMAIN redeemQueue' \subseteq Nat
      /\ 0 .. redeemQueueLength' - 1 \subseteq DOMAIN redeemQueue'
      /\ redeemQueue' \in [DOMAIN redeemQueue' -> Request]
      /\ redeemMapping' \in [Users -> [index : Nat, activeRedeemer : BOOLEAN]]
  BY <1>2, <1>3, PushRequestType, AlterRequestType DEF TypeOK
<1>5. TypeOK'
  BY <1>2, <1>3, <1>4 DEF TypeOK, taskVars, envVars, fluxVars
<1>6. deleveraging.state = "Ready" /\ redemption.state = "Ready"
  BY <1>2, <1>3 DEF SettlementInv, TasksInv, TasksInOrder, WhenSettlementReady,
                    TypeOK, Task, ExecutionState
<1>7. TaskOK(deleveraging)' /\ TaskOK(redemption)' /\ TasksInOrder'
  BY <1>2 DEF SettlementInv, TasksInv, TasksInOrder, TaskOK, taskVars, envVars
<1>8. StepsStayWithinBounds' /\ ProcessedStayClosed'
  BY <1>2, <1>6 DEF StepsStayWithinBounds, ProcessedStayClosed, taskVars
<1>. QED
  BY <1>5, <1>7, <1>8 DEF SettlementInv, TasksInv

\* What a transaction of the settlement is made of.
LEMMA RunSettlementSettles ==
    ASSUME NEW steps \in Steps, RunSettlement(steps)
    PROVE  /\ IsSettlementEnabled
           /\ positions' = positions - Consumed(deleveraging, Delevered(steps))
           /\ UNCHANGED <<autoRestart, blockSpan>>
           /\ UNCHANGED <<paused, liquidated, maxAbsoluteOperation>>
           /\ \E mode \in ModesAfter(Delevered(steps)), paidOut \in [Users -> Balances] :
                /\ protected' = mode
                /\ Settle(Delevered(steps), Redeemed(steps, mode), InitializeSettlement,
                          paidOut)
  BY DEF RunSettlement

LEMMA KeeperOK ==
    ASSUME SettlementInv, Keeper
    PROVE  SettlementInv'
<1>1. PICK steps \in Steps : RunSettlement(steps)
  BY DEF Keeper
<1>2. PICK mode \in ModesAfter(Delevered(steps)), paidOut \in [Users -> Balances] :
        /\ protected' = mode
        /\ Settle(Delevered(steps), Redeemed(steps, mode), InitializeSettlement, paidOut)
  BY <1>1, RunSettlementSettles
<1>3. mode \in BOOLEAN
  BY DEF ModesAfter, SettlementInv, TasksInv, TypeOK
<1>4. /\ IsSettlementEnabled
      /\ positions' = positions - Consumed(deleveraging, Delevered(steps))
      /\ UNCHANGED <<autoRestart, blockSpan>>
      /\ UNCHANGED <<paused, liquidated, maxAbsoluteOperation>>
  BY <1>1, RunSettlementSettles
<1>. QED
  BY <1>2, <1>3, <1>4, SettleOK

LEMMA GovernanceOK ==
    ASSUME SettlementInv, Governance
    PROVE  SettlementInv'
<1>. USE DEF taskVars, queueVars, envVars, fluxVars
<1>1. TypeOK /\ TaskOK(deleveraging) /\ TaskOK(redemption)
  BY DEF SettlementInv, TasksInv
<1>2. CASE SetSettlementToStall \/ FixTasksPointer
  <2>1. TypeOK'
    BY <1>1, <1>2 DEF SetSettlementToStall, FixTasksPointer, TypeOK
  <2>. QED
    BY <1>2, <2>1 DEF SetSettlementToStall, FixTasksPointer, SettlementInv, TasksInv,
         TaskOK, TasksInOrder, StepsStayWithinBounds, ProcessedStayClosed
<1>3. CASE RestartSettlementState
  <2>1. /\ deleveraging' = ResetTask(deleveraging) /\ redemption' = ResetTask(redemption)
        /\ group' = "Ready" /\ autoRestart' = TRUE
        /\ UNCHANGED <<queueVars, settlementInfo, envVars, owed>>
    BY <1>3 DEF RestartSettlementState
  <2>2. /\ TaskOK(deleveraging') /\ deleveraging'.state = "Ready"
        /\ TaskOK(redemption') /\ redemption'.state = "Ready"
    BY <1>1, <2>1, ResetTaskOK
  <2>3. TypeOK'
    BY <1>1, <2>1, <2>2 DEF TypeOK, TaskOK, ExecutionState
  <2>. QED
    BY <2>1, <2>2, <2>3 DEF SettlementInv, TasksInv, TaskOK,
         TasksInOrder, StepsStayWithinBounds, ProcessedStayClosed
<1>4. CASE \E span \in BlockSpans : SetBlockSpan(span)
  <2>1. TypeOK'
    BY <1>1, <1>4 DEF SetBlockSpan, TypeOK
  <2>. QED
    BY <1>4, <2>1 DEF SetBlockSpan, SettlementInv, TasksInv,
         TaskOK, TasksInOrder, StepsStayWithinBounds, ProcessedStayClosed
<1>5. CASE \E limit \in FluxLimits : SetMaxAbsoluteOperation(limit)
  <2>1. TypeOK'
    BY <1>1, <1>5 DEF SetMaxAbsoluteOperation, TypeOK
  <2>. QED
    BY <1>5, <2>1 DEF SetMaxAbsoluteOperation, SettlementInv, TasksInv,
         TaskOK, TasksInOrder, StepsStayWithinBounds, ProcessedStayClosed
<1>. QED
  BY <1>2, <1>3, <1>4, <1>5 DEF Governance

LEMMA EnvironmentOK ==
    ASSUME SettlementInv, Environment
    PROVE  SettlementInv'
<1>. USE DEF taskVars, queueVars, envVars, fluxVars
<1>1. TypeOK /\ TaskOK(deleveraging) /\ TaskOK(redemption)
  BY DEF SettlementInv, TasksInv
<1>2. UNCHANGED <<taskVars, queueVars, settlementInfo>>
  BY DEF Environment, NewBlock, Trade, BalanceChange, CoverageMove, EvalBucketLiquidation,
         Liquidate, PauseOrUnpause
<1>3. CASE EvalBucketLiquidation
  <2>1. deleveraging.state = "Ready" /\ positions' = 0 /\ TypeOK'
    BY <1>1, <1>3, SettlementConstants
       DEF EvalBucketLiquidation, SettlementInv, TasksInv, TasksInOrder,
           WhenSettlementReady, TypeOK
  <2>. QED
    BY <1>2, <2>1 DEF SettlementInv, TasksInv,
         TaskOK, TasksInOrder, StepsStayWithinBounds, ProcessedStayClosed
<1>4. CASE ~EvalBucketLiquidation
  <2>1. positions' = positions
    BY <1>4 DEF Environment, NewBlock, Trade, BalanceChange, CoverageMove,
                Liquidate, PauseOrUnpause
  <2>2. /\ lag' \in 0 .. MaxLag /\ blockSpan' \in BlockSpans
        /\ balance' \in [Users -> Balances]
        /\ protected' \in BOOLEAN /\ paused' \in BOOLEAN /\ liquidated' \in BOOLEAN
        /\ owed' \in [Users -> Int]
        /\ FluxType' /\ maxAbsoluteOperation' \in FluxLimits
    <3>1. /\ lag \in 0 .. MaxLag /\ blockSpan \in BlockSpans
          /\ balance \in [Users -> Balances]
          /\ protected \in BOOLEAN /\ paused \in BOOLEAN /\ liquidated \in BOOLEAN
          /\ owed \in [Users -> Int]
          /\ FluxType /\ maxAbsoluteOperation \in FluxLimits
      BY <1>1 DEF TypeOK, FluxType
    <3>2. CASE NewBlock
      BY <3>1, <3>2, SettlementConstants DEF NewBlock, FluxType
    <3>3. CASE \E u \in Users, b \in Balances : BalanceChange(u, b)
      BY <3>1, <3>3 DEF BalanceChange, FluxType
    <3>4. CASE CoverageMove
      BY <3>1, <3>4 DEF CoverageMove, FluxType
    <3>5. CASE Liquidate
      BY <3>1, <3>5 DEF Liquidate, FluxType
    <3>6. CASE PauseOrUnpause
      BY <3>1, <3>6 DEF PauseOrUnpause, FluxType
    <3>7. CASE \E amount \in Amounts \ {0} : Trade(amount)
      <4>1. FluxType'
        BY <1>1, <3>7, TradeType
      <4>. QED
        BY <3>1, <3>7, <4>1 DEF Trade
    <3>. QED
      BY <1>4, <3>2, <3>3, <3>4, <3>5, <3>6, <3>7 DEF Environment
  <2>3. TypeOK'
    BY <1>1, <1>2, <2>1, <2>2 DEF TypeOK, FluxType
  <2>. QED
    BY <1>2, <2>1, <2>3 DEF SettlementInv, TasksInv,
         TaskOK, TasksInOrder, StepsStayWithinBounds, ProcessedStayClosed
<1>. QED
  BY <1>3, <1>4

LEMMA InitOK == Init => SettlementInv
<1>. SUFFICES ASSUME Init PROVE SettlementInv
  OBVIOUS
<1>1. TypeOK
  <2>1. /\ DOMAIN redeemQueue = {} /\ redeemQueueLength = 0
        /\ redeemQueue \in [DOMAIN redeemQueue -> Request]
    BY DEF Init
  <2>2. 0 .. redeemQueueLength - 1 \subseteq DOMAIN redeemQueue
    BY <2>1
  <2>3. NoCommission \in Commission /\ owed \in [Users -> Int]
    BY DEF Init, NoCommission, Commission
  <2>4. group \in ExecutionState /\ deleveraging \in Task /\ redemption \in Task
    BY NewTaskOK DEF Init, ExecutionState, TaskOK
  <2>5. redeemMapping \in [Users -> [index : Nat, activeRedeemer : BOOLEAN]]
    BY DEF Init
  <2>6. settlementInfo \in [isProtectedMode : BOOLEAN,
                            partialCommissionAmount : Commission,
                            finalCommissionAmount : Commission]
    BY <2>3 DEF Init
  <2>7. lag \in 0 .. MaxLag /\ positions \in 0 .. MaxPositions
    BY SettlementConstants DEF Init
  <2>8. /\ autoRestart \in BOOLEAN /\ blockSpan \in BlockSpans
        /\ balance \in [Users -> Balances]
        /\ protected \in BOOLEAN /\ paused \in BOOLEAN /\ liquidated \in BOOLEAN
    BY DEF Init
  <2>9. /\ absoluteAccumulator \in Nat /\ differentialAccumulator \in Int
        /\ elapsed \in 0 .. DecayBlockSpan /\ maxAbsoluteOperation \in FluxLimits
    BY SettlementConstants DEF Init
  <2>. QED
    BY <2>1, <2>2, <2>3, <2>4, <2>5, <2>6, <2>7, <2>8, <2>9 DEF TypeOK
<1>2. TaskOK(deleveraging) /\ TaskOK(redemption)
  BY NewTaskOK DEF Init
<1>3. TasksInOrder /\ StepsStayWithinBounds /\ ProcessedStayClosed
  BY DEF Init, NewTask, TasksInOrder, StepsStayWithinBounds, ProcessedStayClosed
<1>. QED
  BY <1>1, <1>2, <1>3 DEF SettlementInv, TasksInv

LEMMA StutterOK == SettlementInv /\ UNCHANGED vars => SettlementInv'
  BY DEF SettlementInv, TasksInv, TypeOK, TaskOK, TasksInOrder, StepsStayWithinBounds,
         ProcessedStayClosed, vars, taskVars, queueVars, envVars, fluxVars

\* The invariant of the settlement, preserved by every transaction whatever the
\* environment does.
THEOREM SettlementInvariant == Spec => []SettlementInv
<1>1. SettlementInv /\ [Next]_vars => SettlementInv'
  BY UserStepOK, KeeperOK, GovernanceOK, EnvironmentOK, StutterOK DEF Next
<1>. QED
  BY InitOK, <1>1, PTL DEF Spec

\* Every variable keeps its type; in particular lastProcessedBlock, which advances
\* by blockSpan, never overtakes block.number.
THEOREM TypeCorrect == Spec => []TypeOK
<1>1. SettlementInv => TypeOK
  BY DEF SettlementInv, TasksInv
<1>. QED
  BY SettlementInvariant, <1>1, PTL

\* The states of the settlement and of its two tasks agree after every
\* transaction: the queue is not touched before every leveraged position is closed.
THEOREM TasksStayInOrder == Spec => []TasksInOrder
<1>1. SettlementInv => TasksInOrder
  BY DEF SettlementInv, TasksInv
<1>. QED
  BY SettlementInvariant, <1>1, PTL

\* No step of the settlement is asked for a request past the end of the queue or
\* for the first of no leveraged position, the two ways it could block itself.
THEOREM StepsWithinBounds == Spec => []StepsStayWithinBounds
<1>1. SettlementInv => StepsStayWithinBounds
  BY DEF SettlementInv, TasksInv
<1>. QED
  BY SettlementInvariant, <1>1, PTL

\* A request the running settlement has processed stays closed.
THEOREM ProcessedRequestsStayClosed == Spec => []ProcessedStayClosed
<1>1. SettlementInv => ProcessedStayClosed
  BY DEF SettlementInv
<1>. QED
  BY SettlementInvariant, <1>1, PTL

LEMMA RunSettlementFreezesQueue ==
    ASSUME SettlementInv, NEW steps \in Steps, RunSettlement(steps)
    PROVE  /\ redeemQueueLength' \in {redeemQueueLength, 0}
           /\ \A i \in DOMAIN redeemQueue :
                /\ redeemQueue'[i].who = redeemQueue[i].who
                /\ redeemQueue'[i].amount # redeemQueue[i].amount =>
                     /\ redeemQueue'[i].amount = 0
                     /\ ~redeemMapping'[redeemQueue[i].who].activeRedeemer
<1>1. PICK mode \in ModesAfter(Delevered(steps)), paidOut \in [Users -> Balances] :
        Settle(Delevered(steps), Redeemed(steps, mode), InitializeSettlement, paidOut)
  BY RunSettlementSettles
<1>. DEFINE r == Redeemed(steps, mode)
            indices == StepsRun(redemption, r)
<1>2. CloseRequests(indices) /\ ClearQueue(r, InitializeSettlement)
  BY <1>1 DEF Settle
<1>3. redeemQueueLength' \in {redeemQueueLength, 0}
  BY <1>2 DEF ClearQueue
<1>4. ASSUME NEW i \in DOMAIN redeemQueue
      PROVE  /\ redeemQueue'[i].who = redeemQueue[i].who
             /\ redeemQueue'[i].amount # redeemQueue[i].amount =>
                  /\ redeemQueue'[i].amount = 0
                  /\ ~redeemMapping'[redeemQueue[i].who].activeRedeemer
  <2>1. /\ redeemQueue[i] \in Request /\ redeemQueue[i].who \in Users
        /\ redeemMapping \in [Users -> [index : Nat, activeRedeemer : BOOLEAN]]
    BY DEF SettlementInv, TasksInv, TypeOK, Request
  <2>2. CASE i \in indices
    BY <1>2, <2>1, <2>2 DEF CloseRequests, Request
  <2>3. CASE i \notin indices
    BY <1>2, <2>3 DEF CloseRequests
  <2>. QED
    BY <2>2, <2>3
<1>. QED
  BY <1>3, <1>4

\* While a settlement runs nobody enters the queue, and an amount changes only by
\* being processed.
THEOREM QueueFrozen == Spec => QueueFrozenWhileRunning
<1>. DEFINE Frozen ==
        group = "Running" =>
          /\ redeemQueueLength' \in {redeemQueueLength, 0}
          /\ \A i \in DOMAIN redeemQueue :
                /\ redeemQueue'[i].who = redeemQueue[i].who
                /\ redeemQueue'[i].amount # redeemQueue[i].amount =>
                     /\ redeemQueue'[i].amount = 0
                     /\ ~redeemMapping'[redeemQueue[i].who].activeRedeemer
<1>1. ASSUME SettlementInv, [Next]_vars PROVE Frozen \/ UNCHANGED vars
  <2>1. CASE UserStep
    BY <2>1 DEF UserStep, RedeemStableTokenRequest, AlterRedeemRequestAmount,
                WhenSettlementReady
  <2>2. CASE Keeper
    BY <1>1, <2>2, RunSettlementFreezesQueue DEF Keeper
  <2>3. CASE Governance \/ Environment
    <3>1. UNCHANGED queueVars
      BY <2>3 DEF Governance, SetSettlementToStall, RestartSettlementState,
           FixTasksPointer, SetBlockSpan, SetMaxAbsoluteOperation, Environment, NewBlock,
           Trade, BalanceChange, CoverageMove, EvalBucketLiquidation, Liquidate, PauseOrUnpause
    <3>. QED
      BY <3>1 DEF queueVars
  <2>. QED
    BY <1>1, <2>1, <2>2, <2>3 DEF Next
<1>2. SettlementInv /\ [Next]_vars => [Frozen]_vars
  BY <1>1
<1>. QED
  BY SettlementInvariant, <1>2, PTL DEF Spec, QueueFrozenWhileRunning

-----------------------------------------------------------------------------
(* RequestsMatchQueue, when the coverage does not cross the protected       *)
(* threshold in the middle of a settlement and governance does not restart  *)
(* a running one.                                                           *)

\* Neither of the two happens: the assumption of the theorem.
Undisturbed == Disturbances \cap {"flip", "abort"} = {}

\* What makes RequestsMatchQueue inductive: the mode the settlement started in is
\* the current one until it ends, so a queue is processed exactly if it is cleared.
RequestsInv ==
    /\ SettlementInv
    /\ group = "Running" => settlementInfo.isProtectedMode = protected
    /\ redemption.state = "Running" => ~protected
    /\ RequestsMatchQueue

\* Closing the requests of the indices about to be served leaves a queue and a
\* mapping that match on the slots that remain.
LEMMA CloseRequestsMatch ==
    ASSUME TypeOK, RequestsMatchQueue, NEW indices, NEW rest \in SUBSET Pending,
           CloseRequests(indices), rest = Pending \ indices,
           indices \subseteq Pending
    PROVE  /\ \A i \in rest :
                redeemMapping'[redeemQueue'[i].who] = [index |-> i, activeRedeemer |-> TRUE]
           /\ \A u \in Users :
                redeemMapping'[u].activeRedeemer =>
                   /\ redeemMapping'[u].index \in rest
                   /\ redeemQueue'[redeemMapping'[u].index].who = u
<1>1. /\ \A i \in Pending : i \in DOMAIN redeemQueue
      /\ \A i \in DOMAIN redeemQueue : redeemQueue[i] \in Request
      /\ redeemMapping \in [Users -> [index : Nat, activeRedeemer : BOOLEAN]]
  BY DEF TypeOK, Pending
<1>2. \A i \in DOMAIN redeemQueue :
        redeemQueue[i].who \in Users /\ redeemQueue'[i].who = redeemQueue[i].who
  BY <1>1 DEF CloseRequests, Request
<1>3. \A u \in Users :
        redeemMapping'[u] = IF \E i \in indices : redeemQueue[i].who = u
                            THEN [redeemMapping[u] EXCEPT !.activeRedeemer = FALSE]
                            ELSE redeemMapping[u]
  BY DEF CloseRequests
<1>4. ASSUME NEW i \in rest
      PROVE  redeemMapping'[redeemQueue'[i].who] = [index |-> i, activeRedeemer |-> TRUE]
  <2>1. ASSUME NEW j \in indices, redeemQueue[j].who = redeemQueue[i].who
        PROVE  FALSE
    <3>0. i \in Pending /\ j \in Pending
      BY <1>4
    <3>a. /\ redeemMapping[redeemQueue[j].who] = [index |-> j, activeRedeemer |-> TRUE]
          /\ redeemMapping[redeemQueue[i].who] = [index |-> i, activeRedeemer |-> TRUE]
      BY <3>0 DEF RequestsMatchQueue
    <3>1. /\ redeemMapping[redeemQueue[j].who].index = j
          /\ redeemMapping[redeemQueue[i].who].index = i
      BY <3>a
    <3>2. i \notin indices
      BY <1>4
    <3>. QED
      BY <2>1, <3>1, <3>2
  <2>2. redeemMapping[redeemQueue[i].who] = [index |-> i, activeRedeemer |-> TRUE]
    BY <1>4 DEF RequestsMatchQueue
  <2>. QED
    BY <1>1, <1>2, <1>3, <2>1, <2>2
<1>5. ASSUME NEW u \in Users, redeemMapping'[u].activeRedeemer
      PROVE  /\ redeemMapping'[u].index \in rest
             /\ redeemQueue'[redeemMapping'[u].index].who = u
  <2>1. /\ ~ \E i \in indices : redeemQueue[i].who = u
        /\ redeemMapping'[u] = redeemMapping[u]
    <3>1. redeemMapping[u] \in [index : Nat, activeRedeemer : BOOLEAN]
      BY <1>1
    <3>2. ~ \E i \in indices : redeemQueue[i].who = u
      BY <1>3, <1>5, <3>1
    <3>. QED
      BY <1>3, <3>2
  <2>2. redeemMapping[u].index \in Pending /\ redeemQueue[redeemMapping[u].index].who = u
    BY <1>5, <2>1 DEF RequestsMatchQueue
  <2>. QED
    BY <1>1, <1>2, <2>1, <2>2
<1>. QED
  BY <1>4, <1>5

LEMMA MatchKeeper ==
    ASSUME Undisturbed, RequestsInv, Keeper
    PROVE  RequestsInv'
<1>1. PICK steps \in Steps : RunSettlement(steps)
  BY DEF Keeper
<1>2. PICK mode \in ModesAfter(Delevered(steps)), paidOut \in [Users -> Balances] :
        /\ protected' = mode
        /\ Settle(Delevered(steps), Redeemed(steps, mode), InitializeSettlement, paidOut)
  BY <1>1, RunSettlementSettles
<1>. DEFINE d == Delevered(steps)
            r == Redeemed(steps, mode)
            indices == StepsRun(redemption, r)
            info == InitializeSettlement
<1>3. mode = protected /\ mode \in BOOLEAN /\ steps \in Nat
  BY SettlementConstants DEF ModesAfter, Undisturbed, RequestsInv, SettlementInv,
                             TasksInv, TypeOK
<1>4. SettlementInv' /\ SettlementInv /\ TypeOK /\ TasksInv
  BY KeeperOK DEF RequestsInv, SettlementInv, TasksInv
<1>5. /\ TaskOK(r) /\ TaskOK(redemption)
      /\ r.state = "Running" => r.stepCount = redeemQueueLength
      /\ redemption.state = "Finished" => r = redemption
      /\ redemption.state # "Ready" => r.state # "Ready"
      /\ r.currentStep >= redemption.currentStep
      /\ r.currentStep <= r.stepCount
      /\ redemption.state # "Finished" => r.currentStep <= redeemQueueLength
      /\ redemption.state = "Running" => r.stepCount = redeemQueueLength
      /\ JustFinished(redemption, r) /\ redemption.state = "Ready" =>
           r.currentStep = StableTokenRedemptionStepCount(mode)
      /\ redemption.state = "Ready" /\ mode =>
           r.state # "Running" /\ r.currentStep = 0
  BY <1>3, <1>4, RedeemedOK DEF TasksInv
<1>6. /\ CloseRequests(indices) /\ ClearQueue(r, info)
      /\ CollectCommissions(r, info, paidOut) /\ FinishGroup(d, r)
  BY <1>2 DEF Settle
<1>. HIDE DEF r
<1>7. /\ group' = "Running" => redemption' = r /\ r.state # "Finished"
      /\ redemption'.state = "Running" => redemption' = r
      /\ redemption'.state = "Running" <=> r.state = "Running"
  BY <1>6, ResetTaskOK, <1>5 DEF FinishGroup, ResetTask
<1>8. group # "Finished" => info.isProtectedMode = protected
  BY <1>4 DEF InitializeSettlement, RequestsInv, TypeOK, ExecutionState
<1>9. group = "Finished" <=> redemption.state = "Finished"
  BY <1>4 DEF TasksInv, TasksInOrder
<1>10. group' = "Running" => settlementInfo'.isProtectedMode = protected'
  <2>1. settlementInfo'.isProtectedMode = info.isProtectedMode
    BY <1>6 DEF CollectCommissions
  <2>. QED
    BY <1>2, <1>3, <1>5, <1>7, <1>8, <1>9, <2>1
<1>11. redemption'.state = "Running" => ~protected'
  <2>. SUFFICES ASSUME r.state = "Running", protected PROVE FALSE
    BY <1>2, <1>3, <1>7
  <2>1. redemption.state # "Running" /\ redemption.state # "Finished"
    BY <1>5 DEF RequestsInv
  <2>2. redemption.state = "Ready"
    BY <1>4, <2>1 DEF TypeOK, Task, ExecutionState
  <2>. QED
    BY <1>3, <1>5, <2>2
<1>12. indices \subseteq Pending /\ Pending' = Pending \ indices
  <2>1. /\ redeemQueueLength \in Nat
        /\ redemption.currentStep \in Nat /\ r.currentStep \in Nat
        /\ redemption.state \in ExecutionState /\ r.state \in ExecutionState
    BY <1>4, <1>5 DEF TypeOK, TaskOK, Task
  <2>2. redemption.state = "Ready" => redemption.currentStep = 0
    BY <1>5 DEF TaskOK
  <2>3. indices = redemption.currentStep .. r.currentStep - 1
    BY DEF StepsRun
  <2>. HIDE DEF indices
  <2>4. Pending' = {i \in 0 .. redeemQueueLength' - 1 :
                      r.state = "Running" => i >= r.currentStep}
    BY <1>7 DEF Pending
  <2>5. CASE r.state = "Running"
    <3>1. redeemQueueLength' = redeemQueueLength /\ redemption.state # "Finished"
      BY <1>5, <1>6, <2>5 DEF ClearQueue, JustFinished
    <3>. QED
      BY <1>5, <2>1, <2>2, <2>3, <2>4, <2>5, <3>1 DEF Pending, ExecutionState
  <2>6. CASE r.state # "Running" /\ JustFinished(redemption, r) /\ ~protected
    <3>1. redeemQueueLength' = 0
      BY <1>6, <1>8, <1>9, <2>6 DEF ClearQueue, JustFinished
    <3>2. r.currentStep = redeemQueueLength
      BY <1>3, <1>5, <2>1, <2>6
         DEF JustFinished, TaskOK, ExecutionState, StableTokenRedemptionStepCount
    <3>3. Pending \subseteq indices /\ indices \subseteq Pending
      BY <2>1, <2>2, <2>3, <2>6, <3>2 DEF Pending, ExecutionState, JustFinished
    <3>. QED
      BY <2>4, <3>1, <3>3
  <2>7. CASE r.state # "Running" /\ ~(JustFinished(redemption, r) /\ ~protected)
    <3>1. redemption.state # "Running"
      <4>. SUFFICES ASSUME redemption.state = "Running" PROVE FALSE
        OBVIOUS
      <4>1. JustFinished(redemption, r) /\ ~protected
        BY <1>5, <2>1, <2>7 DEF JustFinished, ExecutionState, RequestsInv
      <4>. QED
        BY <2>7, <4>1
    <3>2. r.currentStep = redemption.currentStep
      BY <1>3, <1>5, <2>1, <2>2, <2>7, <3>1 DEF JustFinished, ExecutionState, TaskOK
    <3>3. redeemQueueLength' = redeemQueueLength
      BY <1>6, <1>8, <1>9, <2>7 DEF ClearQueue, JustFinished
    <3>. QED
      BY <2>1, <2>3, <2>4, <2>7, <3>1, <3>2, <3>3 DEF Pending
  <2>. QED
    BY <2>5, <2>6, <2>7
<1>13. RequestsMatchQueue'
  <2>1. RequestsMatchQueue /\ Pending' \in SUBSET Pending
    BY <1>12 DEF RequestsInv
  <2>. HIDE DEF indices
  <2>2. /\ \A i \in Pending' :
             redeemMapping'[redeemQueue'[i].who] = [index |-> i, activeRedeemer |-> TRUE]
        /\ \A u \in Users :
             redeemMapping'[u].activeRedeemer =>
                /\ redeemMapping'[u].index \in Pending'
                /\ redeemQueue'[redeemMapping'[u].index].who = u
    BY <1>4, <1>6, <1>12, <2>1, CloseRequestsMatch
  <2>. QED
    BY <2>2 DEF RequestsMatchQueue
<1>. QED
  BY <1>4, <1>10, <1>11, <1>13 DEF RequestsInv

LEMMA MatchUserStep ==
    ASSUME RequestsInv, UserStep
    PROVE  RequestsInv'
<1>1. PICK u \in Users, amount \in Amounts :
        \/ RedeemStableTokenRequest(u, amount)
        \/ \E isAddition \in BOOLEAN : AlterRedeemRequestAmount(u, isAddition, amount)
  BY DEF UserStep
<1>2. /\ WhenSettlementReady
      /\ UNCHANGED <<taskVars, settlementInfo, envVars, owed>>
  BY <1>1 DEF RedeemStableTokenRequest, AlterRedeemRequestAmount
<1>3. SettlementInv' /\ TypeOK
  BY UserStepOK DEF RequestsInv, SettlementInv, TasksInv
<1>4. redemption.state = "Ready" /\ redemption'.state = "Ready" /\ group' # "Running"
  BY <1>2 DEF RequestsInv, SettlementInv, TasksInv, TasksInOrder, WhenSettlementReady,
              TypeOK, Task, ExecutionState, taskVars
<1>5. Pending = 0 .. redeemQueueLength - 1 /\ Pending' = 0 .. redeemQueueLength' - 1
  BY <1>4 DEF Pending
<1>6. /\ redeemQueueLength \in Nat
      /\ \A i \in Pending : i \in DOMAIN redeemQueue
      /\ \A i \in DOMAIN redeemQueue : redeemQueue[i] \in Request
      /\ redeemMapping \in [Users -> [index : Nat, activeRedeemer : BOOLEAN]]
  BY <1>3 DEF TypeOK, Pending
<1>7. CASE RedeemStableTokenRequest(u, amount) /\ PushRequest(u, amount)
  <2>1. /\ redeemQueueLength' = redeemQueueLength + 1
        /\ \A i \in Pending : redeemQueue'[i] = redeemQueue[i]
        /\ redeemQueue'[redeemQueueLength].who = u
        /\ ~redeemMapping[u].activeRedeemer
        /\ redeemMapping'[u] = [index |-> redeemQueueLength, activeRedeemer |-> TRUE]
        /\ \A v \in Users \ {u} : redeemMapping'[v] = redeemMapping[v]
    BY <1>5, <1>6, <1>7 DEF PushRequest
  <2>2. ASSUME NEW i \in Pending'
        PROVE  redeemMapping'[redeemQueue'[i].who] = [index |-> i, activeRedeemer |-> TRUE]
    <3>1. CASE i = redeemQueueLength
      BY <2>1, <3>1
    <3>2. CASE i # redeemQueueLength
      <4>1. i \in Pending /\ redeemQueue'[i] = redeemQueue[i]
        BY <1>5, <1>6, <2>1, <3>2
      <4>2. /\ redeemQueue[i].who \in Users
            /\ redeemMapping[redeemQueue[i].who] = [index |-> i, activeRedeemer |-> TRUE]
        BY <1>6, <4>1 DEF RequestsInv, RequestsMatchQueue, Request
      <4>3. redeemQueue[i].who # u
        BY <2>1, <4>2
      <4>. QED
        BY <2>1, <4>1, <4>2, <4>3
    <3>. QED
      BY <3>1, <3>2
  <2>3. ASSUME NEW v \in Users, redeemMapping'[v].activeRedeemer
        PROVE  /\ redeemMapping'[v].index \in Pending'
               /\ redeemQueue'[redeemMapping'[v].index].who = v
    <3>1. CASE v = u
      BY <1>5, <1>6, <2>1, <3>1
    <3>2. CASE v # u
      <4>1. /\ redeemMapping'[v] = redeemMapping[v]
            /\ redeemMapping[v].index \in Pending
            /\ redeemQueue[redeemMapping[v].index].who = v
        BY <2>1, <2>3, <3>2 DEF RequestsInv, RequestsMatchQueue
      <4>. QED
        BY <1>5, <1>6, <2>1, <4>1
    <3>. QED
      BY <3>1, <3>2
  <2>. QED
    BY <1>3, <1>4, <2>2, <2>3 DEF RequestsInv, RequestsMatchQueue
<1>8. CASE \E isAddition \in BOOLEAN : AlterRequest(u, isAddition, amount)
  <2>1. /\ redeemQueueLength' = redeemQueueLength /\ redeemMapping' = redeemMapping
        /\ \A i \in DOMAIN redeemQueue : redeemQueue'[i].who = redeemQueue[i].who
    BY <1>6, <1>8 DEF AlterRequest, Request
  <2>2. RequestsMatchQueue'
    BY <1>5, <1>6, <2>1 DEF RequestsInv, RequestsMatchQueue
  <2>. QED
    BY <1>3, <1>4, <2>2 DEF RequestsInv
<1>. QED
  BY <1>1, <1>7, <1>8 DEF RedeemStableTokenRequest, AlterRedeemRequestAmount

LEMMA MatchGovernance ==
    ASSUME Undisturbed, RequestsInv, Governance
    PROVE  RequestsInv'
<1>1. SettlementInv'
  BY GovernanceOK DEF RequestsInv
<1>2. UNCHANGED <<queueVars, settlementInfo, protected>>
  BY DEF Governance, SetSettlementToStall, RestartSettlementState, FixTasksPointer,
         SetBlockSpan, SetMaxAbsoluteOperation, envVars
<1>3. CASE RestartSettlementState
  <2>1. group # "Running"
    BY <1>3 DEF RestartSettlementState, Undisturbed
  <2>2. redemption.state # "Running"
    BY <2>1 DEF RequestsInv, SettlementInv, TasksInv, TasksInOrder, TypeOK, ExecutionState
  <2>3. redemption'.state = "Ready" /\ group' = "Ready"
    BY <1>3 DEF RestartSettlementState, ResetTask
  <2>4. Pending' = Pending
    BY <1>2, <2>2, <2>3 DEF Pending, queueVars
  <2>. QED
    BY <1>1, <1>2, <2>3, <2>4 DEF RequestsInv, RequestsMatchQueue, queueVars
<1>4. CASE ~RestartSettlementState
  <2>1. UNCHANGED <<group, redemption>>
    BY <1>4 DEF Governance, SetSettlementToStall, FixTasksPointer, SetBlockSpan,
                SetMaxAbsoluteOperation, taskVars
  <2>. QED
    BY <1>1, <1>2, <2>1 DEF RequestsInv, RequestsMatchQueue, Pending, queueVars
<1>. QED
  BY <1>3, <1>4

LEMMA MatchEnvironment ==
    ASSUME Undisturbed, RequestsInv, Environment
    PROVE  RequestsInv'
<1>1. SettlementInv'
  BY EnvironmentOK DEF RequestsInv
<1>2. UNCHANGED <<taskVars, queueVars, settlementInfo>>
  BY DEF Environment, NewBlock, Trade, BalanceChange, CoverageMove, EvalBucketLiquidation,
         Liquidate, PauseOrUnpause
<1>3. group = "Running" => protected' = protected
  BY DEF Environment, NewBlock, Trade, BalanceChange, CoverageMove, EvalBucketLiquidation,
         Liquidate, PauseOrUnpause, Undisturbed
<1>4. redemption.state = "Running" => group = "Running"
  BY DEF RequestsInv, SettlementInv, TasksInv, TasksInOrder, TypeOK, ExecutionState
<1>. QED
  BY <1>1, <1>2, <1>3, <1>4
     DEF RequestsInv, RequestsMatchQueue, Pending, taskVars, queueVars

\* The invariant of the queue, preserved by every transaction.
LEMMA RequestsInductive ==
    ASSUME Undisturbed
    PROVE  Spec => []RequestsInv
<1>1. Init => RequestsInv
  <2>. SUFFICES ASSUME Init PROVE RequestsInv
    OBVIOUS
  <2>1. /\ group = "Ready" /\ redemption.state = "Ready" /\ redeemQueueLength = 0
        /\ \A u \in Users : ~redeemMapping[u].activeRedeemer
    BY DEF Init, NewTask
  <2>2. Pending = {}
    BY <2>1 DEF Pending
  <2>. QED
    BY <2>1, <2>2, InitOK DEF RequestsInv, RequestsMatchQueue
<1>2. RequestsInv /\ UNCHANGED vars => RequestsInv'
  <2>. SUFFICES ASSUME RequestsInv, UNCHANGED vars PROVE RequestsInv'
    OBVIOUS
  <2>1. SettlementInv'
    BY StutterOK DEF RequestsInv
  <2>. QED
    BY <2>1 DEF RequestsInv, RequestsMatchQueue, Pending, vars, taskVars, queueVars,
                envVars
<1>3. RequestsInv /\ [Next]_vars => RequestsInv'
  BY <1>2, MatchUserStep, MatchKeeper, MatchGovernance, MatchEnvironment DEF Next
<1>. QED
  BY <1>1, <1>3, PTL DEF Spec

\* The queue and redeemMapping describe the same requests: no request is lost,
\* queued twice or hidden behind a stale index, unless the coverage crosses the
\* threshold during a settlement or governance restarts a running one.
THEOREM RequestsAlwaysMatchQueue ==
    ASSUME Undisturbed
    PROVE  Spec => []RequestsMatchQueue
<1>1. RequestsInv => RequestsMatchQueue
  BY DEF RequestsInv
<1>. QED
  BY <1>1, RequestsInductive, PTL

-----------------------------------------------------------------------------
(* The settlement sends on every commission once, and keeps what            *)
(* RedeemRequests promises.                                                 *)

(* ---------------------------------------------------------------------- *)
(* The commissions.                                                       *)

\* Neither a stall nor a restart of a running settlement: the assumption of
\* CommissionsAlwaysSettled.  The coverage may move as it likes.
NeitherStalledNorAborted == Disturbances \cap {"stall", "abort"} = {}

\* What makes CommissionsSettled inductive: no settlement stays finished, and
\* nothing is final before the last transaction.
CommissionsInv ==
    /\ SettlementInv
    /\ autoRestart = TRUE /\ group # "Finished"
    /\ group = "Running" => settlementInfo.finalCommissionAmount = NoCommission
    /\ CommissionsSettled

LEMMA CommissionsKeeper ==
    ASSUME CommissionsInv, Keeper
    PROVE  CommissionsInv'
<1>1. PICK steps \in Steps : RunSettlement(steps)
  BY DEF Keeper
<1>2. PICK mode \in ModesAfter(Delevered(steps)), paidOut \in [Users -> Balances] :
        Settle(Delevered(steps), Redeemed(steps, mode), InitializeSettlement, paidOut)
  BY <1>1, RunSettlementSettles
<1>. DEFINE r == Redeemed(steps, mode)
            info == InitializeSettlement
            partial == [u \in Users |-> info.partialCommissionAmount[u]
                                          + CalcCommission(paidOut[u])]
            final == IF r.state = "Finished" THEN partial ELSE info.finalCommissionAmount
<1>3. SettlementInv' /\ TypeOK /\ autoRestart' = TRUE
  BY <1>1, KeeperOK, RunSettlementSettles DEF CommissionsInv, SettlementInv, TasksInv
<1>4. group' = IF r.state = "Finished" THEN "Ready" ELSE "Running"
  BY <1>2 DEF Settle, FinishGroup, CommissionsInv
<1>5. /\ settlementInfo'.partialCommissionAmount = partial
      /\ settlementInfo'.finalCommissionAmount = final
      /\ \A u \in Users : owed'[u] = owed[u] + CalcCommission(paidOut[u]) - final[u]
  BY <1>2 DEF Settle, CollectCommissions
<1>. HIDE DEF r
<1>6. group \in {"Ready", "Running"}
  BY <1>3 DEF CommissionsInv, TypeOK, ExecutionState
<1>7. info.finalCommissionAmount = NoCommission
  BY <1>6 DEF CommissionsInv, InitializeSettlement
<1>8. /\ info.partialCommissionAmount \in [Users -> Nat]
      /\ \A u \in Users : owed[u] = info.partialCommissionAmount[u]
  <2>1. CASE group = "Ready"
    BY <2>1 DEF CommissionsInv, CommissionsSettled, InitializeSettlement, NoCommission
  <2>2. CASE group = "Running"
    BY <1>3, <2>2 DEF CommissionsInv, CommissionsSettled, InitializeSettlement, TypeOK,
                      Commission
  <2>. QED
    BY <1>6, <2>1, <2>2
<1>. HIDE DEF info
<1>9. \A u \in Users : CalcCommission(paidOut[u]) \in Nat
  BY CommissionAndRest, SettlementConstants DEF Balances
<1>10. CASE r.state = "Finished"
  <2>1. \A u \in Users : owed'[u] = 0
    BY <1>5, <1>8, <1>9, <1>10
  <2>. QED
    BY <1>3, <1>4, <1>10, <2>1 DEF CommissionsInv, CommissionsSettled
<1>11. CASE r.state # "Finished"
  <2>1. \A u \in Users : owed'[u] = partial[u]
    BY <1>5, <1>7, <1>8, <1>9, <1>11 DEF NoCommission
  <2>2. settlementInfo'.finalCommissionAmount = NoCommission
    BY <1>5, <1>7, <1>11
  <2>. QED
    BY <1>3, <1>4, <1>5, <1>11, <2>1, <2>2 DEF CommissionsInv, CommissionsSettled
<1>. QED
  BY <1>10, <1>11

\* Between settlements no commission is owed, while one runs exactly what it has
\* accumulated: each commission is sent once, unless the settlement is stalled
\* or a running one is restarted.
THEOREM CommissionsAlwaysSettled ==
    ASSUME NeitherStalledNorAborted
    PROVE  Spec => []CommissionsSettled
<1>1. Init => CommissionsInv
  BY InitOK DEF Init, CommissionsInv, CommissionsSettled, NoCommission
<1>2. ASSUME CommissionsInv, [Next]_vars PROVE CommissionsInv'
  <2>1. CASE UserStep
    <3>1. UNCHANGED <<group, autoRestart, settlementInfo, owed>>
      BY <2>1 DEF UserStep, RedeemStableTokenRequest, AlterRedeemRequestAmount, taskVars
    <3>. QED
      BY <1>2, <2>1, <3>1, UserStepOK DEF CommissionsInv, CommissionsSettled
  <2>2. CASE Keeper
    BY <1>2, <2>2, CommissionsKeeper
  <2>3. CASE Governance
    <3>1. /\ UNCHANGED <<settlementInfo, owed>>
          /\ autoRestart' \in {autoRestart, TRUE}
          /\ group' = group \/ (group' = "Ready" /\ group # "Running")
      BY <2>3 DEF Governance, SetSettlementToStall, RestartSettlementState, FixTasksPointer,
                  SetBlockSpan, SetMaxAbsoluteOperation, taskVars, NeitherStalledNorAborted
    <3>. QED
      BY <1>2, <2>3, <3>1, GovernanceOK DEF CommissionsInv, CommissionsSettled
  <2>4. CASE Environment
    <3>1. UNCHANGED <<group, autoRestart, settlementInfo, owed>>
      BY <2>4 DEF Environment, NewBlock, Trade, BalanceChange, CoverageMove,
                  EvalBucketLiquidation, Liquidate, PauseOrUnpause, taskVars
    <3>. QED
      BY <1>2, <2>4, <3>1, EnvironmentOK DEF CommissionsInv, CommissionsSettled
  <2>5. CASE UNCHANGED vars
    <3>1. UNCHANGED <<group, autoRestart, settlementInfo, owed>>
      BY <2>5 DEF vars, taskVars
    <3>. QED
      BY <1>2, <2>5, <3>1, StutterOK DEF CommissionsInv, CommissionsSettled
  <2>. QED
    BY <1>2, <2>1, <2>2, <2>3, <2>4, <2>5 DEF Next
<1>3. CommissionsInv => CommissionsSettled
  BY DEF CommissionsInv
<1>. QED
  BY <1>1, <1>2, <1>3, PTL DEF Spec

(* ---------------------------------------------------------------------- *)
(* The promise.                                                           *)

\* The state of RedeemRequests.
Redeemers == {u \in Users : redeemMapping[u].activeRedeemer}
Asked == [u \in Users |-> StableTokenAmountToRedeem(u)]
Phase == IF group # "Running" THEN group
         ELSE IF redemption.state = "Running" THEN "Serving" ELSE "Closed"

\* A user has one pending slot, so a step redeems what his one request asks.
LEMMA RequestedOnce ==
    ASSUME TypeOK, RequestsMatchQueue, NEW indices \in SUBSET Pending, NEW u \in Users
    PROVE  /\ (\E i \in indices : redeemQueue[i].who = u) =>
                 /\ redeemMapping[u].activeRedeemer
                 /\ Requested(u, indices) = StableTokenAmountToRedeem(u)
           /\ ~(\E i \in indices : redeemQueue[i].who = u) => Requested(u, indices) = 0
<1>. DEFINE f == [i \in indices |-> redeemQueue[i].amount]
            mine == {i \in indices : redeemQueue[i].who = u}
<1>1. Requested(u, indices) = SumFunctionOnSet(f, mine)
  BY DEF Requested
<1>2. CASE ~(\E i \in indices : redeemQueue[i].who = u)
  <2>1. mine = {}
    BY <1>2
  <2>. QED
    BY <1>1, <1>2, <2>1, SumOfNone
<1>3. ASSUME NEW i \in indices, redeemQueue[i].who = u
      PROVE  redeemMapping[u].activeRedeemer
               /\ Requested(u, indices) = StableTokenAmountToRedeem(u)
  <2>1. redeemMapping[u] = [index |-> i, activeRedeemer |-> TRUE]
    BY <1>3 DEF RequestsMatchQueue
  <2>2. ASSUME NEW j \in mine PROVE j = i
    <3>1. redeemMapping[u] = [index |-> j, activeRedeemer |-> TRUE]
      BY DEF RequestsMatchQueue
    <3>. QED
      BY <2>1, <3>1
  <2>3. mine = {i}
    BY <1>3, <2>2
  <2>4. f[i] = redeemQueue[i].amount /\ f[i] \in Int
    BY SettlementConstants DEF TypeOK, Pending, Request, Amounts
  <2>. HIDE DEF f, mine
  <2>5. SumFunctionOnSet(f, mine) = f[i]
    BY <2>3, <2>4, SumOfOne
  <2>. QED
    BY <1>1, <2>1, <2>4, <2>5 DEF StableTokenAmountToRedeem
<1>. QED
  BY <1>2, <1>3

\* The users whose requests are at these indices.
ServedBy(indices) == {u \in Users : \E i \in indices : redeemQueue[i].who = u}

\* Burning and closing at pending indices is serving their users, and no others.
LEMMA IndicesServe ==
    ASSUME TypeOK, RequestsMatchQueue, NEW indices \in SUBSET Pending,
           NEW paidOut \in [Users -> Balances],
           Burn(indices, paidOut), CloseRequests(indices)
    PROVE  /\ ServedBy(indices) \subseteq Redeemers
           /\ \A u \in ServedBy(indices) :
                 paidOut[u] \in {0, IF balance[u] <= Asked[u] THEN balance[u] ELSE Asked[u]}
           /\ \A u \in Users \ ServedBy(indices) : paidOut[u] = 0
           /\ Redeemers' = Redeemers \ ServedBy(indices)
           /\ Asked' = [u \in Users |-> IF u \in ServedBy(indices) THEN 0 ELSE Asked[u]]
           /\ balance' = [u \in Users |-> balance[u] - paidOut[u]]
<1>. DEFINE S == ServedBy(indices)
<1>1. \A u \in Users : Asked[u] = StableTokenAmountToRedeem(u)
  BY DEF Asked
<1>2. /\ \A u \in S : u \in Redeemers /\ Requested(u, indices) = Asked[u]
      /\ \A u \in Users \ S : Requested(u, indices) = 0
  BY <1>1, RequestedOnce DEF ServedBy, Redeemers
<1>3. \A u \in Users : paidOut[u] \in RedeemedFrom(u, indices)
  BY DEF Burn
<1>4. \A u \in S :
         paidOut[u] \in {0, IF balance[u] <= Asked[u] THEN balance[u] ELSE Asked[u]}
  BY <1>2, <1>3 DEF RedeemedFrom, Redeemers
<1>5. \A u \in Users \ S : paidOut[u] = 0
  <2>. SUFFICES ASSUME NEW u \in Users \ S PROVE paidOut[u] = 0
    OBVIOUS
  <2>1. Requested(u, indices) = 0 /\ balance[u] \in Nat
    BY <1>2, SettlementConstants DEF TypeOK, Balances
  <2>. QED
    BY <1>3, <2>1 DEF RedeemedFrom
<1>6. \A u \in Users :
         redeemMapping'[u] = IF u \in S THEN [redeemMapping[u] EXCEPT !.activeRedeemer = FALSE]
                             ELSE redeemMapping[u]
  BY DEF CloseRequests, ServedBy
<1>7. redeemMapping \in [Users -> [index : Nat, activeRedeemer : BOOLEAN]]
  BY DEF TypeOK
<1>8. \A u \in Users : redeemMapping'[u].activeRedeemer <=>
                          redeemMapping[u].activeRedeemer /\ u \notin S
  BY <1>6, <1>7
<1>9. Redeemers' = Redeemers \ S
  BY <1>8 DEF Redeemers
<1>10. ASSUME NEW u \in Users
       PROVE  StableTokenAmountToRedeem(u)' = IF u \in S THEN 0 ELSE Asked[u]
  <2>1. CASE ~redeemMapping'[u].activeRedeemer
    BY <1>1, <1>8, <2>1 DEF StableTokenAmountToRedeem
  <2>2. CASE redeemMapping'[u].activeRedeemer
    <3>1. /\ u \notin S /\ redeemMapping'[u] = redeemMapping[u]
          /\ redeemMapping[u].activeRedeemer
      BY <1>6, <1>8, <2>2
    <3>2. /\ redeemMapping[u].index \in Pending
          /\ redeemQueue[redeemMapping[u].index].who = u
      BY <3>1 DEF RequestsMatchQueue
    <3>3. redeemMapping[u].index \in DOMAIN redeemQueue \ indices
      BY <3>1, <3>2 DEF ServedBy, TypeOK, Pending
    <3>4. redeemQueue'[redeemMapping[u].index] = redeemQueue[redeemMapping[u].index]
      BY <3>3 DEF CloseRequests
    <3>. QED
      BY <1>1, <3>1, <3>4 DEF StableTokenAmountToRedeem
  <2>. QED
    BY <2>1, <2>2
<1>11. Asked' = [u \in Users |-> IF u \in S THEN 0 ELSE Asked[u]]
  BY <1>10 DEF Asked
<1>12. balance' = [u \in Users |-> balance[u] - paidOut[u]]
  BY DEF Burn
<1>. QED
  BY <1>2, <1>4, <1>5, <1>9, <1>11, <1>12

\* A redemption that begins and does not end with the call has served somebody.
LEMMA RedemptionAdvances ==
    ASSUME TasksInv, NEW steps \in Nat, NEW mode \in BOOLEAN, redemption.state = "Ready",
           Redeemed(steps, mode).state = "Running"
    PROVE  Redeemed(steps, mode).currentStep > 0
<1>. DEFINE left == LeftSteps(steps)
            count == StableTokenRedemptionStepCount(mode)
            r == Redeemed(steps, mode)
<1>1. /\ left \in Nat /\ count \in Nat
      /\ TaskOK(redemption) /\ redemption.currentStep = 0
  BY DeleveredOK DEF TasksInv, TypeOK, TaskOK, StableTokenRedemptionStepCount
<1>2. left > 0 /\ r = ExecuteTask(redemption, left, count)
  BY DEF Redeemed
<1>3. left \in Nat \ {0}
  BY <1>1, <1>2
<1>. HIDE DEF left, count, r
<1>4. /\ TaskOK(r)
      /\ r.state # "Finished" => Consumed(redemption, r) = left
  BY <1>1, <1>2, <1>3, ExecuteTaskOK
<1>5. r.state = "Running"
  BY DEF r
<1>6. r.currentStep \in Nat
  BY <1>4 DEF TaskOK, Task
<1>7. r.currentStep = left
  BY <1>1, <1>4, <1>5, <1>6 DEF Consumed
<1>8. r.currentStep > 0
  BY <1>3, <1>7
<1>. QED
  BY <1>8 DEF r

abstract == <<Redeemers, Asked, balance, Phase, protected>>

\* A transaction of the settlement serves some, serves the rest, keeps all, or
\* only opens what had stayed finished.
LEMMA KeeperKeepsPromise ==
    ASSUME Undisturbed, RequestsInv, Keeper
    PROVE  Promise!Next \/ UNCHANGED abstract
<1>1. PICK steps \in Steps : RunSettlement(steps)
  BY DEF Keeper
<1>2. PICK mode \in ModesAfter(Delevered(steps)), paidOut \in [Users -> Balances] :
        /\ protected' = mode
        /\ Settle(Delevered(steps), Redeemed(steps, mode), InitializeSettlement, paidOut)
  BY <1>1, RunSettlementSettles
<1>. DEFINE d == Delevered(steps)
            r == Redeemed(steps, mode)
            indices == StepsRun(redemption, r)
            info == InitializeSettlement
<1>3. mode = protected /\ mode \in BOOLEAN /\ steps \in Nat
  BY SettlementConstants DEF ModesAfter, Undisturbed, RequestsInv, SettlementInv,
                             TasksInv, TypeOK
<1>4. SettlementInv /\ TypeOK /\ TasksInv /\ TasksInOrder
  BY DEF RequestsInv, SettlementInv, TasksInv
<1>5. /\ TaskOK(r) /\ TaskOK(redemption)
      /\ redemption.state = "Finished" => r = redemption
      /\ redemption.state # "Ready" => r.state # "Ready"
      /\ r.currentStep >= redemption.currentStep
      /\ redemption.state # "Finished" => r.currentStep <= redeemQueueLength
      /\ redemption.state = "Ready" /\ mode =>
           r.state # "Running" /\ r.currentStep = 0
      /\ redemption.state = "Ready" /\ r.state = "Running" => r.currentStep > 0
  BY <1>3, <1>4, RedeemedOK, RedemptionAdvances DEF TasksInv
<1>6. /\ Burn(indices, paidOut) /\ CloseRequests(indices)
      /\ ClearQueue(r, info) /\ FinishGroup(d, r)
  BY <1>2 DEF Settle
<1>. HIDE DEF r, d
<1>7. /\ redeemQueueLength \in Nat /\ group \in ExecutionState
      /\ redemption.currentStep \in Nat /\ r.currentStep \in Nat
      /\ redemption.state \in ExecutionState /\ r.state \in ExecutionState
      /\ redemption.state = "Ready" => redemption.currentStep = 0
      /\ redemption.state = "Running" => group = "Running"
      /\ group = "Finished" <=> redemption.state = "Finished"
  BY <1>4, <1>5 DEF TypeOK, TaskOK, Task, TasksInOrder, ExecutionState
<1>8. indices = redemption.currentStep .. r.currentStep - 1
  BY DEF StepsRun
<1>. HIDE DEF indices
<1>9. indices \subseteq Pending
  BY <1>5, <1>7, <1>8 DEF Pending, ExecutionState
<1>10. PICK S \in SUBSET Users : S = ServedBy(indices)
  BY DEF ServedBy
<1>11. /\ S \subseteq Redeemers
       /\ \A u \in S :
             paidOut[u] \in {0, IF balance[u] <= Asked[u] THEN balance[u] ELSE Asked[u]}
       /\ \A u \in Users \ S : paidOut[u] = 0
       /\ Redeemers' = Redeemers \ S
       /\ Asked' = [u \in Users |-> IF u \in S THEN 0 ELSE Asked[u]]
       /\ balance' = [u \in Users |-> balance[u] - paidOut[u]]
  BY <1>4, <1>6, <1>9, <1>10, IndicesServe DEF RequestsInv
<1>12. Promise!Serve(S, paidOut)
  BY <1>11 DEF Promise!Serve, Redeemers, Asked
<1>13. S = {} => UNCHANGED <<Redeemers, Asked, balance>>
  <2>. SUFFICES ASSUME S = {} PROVE UNCHANGED <<Redeemers, Asked, balance>>
    OBVIOUS
  <2>1. /\ \A u \in Users : balance[u] \in Nat /\ balance[u] - paidOut[u] = balance[u]
        /\ balance \in [Users -> Balances]
    BY <1>4, <1>11, SettlementConstants DEF TypeOK, Balances
  <2>2. balance' = balance
    BY <1>11, <2>1
  <2>3. Asked' = Asked
    BY <1>11 DEF Asked
  <2>. QED
    BY <1>11, <2>2, <2>3
<1>14. protected' = protected
  BY <1>2, <1>3
<1>15. indices = {} => S = {}
  BY <1>10 DEF ServedBy
<1>16. CASE group = "Finished"
  <2>1. redemption.state = "Finished" /\ r = redemption
    BY <1>5, <1>7, <1>16
  <2>2. indices = {}
    BY <1>7, <1>8, <2>1
  <2>3. group' \in {"Ready", "Finished"} /\ Phase' = group' /\ Phase = "Finished"
    BY <1>6, <1>16, <2>1 DEF FinishGroup, Phase
  <2>4. UNCHANGED <<Redeemers, Asked, balance, protected>>
    BY <1>13, <1>14, <1>15, <2>2
  <2>5. CASE group' = "Finished"
    BY <2>3, <2>4, <2>5 DEF abstract
  <2>6. CASE group' = "Ready"
    BY <2>3, <2>4, <2>6 DEF Promise!Next, Promise!Reopen, Redeemers, Asked, Phase
  <2>. QED
    BY <2>3, <2>5, <2>6
<1>17. CASE group # "Finished"
  <2>1. /\ redemption.state \in {"Ready", "Running"} /\ group \in {"Ready", "Running"}
        /\ Phase \in {"Ready", "Closed", "Serving"}
        /\ Phase = "Serving" <=> redemption.state = "Running"
    BY <1>7, <1>17 DEF Phase, ExecutionState
  <2>2. CASE r.state # "Finished"
    <3>1. group' = "Running" /\ redemption' = r
      BY <1>6, <2>2 DEF FinishGroup
    <3>2. Phase' = IF r.state = "Running" THEN "Serving" ELSE "Closed"
      BY <3>1 DEF Phase
    <3>3. Phase' = IF Phase = "Serving" \/ S # {} THEN "Serving" ELSE "Closed"
      <4>1. CASE r.state = "Ready"
        <5>1. redemption.state = "Ready" /\ r.currentStep = 0
          BY <1>5, <4>1 DEF TaskOK
        <5>2. S = {}
          BY <1>7, <1>8, <1>15, <5>1
        <5>. QED
          BY <2>1, <3>2, <4>1, <5>1, <5>2
      <4>2. CASE r.state = "Running" /\ redemption.state = "Ready"
        <5>1. 0 \in indices
          BY <1>5, <1>7, <1>8, <4>2
        <5>2. redeemQueue[0].who \in S
          BY <1>4, <1>9, <1>10, <5>1 DEF ServedBy, TypeOK, Pending, Request
        <5>. QED
          BY <3>2, <4>2, <5>2
      <4>3. CASE r.state = "Running" /\ redemption.state = "Running"
        BY <2>1, <3>2, <4>3
      <4>. QED
        BY <1>7, <2>1, <2>2, <4>1, <4>2, <4>3 DEF ExecutionState
    <3>4. Promise!ServeSome(S, paidOut)
      BY <1>12, <1>14, <2>1, <3>3 DEF Promise!ServeSome, Phase
    <3>5. S \in SUBSET {u \in Users : redeemMapping[u].activeRedeemer}
      BY <1>11 DEF Redeemers
    <3>6. \E paid \in [Users -> 0 .. MaxBalance] :
             \E T \in SUBSET {u \in Users : redeemMapping[u].activeRedeemer} :
                Promise!ServeSome(T, paid)
      BY <3>4, <3>5 DEF Balances
    <3>. QED
      BY <3>6 DEF Promise!Next
  <2>3. CASE r.state = "Finished" /\ ~protected
    <3>1. JustFinished(redemption, r) /\ ~info.isProtectedMode
      BY <2>1, <2>3 DEF JustFinished, InitializeSettlement, RequestsInv
    <3>2. Pending' = {}
      BY <1>6, <3>1 DEF ClearQueue, Pending
    <3>3. RequestsMatchQueue'
      BY MatchKeeper DEF RequestsInv
    <3>4. Redeemers' = {}
      BY <3>2, <3>3 DEF Redeemers, RequestsMatchQueue
    <3>5. S = Redeemers
      BY <1>11, <3>4
    <3>6. Phase' \in {"Ready", "Finished"}
      BY <1>6, <2>3 DEF FinishGroup, Phase
    <3>7. Promise!ServeAll(paidOut)
      BY <1>12, <1>14, <2>1, <3>5, <3>6 DEF Promise!ServeAll, Redeemers, Phase
    <3>. QED
      BY <3>7 DEF Promise!Next, Balances
  <2>4. CASE r.state = "Finished" /\ protected
    <3>1. redemption.state = "Ready"
      BY <2>1, <2>4 DEF RequestsInv
    <3>2. S = {}
      BY <1>3, <1>5, <1>7, <1>8, <1>15, <2>4, <3>1
    <3>3. Phase' \in {"Ready", "Finished"} /\ Phase \in {"Ready", "Closed"}
      BY <1>6, <2>1, <2>4, <3>1 DEF FinishGroup, Phase
    <3>4. UNCHANGED <<Redeemers, Asked, balance, protected>>
      BY <1>13, <1>14, <3>2
    <3>5. Promise!KeepAll
      BY <2>4, <3>3, <3>4 DEF Promise!KeepAll, Redeemers, Asked, Phase
    <3>. QED
      BY <3>5 DEF Promise!Next
  <2>. QED
    BY <2>2, <2>3, <2>4
<1>. QED
  BY <1>16, <1>17

\* A user's request, or a change of it, asks for an amount.
LEMMA UserStepKeepsPromise ==
    ASSUME RequestsInv, UserStep
    PROVE  Promise!Next
<1>1. PICK u \in Users, delta \in Amounts :
        \/ RedeemStableTokenRequest(u, delta)
        \/ \E isAddition \in BOOLEAN : AlterRedeemRequestAmount(u, isAddition, delta)
  BY DEF UserStep
<1>2. /\ group = "Ready" /\ redemption.state = "Ready"
      /\ UNCHANGED <<group, redemption, balance, protected>>
      /\ TypeOK /\ RequestsMatchQueue
  BY <1>1 DEF RedeemStableTokenRequest, AlterRedeemRequestAmount, WhenSettlementReady,
              taskVars, envVars, RequestsInv, SettlementInv, TasksInv, TasksInOrder,
              TypeOK, Task, ExecutionState
<1>3. /\ Pending = 0 .. redeemQueueLength - 1 /\ Pending \subseteq DOMAIN redeemQueue
      /\ redeemQueueLength \in Nat
      /\ \A v \in Users : redeemMapping[v].activeRedeemer =>
            /\ redeemMapping[v].index \in Pending
            /\ redeemQueue[redeemMapping[v].index].who = v
      /\ redeemMapping \in [Users -> [index : Nat, activeRedeemer : BOOLEAN]]
      /\ \A i \in DOMAIN redeemQueue : redeemQueue[i] \in Request
  BY <1>2 DEF Pending, TypeOK, RequestsMatchQueue
<1>4. PICK amount \in 0 .. MaxRequest :
        /\ redeemMapping'[u].activeRedeemer /\ redeemQueue'[redeemMapping'[u].index].amount = amount
        /\ \A v \in Users \ {u} :
              /\ redeemMapping'[v] = redeemMapping[v]
              /\ redeemMapping[v].activeRedeemer =>
                    redeemQueue'[redeemMapping[v].index] = redeemQueue[redeemMapping[v].index]
  <2>1. CASE PushRequest(u, delta)
    <3>1. /\ redeemMapping'[u] = [index |-> redeemQueueLength, activeRedeemer |-> TRUE]
          /\ redeemQueue'[redeemQueueLength] = [who |-> u, amount |-> delta]
          /\ \A v \in Users \ {u} : redeemMapping'[v] = redeemMapping[v]
          /\ \A i \in Pending : redeemQueue'[i] = redeemQueue[i]
      BY <1>3, <2>1 DEF PushRequest
    <3>. QED
      BY <1>3, <3>1 DEF Amounts
  <2>2. ASSUME NEW isAddition \in BOOLEAN, AlterRequest(u, isAddition, delta)
        PROVE  \E amount \in 0 .. MaxRequest :
                 /\ redeemMapping'[u].activeRedeemer
                 /\ redeemQueue'[redeemMapping'[u].index].amount = amount
                 /\ \A v \in Users \ {u} :
                       /\ redeemMapping'[v] = redeemMapping[v]
                       /\ redeemMapping[v].activeRedeemer =>
                             redeemQueue'[redeemMapping[v].index]
                                = redeemQueue[redeemMapping[v].index]
    <3>. DEFINE index == redeemMapping[u].index
                new == AlteredAmount(redeemQueue[index].amount, isAddition, delta)
    <3>1. /\ redeemMapping[u].activeRedeemer /\ redeemQueue[index].who = u
          /\ new \in 0 .. MaxRequest
          /\ redeemQueue' = [redeemQueue EXCEPT ![index].amount = new]
          /\ redeemMapping' = redeemMapping
      BY <2>2 DEF AlterRequest, Amounts
    <3>. HIDE DEF new
    <3>2. index \in DOMAIN redeemQueue /\ redeemQueue[index] \in Request
      BY <1>3, <3>1
    <3>3. redeemQueue'[index].amount = new
      BY <3>1, <3>2 DEF Request
    <3>4. \A i \in DOMAIN redeemQueue \ {index} : redeemQueue'[i] = redeemQueue[i]
      BY <3>1
    <3>5. \A v \in Users \ {u} : redeemMapping[v].activeRedeemer =>
                                   redeemMapping[v].index \in DOMAIN redeemQueue \ {index}
      BY <1>3, <3>1
    <3>6. new \in 0 .. MaxRequest
      BY <3>1
    <3>. QED
      BY <3>1, <3>3, <3>4, <3>5, <3>6
  <2>. QED
    BY <1>1, <2>1, <2>2 DEF RedeemStableTokenRequest, AlterRedeemRequestAmount
<1>5. Redeemers' = Redeemers \cup {u}
  BY <1>4 DEF Redeemers
<1>6. \A v \in Users : StableTokenAmountToRedeem(v)' =
                          IF v = u THEN amount ELSE StableTokenAmountToRedeem(v)
  BY <1>4 DEF StableTokenAmountToRedeem
<1>7. Asked' = [Asked EXCEPT ![u] = amount]
  BY <1>6 DEF Asked
<1>8. Phase = "Ready" /\ Phase' = "Ready"
  BY <1>2 DEF Phase
<1>9. Promise!Ask(u, amount)
  BY <1>2, <1>5, <1>7, <1>8 DEF Promise!Ask, Redeemers, Asked, Phase
<1>. QED
  BY <1>4, <1>9 DEF Promise!Next

LEMMA GovernanceKeepsPromise ==
    ASSUME Undisturbed, RequestsInv, Governance
    PROVE  Promise!Next \/ UNCHANGED abstract
<1>1. UNCHANGED <<redeemMapping, redeemQueue, balance, protected>>
  BY DEF Governance, SetSettlementToStall, RestartSettlementState, FixTasksPointer,
         SetBlockSpan, SetMaxAbsoluteOperation, envVars, queueVars
<1>2. UNCHANGED <<Redeemers, Asked, balance, protected>>
  BY <1>1 DEF Redeemers, Asked, StableTokenAmountToRedeem
<1>3. CASE RestartSettlementState
  <2>1. group \in {"Ready", "Finished"} /\ group' = "Ready"
    BY <1>3 DEF RestartSettlementState, Undisturbed, RequestsInv, SettlementInv, TasksInv,
                TypeOK, ExecutionState
  <2>2. Phase = group /\ Phase' = "Ready"
    BY <2>1 DEF Phase
  <2>3. CASE group = "Ready"
    BY <1>2, <2>2, <2>3 DEF abstract
  <2>4. CASE group = "Finished"
    <3>1. Promise!Reopen
      BY <1>2, <2>2, <2>4 DEF Promise!Reopen, Redeemers, Asked, Phase
    <3>. QED
      BY <3>1 DEF Promise!Next
  <2>. QED
    BY <2>1, <2>3, <2>4
<1>4. CASE ~RestartSettlementState
  <2>1. UNCHANGED <<group, redemption>>
    BY <1>4 DEF Governance, SetSettlementToStall, FixTasksPointer, SetBlockSpan,
                SetMaxAbsoluteOperation, taskVars
  <2>2. UNCHANGED Phase
    BY <2>1 DEF Phase
  <2>. QED
    BY <1>2, <2>2 DEF abstract
<1>. QED
  BY <1>3, <1>4

LEMMA EnvironmentKeepsPromise ==
    ASSUME Undisturbed, RequestsInv, Environment
    PROVE  Promise!Next \/ UNCHANGED abstract
<1>1. UNCHANGED <<group, redemption, redeemMapping, redeemQueue>>
  BY DEF Environment, NewBlock, Trade, BalanceChange, CoverageMove, EvalBucketLiquidation,
         Liquidate, PauseOrUnpause, taskVars, queueVars
<1>2. UNCHANGED <<Redeemers, Asked, Phase>>
  BY <1>1 DEF Redeemers, Asked, StableTokenAmountToRedeem, Phase
<1>3. ASSUME NEW u \in Users, NEW b \in Balances, BalanceChange(u, b)
      PROVE  Promise!Next
  <2>1. Promise!BalanceChange(u, b)
    BY <1>2, <1>3 DEF BalanceChange, Promise!BalanceChange, Redeemers, Asked, Phase
  <2>. QED
    BY <2>1 DEF Promise!Next, Balances
<1>4. CASE CoverageMove
  <2>1. protected' = ~protected /\ balance' = balance
    BY <1>4 DEF CoverageMove
  <2>2. Phase \in {"Ready", "Finished"}
    BY <1>4 DEF CoverageMove, Undisturbed, Phase, RequestsInv, SettlementInv, TasksInv,
                TypeOK, ExecutionState
  <2>3. Promise!CoverageMove
    BY <1>2, <2>1, <2>2 DEF Promise!CoverageMove, Redeemers, Asked, Phase
  <2>. QED
    BY <2>3 DEF Promise!Next
<1>5. CASE \/ NewBlock \/ EvalBucketLiquidation \/ Liquidate \/ PauseOrUnpause
           \/ \E amount \in Amounts \ {0} : Trade(amount)
  <2>1. UNCHANGED <<balance, protected>>
    BY <1>5 DEF NewBlock, Trade, EvalBucketLiquidation, Liquidate, PauseOrUnpause
  <2>. QED
    BY <1>2, <2>1 DEF abstract
<1>. QED
  BY <1>3, <1>4, <1>5 DEF Environment

\* Queue, indices and steps implement the promise made to the holders of stable
\* tokens, stalls included, unless the coverage crosses the threshold during a
\* settlement or governance restarts a running one.
THEOREM SettlementKeepsPromise ==
    ASSUME Undisturbed
    PROVE  Spec => ImplementsRedeemRequests
<1>1. Init => Promise!Init
  <2>. SUFFICES ASSUME Init PROVE Promise!Init
    OBVIOUS
  <2>1. \A u \in Users : ~redeemMapping[u].activeRedeemer
    BY DEF Init
  <2>2. Redeemers = {} /\ Asked = [u \in Users |-> 0] /\ Phase = "Ready"
    BY <2>1 DEF Init, Redeemers, Asked, StableTokenAmountToRedeem, Phase
  <2>. QED
    BY <2>2 DEF Init, Promise!Init, Redeemers, Asked, Phase, Balances
<1>2. ASSUME RequestsInv, [Next]_vars PROVE Promise!Next \/ UNCHANGED abstract
  <2>1. CASE UNCHANGED vars
    BY <2>1 DEF vars, taskVars, queueVars, envVars, abstract, Redeemers, Asked, Phase,
                StableTokenAmountToRedeem
  <2>. QED
    BY <1>2, <2>1, UserStepKeepsPromise, KeeperKeepsPromise, GovernanceKeepsPromise,
       EnvironmentKeepsPromise DEF Next
<1>3. RequestsInv /\ [Next]_vars => [Promise!Next]_(Promise!vars)
  BY <1>2 DEF abstract, Promise!vars, Redeemers, Asked, Phase
<1>. QED
  BY <1>1, <1>3, RequestsInductive, PTL DEF Spec, ImplementsRedeemRequests, Promise!Spec

=============================================================================
