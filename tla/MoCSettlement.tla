--------------------------- MODULE MoCSettlement ----------------------------
(***************************************************************************)
(* The settlement of contracts/MoCSettlement.sol, driven through MoC.sol:  *)
(* users queue requests to redeem stable tokens, and every blockSpan       *)
(* blocks anyone may run the settlement, a group of two tasks              *)
(* (deleveraging, then the redemption of the queue) executed in as many    *)
(* transactions as it takes.                                               *)
(*                                                                         *)
(* One action is one transaction: a transaction that reverts changes       *)
(* nothing and so is no step.  Prices are abstracted to a constant rate,   *)
(* and to whether the coverage is at or below the protected threshold,     *)
(* which is what the settlement reads of them.  block.number is kept as    *)
(* its distance to lastProcessedBlock and to the last operation of the     *)
(* flux capacitor, the only forms in which the code uses it.               *)
(*                                                                         *)
(* The flux capacitor is that of module FluxCapacitor.  A redemption it    *)
(* rejects reverts the whole call of runSettlement.                        *)
(***************************************************************************)
EXTENDS PartialExecution, FiniteSets, Functions

CONSTANTS
    Users,            \* addresses that hold stable tokens
    MaxBalance,       \* bound on a user's stable tokens
    MaxRequest,       \* bound on a request's amount
    MaxQueue,         \* bound on redeemQueue.length
    MaxPositions,     \* bound on the legacy leveraged (X2) positions
    MaxLag,           \* bound on block.number - lastProcessedBlock
    BlockSpans,       \* values governance may give blockSpan
    Steps,            \* values callers pass to runSettlement
    ReserveRate,      \* reserve tokens a stable token is redeemed for
    CommissionRate,   \* of REDEEM_STABLETOKEN_FEES_RESERVE, over Precision
    Precision,
    FluxLimits,       \* values governance may give maxAbsoluteOperation
    MaxOperationalDifference, DecayBlockSpan,  \* set once here, see FluxCapacitor
    Disturbances      \* what the environment may do, see Disturbance

\* What may happen around a settlement besides users and keepers:
\*   flip      the coverage crosses the protected threshold mid-settlement
\*   abort     governance restarts a settlement that is running
\*   restart   governance restarts a settlement that is not running
\*   stall     governance asks the settlement to stay finished
\*   fix       someone calls the public fixTasksPointer
\*   span      governance changes blockSpan
\*   limit     governance changes maxAbsoluteOperation
\*   trade     others mint and redeem, which fills the flux capacitor
\*   pause     the stopper pauses and unpauses MoC
\*   liquidate the system is liquidated
Disturbance == {"flip", "abort", "restart", "stall", "fix", "span",
                "limit", "trade", "pause", "liquidate"}

ASSUME SettlementConstants ==
    /\ IsFiniteSet(Users)
    /\ MaxBalance \in Nat /\ MaxRequest \in Nat /\ MaxQueue \in Nat
    /\ MaxPositions \in Nat /\ MaxLag \in Nat
    /\ BlockSpans \subseteq Nat /\ BlockSpans # {}
    /\ Steps \subseteq Nat
    /\ ReserveRate \in Nat
    /\ CommissionRate \in Nat /\ Precision \in Nat \ {0}
    /\ CommissionRate <= Precision
    /\ FluxLimits \subseteq Nat /\ FluxLimits # {}
    /\ MaxOperationalDifference \in Nat /\ DecayBlockSpan \in Nat \ {0}
    /\ Disturbances \subseteq Disturbance

VARIABLES
    group,             \* state of SETTLEMENT_TASK
    autoRestart,       \* whether a finished group goes back to Ready
    deleveraging,      \* DELEVERAGING_TASK
    redemption,        \* StableToken_REDEMPTION_TASK
    redeemQueue,       \* slots of the array; slots are never released
    redeemQueueLength, \* slots in use
    redeemMapping,     \* index and activeRedeemer of every user
    settlementInfo,    \* isProtectedMode and the two commission amounts
    blockSpan,
    lag,               \* block.number - lastProcessedBlock
    positions,         \* active addresses of bucket X2
    balance,           \* stable tokens of every user
    protected,         \* globalCoverage <= protected threshold
    paused,
    liquidated,
    absoluteAccumulator, differentialAccumulator,  \* of the flux capacitor
    elapsed,           \* block.number - lastOperationBlockNumber, of the same
    maxAbsoluteOperation,
    owed               \* history: commission kept from each redeemer so far,
                       \* less what was sent to the commissions address

taskVars  == <<group, autoRestart, deleveraging, redemption>>
queueVars == <<redeemQueue, redeemQueueLength, redeemMapping>>
fluxVars  == <<absoluteAccumulator, differentialAccumulator, elapsed, maxAbsoluteOperation>>
envVars   == <<blockSpan, lag, positions, balance, protected, paused, liquidated, fluxVars>>
vars      == <<taskVars, queueVars, settlementInfo, envVars, owed>>

Amounts  == 0 .. MaxRequest
Balances == 0 .. MaxBalance
Request  == [who : Users, amount : Amounts]

\* An accumulated commission, itemised by the redeemer it was kept from: the
\* contract stores the sum of the items.
Commission   == [Users -> Nat]
NoCommission == [u \in Users |-> 0]

StableTokensResTokensValue(amount) == amount * ReserveRate

\* What the redemption of amount stable tokens pays in commission, and to the redeemer.
CalcCommission(amount) ==
    (StableTokensResTokensValue(amount) * CommissionRate) \div Precision

ReserveTokenToRedeem(amount) ==
    StableTokensResTokensValue(amount) - CalcCommission(amount)

\* Its history of minted and redeemed amounts is not followed here.
Flux == INSTANCE FluxCapacitor WITH
    Limits <- FluxLimits, Spans <- {DecayBlockSpan}, MaxElapsed <- DecayBlockSpan,
    maxOperationalDifference <- MaxOperationalDifference,
    decayBlockSpan <- DecayBlockSpan, initialized <- TRUE, minted <- 0, redeemed <- 0

-----------------------------------------------------------------------------
Init ==
    /\ group = "Ready"
    /\ autoRestart = TRUE
    /\ deleveraging = NewTask
    /\ redemption = NewTask
    /\ redeemQueue = [i \in {} |-> 0]
    /\ redeemQueueLength = 0
    /\ redeemMapping = [u \in Users |-> [index |-> 0, activeRedeemer |-> FALSE]]
    /\ settlementInfo = [isProtectedMode |-> FALSE,
                         partialCommissionAmount |-> NoCommission,
                         finalCommissionAmount |-> NoCommission]
    /\ blockSpan \in BlockSpans
    /\ lag = 0
    /\ positions \in 0 .. MaxPositions
    /\ balance \in [Users -> Balances]
    /\ protected \in BOOLEAN
    /\ paused = FALSE
    /\ liquidated = FALSE
    /\ absoluteAccumulator = 0 /\ differentialAccumulator = 0
    /\ elapsed = DecayBlockSpan
    /\ maxAbsoluteOperation \in FluxLimits
    /\ owed = NoCommission

-----------------------------------------------------------------------------
(* The redeem queue. *)

WhenNotPaused == ~paused

\* Mutant: only a stalled settlement refuses the users.
WhenSettlementNotFinished == group # "Finished"

WhenSettlementReady == group = "Ready"

\* addRedeemRequest of a user with no active request: takes the first slot not
\* in use, growing the array when there is none.
PushRequest(u, amount) ==
    /\ ~redeemMapping[u].activeRedeemer
    /\ redeemQueueLength < MaxQueue
    /\ redeemQueue' = [i \in DOMAIN redeemQueue \cup {redeemQueueLength} |->
                         IF i = redeemQueueLength
                         THEN [who |-> u, amount |-> amount]
                         ELSE redeemQueue[i]]
    /\ redeemQueueLength' = redeemQueueLength + 1
    /\ redeemMapping' = [redeemMapping EXCEPT
                           ![u] = [index |-> redeemQueueLength,
                                   activeRedeemer |-> TRUE]]

\* The amount after alterRedeemRequestAmount: a subtraction stops at zero.
AlteredAmount(amount, isAddition, delta) ==
    IF isAddition THEN amount + delta
    ELSE IF amount < delta THEN 0 ELSE amount - delta

AlterRequest(u, isAddition, delta) ==
    LET index == redeemMapping[u].index IN
    /\ redeemMapping[u].activeRedeemer
    /\ redeemQueue[index].who = u
    /\ AlteredAmount(redeemQueue[index].amount, isAddition, delta) \in Amounts
    /\ redeemQueue' = [redeemQueue EXCEPT
                         ![index].amount = AlteredAmount(@, isAddition, delta)]
    /\ UNCHANGED <<redeemQueueLength, redeemMapping>>

\* MoC.redeemStableTokenRequest: a second request of an active redeemer is
\* added to the first one.
RedeemStableTokenRequest(u, amount) ==
    /\ WhenNotPaused
    /\ WhenSettlementReady
    /\ PushRequest(u, amount) \/ AlterRequest(u, TRUE, amount)
    /\ UNCHANGED <<taskVars, settlementInfo, envVars, owed>>

\* MoC.alterRedeemRequestAmount.
AlterRedeemRequestAmount(u, isAddition, delta) ==
    /\ WhenNotPaused
    /\ WhenSettlementReady
    /\ AlterRequest(u, isAddition, delta)
    /\ UNCHANGED <<taskVars, settlementInfo, envVars, owed>>

-----------------------------------------------------------------------------
(* Running the settlement. *)

\* Mutant: off by one block.
IsSettlementEnabledEarly == lag + 1 >= blockSpan

IsSettlementEnabled == lag >= blockSpan

\* Mutant: the commissions of the previous settlement are not zeroed.
InitializeKeepingCommissions ==
    IF group = "Ready"
    THEN [settlementInfo EXCEPT !.isProtectedMode = protected]
    ELSE settlementInfo

\* initializeSettlement, when this transaction is the one that starts the group.
InitializeSettlement ==
    IF group = "Ready"
    THEN [isProtectedMode |-> protected,
          partialCommissionAmount |-> NoCommission,
          finalCommissionAmount |-> NoCommission]
    ELSE settlementInfo

\* What the redemption step of each queue index in indices asks for u.
Requested(u, indices) ==
    SumFunctionOnSet([i \in indices |-> redeemQueue[i].amount],
                     {i \in indices : redeemQueue[i].who = u})

\* A step burns what the redeemer still holds of what he asked for, or nothing
\* when the reserve tokens cannot be sent to him.
RedeemedFrom(u, indices) ==
    {0, IF balance[u] <= Requested(u, indices) THEN balance[u]
                                               ELSE Requested(u, indices)}

\* Mutant: the request is only closed when there was something to redeem.
CloseRequestsRedeemed(indices) ==
    LET closed == {i \in indices : redeemQueue[i].amount > 0
                                      /\ balance[redeemQueue[i].who] > 0}
    IN
    /\ redeemQueue' = [i \in DOMAIN redeemQueue |->
                         IF i \in closed THEN [redeemQueue[i] EXCEPT !.amount = 0]
                                         ELSE redeemQueue[i]]
    /\ redeemMapping' = [u \in Users |->
                           IF \E i \in closed : redeemQueue[i].who = u
                           THEN [redeemMapping[u] EXCEPT !.activeRedeemer = FALSE]
                           ELSE redeemMapping[u]]

\* Sent or not, the request is over.
CloseRequests(indices) ==
    /\ redeemQueue' = [i \in DOMAIN redeemQueue |->
                         IF i \in indices THEN [redeemQueue[i] EXCEPT !.amount = 0]
                                          ELSE redeemQueue[i]]
    /\ redeemMapping' = [u \in Users |->
                           IF \E i \in indices : redeemQueue[i].who = u
                           THEN [redeemMapping[u] EXCEPT !.activeRedeemer = FALSE]
                           ELSE redeemMapping[u]]

\* Mutant: the queue is cleared whatever the mode.
ClearQueueAlways(redeemed, info) ==
    redeemQueueLength' =
        IF JustFinished(redemption, redeemed) THEN 0 ELSE redeemQueueLength

\* finishStableTokenRedemption clears the queue unless the settlement started
\* in protected mode.
ClearQueue(redeemed, info) ==
    redeemQueueLength' =
        IF JustFinished(redemption, redeemed) /\ ~info.isProtectedMode
        THEN 0 ELSE redeemQueueLength

\* Mutant: the redemption task is not reset for the next settlement.
FinishGroupKeepsRedemption(delevered, redeemed) ==
    IF redeemed.state = "Finished"
    THEN /\ lag' = lag - blockSpan
         /\ group' = IF autoRestart THEN "Ready" ELSE "Finished"
         /\ deleveraging' = IF autoRestart THEN ResetTask(delevered) ELSE delevered
         /\ redemption' = redeemed
    ELSE /\ lag' = lag
         /\ group' = "Running"
         /\ deleveraging' = delevered
         /\ redemption' = redeemed

\* finishSettlement runs whenever the last task is found Finished, and the
\* group and its tasks are reset unless the settlement was set to stall.
FinishGroup(delevered, redeemed) ==
    IF redeemed.state = "Finished"
    THEN /\ lag' = lag - blockSpan
         /\ group' = IF autoRestart THEN "Ready" ELSE "Finished"
         /\ deleveraging' = IF autoRestart THEN ResetTask(delevered) ELSE delevered
         /\ redemption' = IF autoRestart THEN ResetTask(redeemed) ELSE redeemed
    ELSE /\ lag' = lag
         /\ group' = "Running"
         /\ deleveraging' = delevered
         /\ redemption' = redeemed

\* executeGroup(steps): the two tasks share the steps, in order.  mode is what
\* the redemption task finds the coverage to be when it starts.
Delevered(steps) ==
    IF steps > 0 THEN ExecuteTask(deleveraging, steps, positions)
                 ELSE deleveraging

LeftSteps(steps) == steps - Consumed(deleveraging, Delevered(steps))

StableTokenRedemptionStepCount(mode) == IF mode THEN 0 ELSE redeemQueueLength

Redeemed(steps, mode) ==
    IF LeftSteps(steps) > 0
    THEN ExecuteTask(redemption, LeftSteps(steps), StableTokenRedemptionStepCount(mode))
    ELSE redemption

\* The commissions accumulated, and returned to MoC, which sends what it is
\* returned to the commissions address.
CollectCommissions(redeemed, info, paidOut) ==
    LET partial == [u \in Users |-> info.partialCommissionAmount[u]
                                      + CalcCommission(paidOut[u])]
        final == IF redeemed.state = "Finished" THEN partial
                                                ELSE info.finalCommissionAmount
    IN
    /\ settlementInfo' = [isProtectedMode |-> info.isProtectedMode,
                          partialCommissionAmount |-> partial,
                          finalCommissionAmount |-> final]
    /\ owed' = [u \in Users |-> owed[u] + CalcCommission(paidOut[u]) - final[u]]

\* What the step of queue index i asks of the exchange.
AmountToRedeem(i) ==
    IF balance[redeemQueue[i].who] <= redeemQueue[i].amount
    THEN balance[redeemQueue[i].who] ELSE redeemQueue[i].amount

\* The reserve tokens the steps at indices count as moved for u: what he is paid, or,
\* when nothing can be sent to him, what every step tried.
Moved(u, indices, paidOut) ==
    IF paidOut[u] > 0
    THEN ReserveTokenToRedeem(paidOut[u])
    ELSE SumFunctionOnSet([i \in indices |-> ReserveTokenToRedeem(AmountToRedeem(i))],
                          {i \in indices : redeemQueue[i].who = u})

AllMoved(indices, paidOut) ==
    SumFunctionOnSet([u \in Users |-> Moved(u, indices, paidOut)], Users)

\* Every step with something to redeem passes the flux capacitor, before its reserve
\* tokens are sent.  In one transaction nothing decays between two steps, and what the
\* last one is allowed the ones before were: they pass together or the call reverts.
UpdateAccumulatorsOnRedeem(indices, amount) ==
    IF \E i \in indices : AmountToRedeem(i) > 0
    THEN /\ Flux!RedeemAllowed(amount)
         /\ Flux!Record(Flux!AbsoluteAfter(0) + amount, Flux!DifferentialAfter(0) - amount)
    ELSE UNCHANGED <<absoluteAccumulator, differentialAccumulator, elapsed>>

\* The tokens burnt from every user, for the queue indices served.
Burn(indices, paidOut) ==
    /\ \A u \in Users : paidOut[u] \in RedeemedFrom(u, indices)
    /\ balance' = [u \in Users |-> balance[u] - paidOut[u]]
    /\ UpdateAccumulatorsOnRedeem(indices, AllMoved(indices, paidOut))

Settle(delevered, redeemed, info, paidOut) ==
    /\ Burn(StepsRun(redemption, redeemed), paidOut)
    /\ CloseRequests(StepsRun(redemption, redeemed))
    /\ ClearQueue(redeemed, info)
    /\ CollectCommissions(redeemed, info, paidOut)
    /\ FinishGroup(delevered, redeemed)

\* The deleveraging steps pay reserves out, so the mode the redemption task reads
\* after them may be worse than the current one.
ModesAfter(delevered) ==
    {protected} \cup
        (IF Consumed(deleveraging, delevered) > 0 /\ "flip" \in Disturbances
         THEN {TRUE} ELSE {})

\* MoC.runSettlement.
RunSettlement(steps) ==
    /\ WhenNotPaused
    /\ ~liquidated
    /\ IsSettlementEnabled
    /\ \E delevered \in {Delevered(steps)} :
         /\ positions' = positions - Consumed(deleveraging, delevered)
         /\ \E mode \in ModesAfter(delevered) :
              /\ protected' = mode
              /\ \E redeemed \in {Redeemed(steps, mode)}, paidOut \in [Users -> Balances] :
                    Settle(delevered, redeemed, InitializeSettlement, paidOut)
    /\ UNCHANGED <<autoRestart, blockSpan, paused, liquidated, maxAbsoluteOperation>>

-----------------------------------------------------------------------------
(* Governance, and the public repair of the task pointers. *)

SetSettlementToStall ==
    /\ "stall" \in Disturbances
    /\ autoRestart' = FALSE
    /\ UNCHANGED <<group, deleveraging, redemption, queueVars, settlementInfo, envVars, owed>>

RestartSettlementState ==
    /\ (IF group = "Running" THEN "abort" ELSE "restart") \in Disturbances
    /\ group' = "Ready"
    /\ deleveraging' = ResetTask(deleveraging)
    /\ redemption' = ResetTask(redemption)
    /\ autoRestart' = TRUE
    /\ UNCHANGED <<queueVars, settlementInfo, envVars, owed>>

\* fixTasksPointer rewrites the group with _autoRestart = true; it keeps the
\* states, and nobody is refused.
FixTasksPointer ==
    /\ "fix" \in Disturbances
    /\ autoRestart' = TRUE
    /\ UNCHANGED <<group, deleveraging, redemption, queueVars, settlementInfo, envVars, owed>>

SetBlockSpan(span) ==
    /\ "span" \in Disturbances
    /\ blockSpan' = span
    /\ UNCHANGED <<taskVars, queueVars, settlementInfo, lag, positions, balance,
                   protected, paused, liquidated, fluxVars, owed>>

SetMaxAbsoluteOperation(limit) ==
    /\ "limit" \in Disturbances
    /\ maxAbsoluteOperation' = limit
    /\ UNCHANGED <<taskVars, queueVars, settlementInfo, blockSpan, lag, positions, balance,
                   protected, paused, liquidated, absoluteAccumulator,
                   differentialAccumulator, elapsed, owed>>

-----------------------------------------------------------------------------
(* The rest of the system, as far as the settlement can tell. *)

\* Blocks beyond MaxLag and DecayBlockSpan are not counted.
NewBlock ==
    /\ lag' = IF lag < MaxLag THEN lag + 1 ELSE lag
    /\ elapsed' = IF elapsed < DecayBlockSpan THEN elapsed + 1 ELSE elapsed
    /\ UNCHANGED <<taskVars, queueVars, settlementInfo, blockSpan, positions, balance,
                   protected, paused, liquidated, absoluteAccumulator,
                   differentialAccumulator, maxAbsoluteOperation, owed>>

\* Others mint or redeem stable tokens outside the settlement, also while it runs.
Trade(amount) ==
    /\ "trade" \in Disturbances
    /\ WhenNotPaused /\ ~liquidated
    /\ \/ /\ Flux!MintAllowed(amount)
          /\ Flux!Record(Flux!AbsoluteAfter(0) + amount, Flux!DifferentialAfter(0) + amount)
       \/ /\ Flux!RedeemAllowed(amount)
          /\ Flux!Record(Flux!AbsoluteAfter(0) + amount, Flux!DifferentialAfter(0) - amount)
    /\ UNCHANGED <<taskVars, queueVars, settlementInfo, blockSpan, lag, positions, balance,
                   protected, paused, liquidated, maxAbsoluteOperation, owed>>

\* A user mints, transfers or redeems stable tokens outside the settlement.
BalanceChange(u, b) ==
    /\ balance' = [balance EXCEPT ![u] = b]
    /\ UNCHANGED <<taskVars, queueVars, settlementInfo, blockSpan, lag, positions,
                   protected, paused, liquidated, fluxVars, owed>>

CoverageMove ==
    /\ group = "Running" => "flip" \in Disturbances
    /\ protected' = ~protected
    /\ UNCHANGED <<taskVars, queueVars, settlementInfo, blockSpan, lag, positions,
                   balance, paused, liquidated, fluxVars, owed>>

\* MoC.evalBucketLiquidation of X2 empties it; only while the settlement is ready.
EvalBucketLiquidation ==
    /\ WhenSettlementReady
    /\ positions > 0
    /\ positions' = 0
    /\ UNCHANGED <<taskVars, queueVars, settlementInfo, blockSpan, lag, balance,
                   protected, paused, liquidated, fluxVars, owed>>

\* Any transaction under transitionState may find the coverage below liq and
\* liquidate instead of doing its work; the state is final.
Liquidate ==
    /\ "liquidate" \in Disturbances
    /\ protected /\ ~liquidated
    /\ liquidated' = TRUE
    /\ UNCHANGED <<taskVars, queueVars, settlementInfo, blockSpan, lag, positions,
                   balance, protected, paused, fluxVars, owed>>

PauseOrUnpause ==
    /\ "pause" \in Disturbances
    /\ paused' = ~paused
    /\ UNCHANGED <<taskVars, queueVars, settlementInfo, blockSpan, lag, positions,
                   balance, protected, liquidated, fluxVars, owed>>

-----------------------------------------------------------------------------
UserStep ==
    \E u \in Users, amount \in Amounts :
        \/ RedeemStableTokenRequest(u, amount)
        \/ \E isAddition \in BOOLEAN : AlterRedeemRequestAmount(u, isAddition, amount)

Keeper == \E steps \in Steps : RunSettlement(steps)

Governance ==
    \/ SetSettlementToStall
    \/ RestartSettlementState
    \/ FixTasksPointer
    \/ \E span \in BlockSpans : SetBlockSpan(span)
    \/ \E limit \in FluxLimits : SetMaxAbsoluteOperation(limit)

Environment ==
    \/ NewBlock
    \/ \E amount \in Amounts \ {0} : Trade(amount)
    \/ \E u \in Users, b \in Balances : BalanceChange(u, b)
    \/ CoverageMove
    \/ EvalBucketLiquidation
    \/ Liquidate
    \/ PauseOrUnpause

Next == UserStep \/ Keeper \/ Governance \/ Environment

Spec == Init /\ [][Next]_vars

-----------------------------------------------------------------------------
(* Fairness.  runSettlement is public: if again and again some number of     *)
(* steps would not revert, someone calls it with one that does not; blocks   *)
(* keep coming.  Nothing is said of what the flux capacitor accepts.         *)
FairSpec ==
    /\ Spec
    /\ SF_vars(\E steps \in Steps \ {0} : RunSettlement(steps))
    /\ WF_vars(NewBlock)

-----------------------------------------------------------------------------
(* Properties that hold whatever the environment does. *)

\* Every variable keeps its type; the lag never goes negative, that is,
\* lastProcessedBlock never overtakes the chain although it advances by
\* blockSpan and not to block.number.
TypeOK ==
    /\ group \in ExecutionState
    /\ autoRestart \in BOOLEAN
    /\ deleveraging \in Task /\ redemption \in Task
    /\ redeemQueueLength \in Nat
    /\ DOMAIN redeemQueue \subseteq Nat
    /\ 0 .. redeemQueueLength - 1 \subseteq DOMAIN redeemQueue
    /\ redeemQueue \in [DOMAIN redeemQueue -> Request]
    /\ redeemMapping \in [Users -> [index : Nat, activeRedeemer : BOOLEAN]]
    /\ settlementInfo \in [isProtectedMode : BOOLEAN,
                           partialCommissionAmount : Commission,
                           finalCommissionAmount : Commission]
    /\ blockSpan \in BlockSpans
    /\ lag \in 0 .. MaxLag
    /\ positions \in 0 .. MaxPositions
    /\ balance \in [Users -> Balances]
    /\ protected \in BOOLEAN /\ paused \in BOOLEAN /\ liquidated \in BOOLEAN
    /\ absoluteAccumulator \in Nat /\ differentialAccumulator \in Int
    /\ elapsed \in 0 .. DecayBlockSpan
    /\ maxAbsoluteOperation \in FluxLimits
    /\ owed \in [Users -> Int]

\* The state of the group and of its two tasks agree across transactions: the
\* queue is not touched before every leveraged position is closed, and the
\* redemption task is never left between its last step and the end of the group.
TasksInOrder ==
    /\ group = "Ready" => deleveraging.state = "Ready"
    /\ redemption.state # "Ready" => deleveraging.state = "Finished"
    /\ deleveraging.state = "Finished" => positions = 0
    /\ redemption.state = "Running" => redemption.currentStep < redemption.stepCount
    /\ group = "Finished" <=> redemption.state = "Finished"

\* A step count frozen when its task started stays right until the task is done,
\* so no step runs past the queue ("Index out of boundaries") nor asks for the
\* first address of an empty list of positions: either would make every later
\* runSettlement revert.
StepsStayWithinBounds ==
    /\ redemption.state = "Running" => redemption.stepCount = redeemQueueLength
    /\ deleveraging.state = "Running" =>
          positions = deleveraging.stepCount - deleveraging.currentStep

\* Requests already processed stay closed, and their users stay without a
\* request, for as long as the settlement that processed them runs.
ProcessedStayClosed ==
    redemption.state = "Running" =>
        \A i \in 0 .. redemption.currentStep - 1 :
            /\ redeemQueue[i].amount = 0
            /\ ~redeemMapping[redeemQueue[i].who].activeRedeemer

\* From its first transaction to its last, a settlement works on the requests as
\* they stood when it began: an amount not yet processed only changes by being
\* processed, and nobody enters the queue.
QueueFrozenWhileRunning ==
    [][ group = "Running" =>
          /\ redeemQueueLength' \in {redeemQueueLength, 0}
          /\ \A i \in DOMAIN redeemQueue :
                /\ redeemQueue'[i].who = redeemQueue[i].who
                /\ redeemQueue'[i].amount # redeemQueue[i].amount =>
                     /\ redeemQueue'[i].amount = 0
                     /\ ~redeemMapping'[redeemQueue[i].who].activeRedeemer ]_vars

-----------------------------------------------------------------------------
(* Properties that hold when the coverage does not cross the threshold in    *)
(* the middle of a settlement and governance does not restart a running one. *)

\* The slots whose request is still to be processed.
Pending ==
    {i \in 0 .. redeemQueueLength - 1 :
        redemption.state = "Running" => i >= redemption.currentStep}

\* The queue and redeemMapping describe the same requests: a user is an active
\* redeemer exactly when one pending slot, the one at his index, is his.  So
\* no request is lost, queued twice or hidden behind a stale index.
RequestsMatchQueue ==
    /\ \A i \in Pending :
          redeemMapping[redeemQueue[i].who] = [index |-> i, activeRedeemer |-> TRUE]
    /\ \A u \in Users :
          redeemMapping[u].activeRedeemer =>
             /\ redeemMapping[u].index \in Pending
             /\ redeemQueue[redeemMapping[u].index].who = u

\* Between settlements nothing is owed: each commission kept from a redeemer was
\* sent to the commissions address, once.  While one runs, what is owed is what
\* it has accumulated.  Needs no stall either.
CommissionsSettled ==
    \A u \in Users :
        owed[u] = IF group = "Running"
                  THEN settlementInfo.partialCommissionAmount[u] ELSE 0

\* The settlement implements RedeemRequests; stableTokenAmountToRedeem is what
\* the abstract specification calls requested.
StableTokenAmountToRedeem(u) ==
    IF redeemMapping[u].activeRedeemer
    THEN redeemQueue[redeemMapping[u].index].amount ELSE 0

Promise == INSTANCE RedeemRequests WITH
    redeemers <- {u \in Users : redeemMapping[u].activeRedeemer},
    requested <- [u \in Users |-> StableTokenAmountToRedeem(u)],
    phase <- IF group # "Running" THEN group
             ELSE IF redemption.state = "Running" THEN "Serving" ELSE "Closed"

ImplementsRedeemRequests == Promise!Spec

\* No request in the queue asks for more than a single redemption may ever move.
RequestsFit ==
    \A i \in 0 .. redeemQueueLength - 1 :
        ReserveTokenToRedeem(AmountToRedeem(i)) <= maxAbsoluteOperation

\* The flux capacitor does not stand in the way for ever: in the end every request
\* fits, and again and again nobody has operated for decayBlockSpan blocks.
FluxLetsThrough ==
    /\ <>[]RequestsFit
    /\ []<>(elapsed = DecayBlockSpan)

\* A settlement that has begun ends, however its steps are divided between
\* transactions, restarted or held up by others filling the flux capacitor, as long
\* as that lets its requests through.
SettlementEnds == FluxLetsThrough => []<>(group # "Running")

\* A request of u waits in the queue, where redeemMapping says it is.
Waiting(u) ==
    /\ redeemMapping[u].activeRedeemer
    /\ redeemMapping[u].index < redeemQueueLength
    /\ redeemQueue[redeemMapping[u].index].who = u

\* If the system leaves protected mode for good, governance stops restarting the
\* settlement, and the flux capacitor lets the requests through, nobody waits in the
\* queue for ever, whatever happened before.
RequestsServed ==
    (FluxLetsThrough /\ <>[]~protected /\ <>[][~RestartSettlementState]_vars) =>
        \A u \in Users : []<>~Waiting(u)

=============================================================================
