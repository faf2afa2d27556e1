# Verification of the RDOC contracts

TLA+ specifications of the Money on Chain contracts of this repository (RIF
Dollar on Chain), TLC configurations that check them on small instances, and
TLAPS proofs of their main invariants for every value of the constants. Paths
below are relative to the repository.

## 1. The system

A reserve token (RIF) backs a stable token (RDOC, "DoC") and a token that
carries the risk (RIFPRO). Anyone mints and redeems against the contract
`MoC`. Every function call is a transaction: atomic, and undone as a whole
when it reverts. What is concurrent is the *order* of transactions: users,
keepers, governance, the price and the block number all move between two
transactions of a job that takes several.

| component | state | operations | talks to |
|---|---|---|---|
| `MoC.sol` (with `base/MoCReserve.sol`) | `liquidationExecuted`, `maxGasPrice`, pause, reserve tokens | every entry point, guards (`whenSettlementReady`, `transitionState`, ...) | all the others |
| `MoCSettlement.sol` | redeem queue, `redeemMapping`, `settlementInfo`, `lastProcessedBlock`, `blockSpan` | request, alter, run, stall, restart, fix pointers | Exchange, State, RiskProxManager, Vendors |
| `PartialExecution.sol` | tasks and groups: state, current step, step count, auto restart | execute, reset | base contract of Settlement; calls back `stepFunction`, `onStart`, `onFinish` |
| `MoCExchange.sol` | accumulators and limits of the flux capacitor | mint and redeem each token, commissions | State, Inrate, RiskProxManager, tokens |
| `MoCState.sol`, `MoCEMACalculator.sol` | `state`, `reserves`, thresholds, liquidation price, moving average | `nextState`, coverage and price views | price providers |
| `MoCRiskProxManager.sol`, `MoCBucketContainer.sol` | buckets C0 and X2: reserves, stable tokens, RiskPro, inrate bag; active addresses of X2 | assign, remove, move, empty, liquidate | - |
| `MoCInrate.sol` | rates, `lastDailyPayBlock`, `lastRiskProInterestBlock` | daily and RiskPro payments, commissions | RiskProxManager, State |
| `MoCVendors.sol` | vendor list, markup, staking, total paid | register, stake, pay markup, reset at settlement | State, Exchange |
| `CommissionSplitter*.sol` | proportions and addresses | `split` | MoC (`addReserves`) |
| `MoCHelperLib.sol` | none | fixed-point formulas | - |
| `StopperV2.sol`, `changers/` | scheduled calls | pause, limits, one-shot governance changes | the setters of all |
| `hardhat/contracts/token` | token V2, migrator | migrate, roles | - |
| `migrations/`, `scripts/*-migration.sh` | truffle's record of completed migrations, artifacts, zos's network file, two configuration files | the twenty-three migrations, continue, start again | every contract, truffle, zos |
| `scripts/deploy/` | `deployConfig-network.json`, the changers deployed | the scripts of nine releases, verification, execution | changers, `Governor`, zos |

What is hard here, and what should hold:

* **Settlement.** It runs over many transactions and freezes part of what it
  reads at its start (prices, mode) and part when each task starts (step
  counts). It should work on the queue as it stood, serve each request once,
  end, account for its commissions, and leave queue and mapping consistent,
  whatever happens in between.
* **Partial execution.** Steps may be divided between transactions in any way,
  including calls with zero steps; the outcome should not depend on it.
* **Flux capacitor.** Unchecked, mixed signed and unsigned, truncating
  arithmetic, with limits that can change at any time. It should not wrap
  around, and should accept exactly what it publishes.
* **State machine.** The stored state lags the price; liquidation is final and
  should leave enough for every holder; it can be disabled.
* **Buckets.** Reserves are kept twice (`MoCState.reserves` and the buckets)
  by different contracts; the list of active addresses is a swap-delete array
  whose stale entries are never erased.
* **Interest and vendors.** Periodic payments that record themselves before
  they are made; paid markup limited by a stake that can be withdrawn.
* **Deployment and releases.** Some hundred transactions in a fixed order, from
  a process that may stop between any two and is then run again from a place it
  recorded, over files that an earlier attempt left. Minting must never be lost,
  a deployment must be able to end, and what governance executes should be what
  the configuration says.

`PROJECT.json` lists each hazard at its line, with the properties that cover it
or the reason none does yet.

## 2. Plan

Built, in this order:

| module | models | on |
|---|---|---|
| `PartialExecution` | tasks and groups executed in steps | - |
| `MoCSettlement` | the settlement and its users | `PartialExecution`, `FluxCapacitor` |
| `RedeemRequests` | what the settlement promises | refined by `MoCSettlement` |
| `FluxCapacitor` | the volume limits of mint and redeem | - |
| `RiskProxManager` | the positions of X2 and their deleveraging | - |
| `RiskProxLedger` | what their tracker promises | refined by `RiskProxManager` |
| `MoCVendors` | vendors, fees and whom they are paid to | - |
| `MoCReserves` | the reserves and their two books, mint and redeem, the state machine, interest, liquidation | - |
| `Migrations` | the deployment: migrations, crashes, continuing, starting again | - |
| `ReleaseScripts` | the scripts of the releases, each as a sequence of steps | - |
| `Releases` | who runs them, restarts them and votes on what they deploy | `ReleaseScripts` |

Those of the contracts have an `MC` module with what TLC needs to instantiate
them; the last three are instantiated by their `.cfg` alone. But for the two
promises, `PartialExecution` and `ReleaseScripts`, each has a module of proofs.
`Sums_proofs` holds what those share about totals.

Next, most important first:

1. What a splitter sends to whom (`CommissionSplitter*.sol`; their deployment
   is in `Migrations` and `Releases`), and `TokenMigrator`.
2. `MoCReserves` with leveraged positions in X2, and with restarts of a
   settlement, whose forgotten commissions stay in the reserves.
3. `HelperLib`: bounded checks of the rate formulas against rationals.

## 3. The settlement: `PartialExecution`, `MoCSettlement`, `RedeemRequests`

`PartialExecution` gives a task as a record `[state, currentStep, stepCount]`
and one operator per function of the contract: `ExecuteTask` is the task after
`executeTask`, `Consumed` what it returns, `StepsRun` the steps it called and
`JustFinished` whether it called `onFinish`. Function pointers are not part of
the state: the two tasks of the settlement are `deleveraging` and `redemption`.

`MoCSettlement` has one action per transaction:

| action | code |
|---|---|
| `RedeemStableTokenRequest`, `AlterRedeemRequestAmount` | the functions of that name in `MoC.sol` and `addRedeemRequest`, `alterRedeemRequestAmount` in `MoCSettlement.sol` |
| `RunSettlement` | `runSettlement` in both, `executeGroup`, both tasks with their steps and hooks, the flux capacitor, the transfer of the commissions |
| `SetSettlementToStall`, `RestartSettlementState`, `SetBlockSpan` | governance (`MoCStallSettlementChanger`, `MoCRestartSettlementChanger`, `MoCSettlementChanger`) |
| `FixTasksPointer` | public |
| `SetMaxAbsoluteOperation` | of `MoC.sol`, by governance or the stopper |
| `Trade` | `_updateAccumulatorsOnMint` and `_updateAccumulatorsOnRedeem`, called by others' operations |
| `BalanceChange`, `CoverageMove`, `NewBlock`, `EvalBucketLiquidation`, `Liquidate`, `PauseOrUnpause` | the rest of the system, as far as the settlement reads it |

The flux capacitor is the one of §4, an instance over this module's variables.
Every redemption with something to redeem passes it before anything is sent
(`MoCExchange.sol:514`), and one it rejects reverts the whole call: then
`UpdateAccumulatorsOnRedeem` is false for those steps and `RunSettlement` is not
enabled with them. A request is not compared with its limits when it is queued,
and cannot be altered while the settlement runs.

Abstractions. `block.number` is kept as its distance `lag` to
`lastProcessedBlock` and its distance `elapsed` to `lastOperationBlockNumber`, the
only forms in which the code uses it; neither counts further than `MaxLag` and
`DecayBlockSpan`, from where on the code does not tell one distance from
another. The rate of the reserve is a constant, `ReserveRate`: besides it only the
coverage's side of the protected threshold matters to the control. Of the flux
capacitor's parameters `maxAbsoluteOperation` changes at any time;
`maxOperationalDifference` and `decayBlockSpan` are constants here and change in
§4. The redemptions of one call pass the capacitor together: nothing decays
between two of them, and with each the absolute accumulator grows and the
operational difference never shrinks (by twice the amount while mints
outweigh redemptions, by nothing after), so the last is accepted only if the
ones before were. A position is one of a number, since a deleveraging step always
takes the first. Slots of `redeemQueue` beyond `redeemQueueLength` survive, as
in storage. A commission is itemised by redeemer, where the contract stores the
sum, so that the history variable `owed` can say whose commission was lost or
sent twice. A step whose reserve tokens cannot be sent burns nothing: every
redemption may fail. With two slots of one user in one transaction the two
redemptions fail or succeed together. `mode` in `RunSettlement` is what
`stableTokenRedemptionStepCount` reads: it may be worse than the current mode
when the same transaction paid reserves out to leveraged positions.

`Disturbances` says what else the environment may do in a run: `flip` (the
coverage crosses the threshold while a settlement runs), `abort` (governance
restarts a running settlement), `restart`, `stall`, `fix`, `span`, `pause`,
`liquidate`, `limit` (governance changes `maxAbsoluteOperation`) and `trade`
(others fill the flux capacitor). Properties are stated for the weakest
assumptions they need.

`RedeemRequests` is the promise, without queue, index or step: one request per
user, changed at will until the settlement begins, then served once for no more
than it asks and no more than the user holds, or kept untouched by a settlement
in protected mode. `ImplementsRedeemRequests` is the refinement
(`requested` is `stableTokenAmountToRedeem`).

### Runs

All with two users (a queue with a first and a last entry, and a slot that
another user can take over), up to one leveraged position (deleveraging with
and without a step), calls of 0, 1 or 5 steps (none, one at a time, all at
once; with 5, more than the two tasks ever need together; `settlement_ends` only
calls of 1, the slowest that get on), and a queue of two or three slots
(three only fill when a user has two). A stable token is redeemed for one or two
reserve tokens, all, half or none of which are commission.

| run | properties | shows |
|---|---|---|
| `settlement_promise` | `TypeOK`, `RequestsMatchQueue`, `CommissionsSettled`, `ImplementsRedeemRequests` | with no flip, abort or stall the settlement keeps its promise |
| `settlement_anything` | `TasksInOrder`, `StepsStayWithinBounds`, `ProcessedStayClosed`, `QueueFrozenWhileRunning` | what holds whatever governance and the price do; lag up to 2 with spans 1 and 2, so that a span may grow, shrink, and be overdue |
| `settlement_ends` | `SettlementEnds`, `RequestsServed` | a settlement that takes a call per step ends, also with flips, aborts, a limit that moves below what a request needs and back, and trades that fill the flux capacitor between its calls; out of protected mode for good and restarted no more, nobody waits in the queue for ever |

In `settlement_promise` the flux capacitor lets two redemptions through in one block,
and rejects those of a second settlement in the same one. In `settlement_anything` the commission is all of a
redemption, so that the capacitor always accepts: what it rejects only takes
behaviours away, which a safety property does not miss. That run leaves pause and
liquidation out (they only disable actions) and forgets the commissions and the
empty capacitor by a `VIEW`: none of its properties reads them and they
influence no guard there. Symmetry in users is used for that run
only, which checks no liveness property.

In `settlement_ends` a redemption moves two reserve tokens, the limit is one or
two, what was recorded decays by half in a block and is gone after two, and a
trade moves one. So a request may be too large for the limit, two requests never
fit in one span, and a trade just before a call makes it revert. It has no
`stall`, which is meant to stop the settlement after it ended, and no pause or
liquidation, which stop it for good; without a stall `restart` of a settlement that
is not running and `fix` change nothing.

Fairness (`FairSpec`): strong fairness of `runSettlement` with at least one
step, because it is public and the project runs a keeper for it, but it can be
disabled in between by a block span not yet reached, or a capacitor not yet
decayed; weak fairness of new blocks. That fairness says nothing of what the flux
capacitor accepts: a call it rejects is not a step, and where every call is
rejected for ever, strong fairness requires none. What the two properties need is in
their statement, `FluxLetsThrough`:

* `RequestsFit` from some point on: no request in the queue moves more than
  `maxAbsoluteOperation`. Without it TLC finds the settlement `Running` for ever
  behind a request above the limit.
* `[]<>(elapsed = DecayBlockSpan)`: again and again nobody operates for
  `decayBlockSpan` blocks. Without it others, who race the keeper to each block,
  keep the capacitor filled for ever. A settlement of several requests, too, takes
  one such wait between those that do not fit in one span together.

`RequestsServed` also needs that the mode stays unprotected and that no further
restart comes; dropping either makes TLC find it violated. These variations are
no runs of the project; each is the same configuration with one conjunct removed.

### Disagreements with what the repository says

Two are runs that TLC finds violated, with the quoted text in `PROJECT.json`:

* `claim_next_settlement`: if the mode turns protected between the start of the
  settlement and the start of its redemption task, nobody is served and the
  queue is cleared all the same; `activeRedeemer` and a stale index remain.
  Reached with `runSettlement(0)` or a call whose steps end in the deleveraging.
* `claim_collected_commissions`: a stalled settlement run again pays its
  commissions again, and advances `lastProcessedBlock` again.

Others follow from the same actions and have no run of their own. The
integration guide says that `redeemStableTokenRequest` "can receive any amount of
USDRIF to redeem, but this will be processed on the next settlement"
(`docs/integration/example-code-redeeming-rdoc-request.md:3`). A request that moves
more than `maxAbsoluteOperation` is accepted, and then reverts every
`runSettlement` that reaches it: a settlement begun stays `Running`, nobody behind it in
the queue is served, and it cannot be altered meanwhile. What gets it going again
is governance, by a higher limit (or by a restart, after which the user can lower the
request before the next attempt), or the user, who may move enough of his tokens to
another address, since a step redeems no more than he holds. The mirror
case of the first: a settlement that started protected and reaches its
redemption task unprotected serves the queue and does not clear it, so that a
user served gets a second slot. A redemption task that started unprotected goes
on redeeming in protected mode. Restarting a running settlement forgets the
commissions accumulated so far. `fixTasksPointer` is public and undoes a
requested stall. `lastProcessedBlock` advances by `blockSpan`, not to the block
of the execution, so that after a late settlement the next is enabled at once.

### Proofs

`MoCSettlement_proofs` proves for any set of users, queue, steps and positions,
and every disturbance: `TypeCorrect`, `TasksStayInOrder`, `StepsWithinBounds`,
`ProcessedRequestsStayClosed` and `QueueFrozen`. The inductive invariant is the
conjunction of those state predicates with `TaskOK` of each task (the current
step never passes the step count; a task that is ready is at step zero; a
finished one is at its last step). None of them is inductive alone: that a
running redemption task still has as many steps as the queue has running redemption task still has as many steps as the queue has requests needs
the order of the tasks, and that in turn that a finished deleveraging left no
position, which needs its step count to be right. The lemmas `ExecuteTaskOK`,
`DeleveredOK` and `RedeemedOK` say what one call does to each task and carry
the case analysis; `BurnFluxType` and `TradeType` that the accumulators of the flux
capacitor stay integers, for any rate and limits.

Its second part proves `RequestsAlwaysMatchQueue` under
`Undisturbed` (no `flip`, no `abort`; the runs above show both are needed). Its
invariant adds that a settlement that started protected has a redemption task
of no step, and one that did not has one of `redeemQueueLength` steps.

The third builds on it:

* `CommissionsAlwaysSettled`, under `NeitherStalledNorAborted`; the coverage may
  flip. The invariant adds that no settlement stays finished (only a stall keeps
  one so) and that the final commission amount is zero until the last call.
* `SettlementKeepsPromise`, the refinement of `RedeemRequests`, under
  `Undisturbed`: it also covers stalled settlements, which the run leaves out.
  A call of the keeper is one step of the promise or none: it keeps everybody
  waiting, serves some, serves the last ones and closes, or reopens. What a call
  pays a user is a sum over the indices it processes; that the queue has one
  pending slot per user (`RequestsMatchQueue`) makes it a sum of at most one
  term (`RequestedOnce`). `IndicesServe` then turns burning and closing at
  indices into serving users.

### Sums

Totals are sums over users, accounts, blocks: the library's `SumFunctionOnSet`,
a recursive function over the subsets of a set, taken in an order nobody knows.
`Sums_proofs` shows that on finite sets such a function exists (`SumExists`, by
the number of elements), that it is what the library chooses and satisfies its
equation (`SumEquation`), and that the order does not matter: a sum is *any* one
value and the sum of the others (`SumWithout`). From there: a sum changes by what
one of its values changes by (`SumOfChanged`), depends on its own values only
(`SumOfSame`), is at least each of its terms when they are naturals
(`SumOfNaturals`), and a multiple when they are equal (`SumOfConstant`). The
library's theorems of induction take an operator and cannot be instantiated
here; `NaturalsFromZero` and `FiniteFromSmaller` state induction about a *set*
instead, which can be, and follow from the fact that a well-founded order has
minimal elements.

## 4. The flux capacitor: `FluxCapacitor`

Second half of `MoCExchange.sol`. `Mint` and `Redeem` are the two accumulator
updates with their `require`s; the setters are governance's and the stopper's,
through `MoC.sol`. `block.number` is kept as its distance `elapsed` to
`lastOperationBlockNumber`, saturated at `MaxElapsed`, which is at least every
span: beyond the span the decay factor is zero, so saturation loses nothing.
Arithmetic is unchecked in the code and modelled without its width: limits are
far below 2^128 and accumulators never exceed a limit that was in force, so no
product comes near 2^255. The division of the signed accumulator truncates
towards zero, as Solidity's. `decayBlockSpan` = 0 makes an operation revert.

| run | properties | shows |
|---|---|---|
| `flux_limits` | `TypeOK`, `DifferentialWithinAbsolute`, `PublishedLimitsAreExact`, `BlockWithinLimits`, `WindowVolumeBounded` | limits in {0, 4, 7} and spans in {0, 2, 3} change at any time; amounts 0..7; decay in tenths, so that every division rounds |

`MCFluxCapacitor` adds a history of the last blocks, `window`, for
`WindowVolumeBounded`: under one configuration with limit `L` and span `s`, what
moves in `s` consecutive blocks is at most `L + (s - 1) * ceil(L / s)`, nearly
twice the limit, and the bound is reached. The comments in the code call the
limit one on the volume; it limits the decayed accumulator, not that of a window.

Proved in `FluxCapacitor_proofs`, for every limit, span, amount and precision:
`FluxTypeCorrect`, `NoUnderflow` (|DA| <= AA, also decayed), `LimitsExact`
(what is published is exactly what is accepted), `BlocksWithinLimits` and
`WindowsBounded`. The fourth needs the invariant `BlockInv`: taking the operations
of the current block out of the accumulators leaves accumulators that are still
in order, so those operations alone respect the limits. Rounding enters through
one lemma: the signed quotient truncated towards zero is never larger in size
than the unsigned one.

`WindowsBounded` is about `MCSpec`, the contract with the history of its blocks
(`HistoryOnly`: which it does not disturb). Its invariant `WindowInv` holds of
*every* number `k` of blocks, not of `decayBlockSpan` alone: what the last `k`
moved is nothing, or is still in the accumulator but for what decay gave back,
`ceil(L / s)` for each of the blocks that lie between the first of them and the
last operation. A new block moves all windows one further (`ShiftedVolume`), an
operation adds to all, and `DecayLoses` is the arithmetic: over `e` blocks the
truncating decay takes no more than `e` times `ceil(L / s)` away, whatever the
precision.

## 5. The leveraged positions: `RiskProxManager`, `RiskProxLedger`

`riskProxBalances` (value and index, from 1), `activeBalances` (slots from 0) and
`activeBalancesLength` are those of the bucket; `nRiskPro` and `nReserve` are
what it believes it has. A slot or an entry is never erased. `AssignRiskProx`
and `RemoveRiskProx` are the manager's functions: opening and redeeming a
position now revert in `MoCExchange`, and the positions that exist were left by
these functions, so that the states reachable with them are those the
deleveraging may find. `LiquidateBucket` is `evalBucketLiquidation` as X2 sees
it. The settlement is its phase: `InitializeSettlement` freezes the technical
price of X2 (`lb` is what its stable tokens lock at the current price, any of
`LockedReserves`), `DeleveragingStep` closes the first active address at it,
`FinishDeleveraging` moves the rest to C0. Between the two nothing else happens
to X2: its users' operations are `whenSettlementReady`. How steps are divided
and counted is the settlement module's.

| run | properties | bounds |
|---|---|---|
| `positions` | `TypeOK`, `TrackerConsistent`, `DeleveragingNeverReverts`, `DeleveragingClosesOne`, `ImplementsLedger` | three users (one is moved over a slot while a third stays), up to 4 RiskProx and 6 reserve tokens, prices in halves so that they round, both ways to lock more than there is |

`RiskProxLedger` is the promise: holdings and a total, no array. Its refinement
says that whatever was left by closed and liquidated positions, nobody gets or
loses a holding by an operation of another.

Proved in `RiskProxManager_proofs`, for any users, amounts and prices:
`PositionsTypeCorrect`, `TrackerStaysConsistent`, `ClosesOne` and
`TrackerIsALedger` (initial state and every step). The invariant is `TypeOK`
and `TrackerConsistent`; that slots in use hold different addresses follows
from it, since an index determines its slot, and is what the swap and delete
needs. `DeleveragingCanFinish` (`DeleveragingNeverReverts`) has the invariant
`BucketInv`, which adds two facts that no transaction tests: `nRiskPro` is the sum
of what the users hold (`TotalIsHeld`), and at the price frozen at the start the
bucket has reserves for that total (`EnoughForAll`). The first is shown on the
ledger, one step at a time, and carried over by the refinement. The second holds
at the start because the price is a quotient rounded down, and stays because each
position takes its share rounded down. Users are finitely many, as addresses are.

## 6. Vendors and fees: `MoCVendors`

`RegisterVendor`, `UnregisterVendor` (guardian), `AddStake`, `RemoveStake`
(vendor), `ResetTotalPaidInMoC` (start of a settlement) are the functions of
`MoCVendors.sol`. `Operation` is the fees of any mint or redemption:
`CalculateCommissions` decides on fees in MoC or in reserve tokens,
`TransferMocCommission` and `TransferReserveTokenCommission` share them between
vendor and commissions address. `wallet`, `vault`, `userMoC` and `commissions`
are MoC balances; users are one, since fees of one do not depend on another.
Reserve tokens paid to a vendor are counted in `totalPaidInMoC` as in the code,
their balances are not followed. A vendor has approved what it stakes. The price
of the reserve token in MoC is a constant; divisions of fees truncate. The
history variables `paidInMoC` and `highestStake` begin again with each reset.

| run | properties | bounds |
|---|---|---|
| `vendors` | `TypeOK`, `ListIsActive`, `MoCAccounted`, `MarkupWithinStake` | three accounts and a list of two, so that it fills up, its first is replaced by its last, and who left comes back; stakes of one at a time; rates of a half, so that fees vanish by rounding; approvals of nothing, too little and all |

Worth knowing: `removeStake` allows all of the stake to be taken back at once,
whatever was paid on account of it, so the limit is the highest stake since the
last reset and not the current one (`MarkupWithinStake`); a vendor no longer
active still has its markup charged, and it goes to the commissions address; a
markup in reserve tokens is counted but not tested against the stake, so it may
exceed it.

Proved in `MoCVendors_proofs`, for any accounts, stakes, rates, markups and list
limit: `VendorsTypeCorrect` (no balance or allowance goes negative),
`ListAlwaysActive` and `MarkupAlwaysWithinStake`. The invariant, `IInv`, adds to
the first two `HistoryInv`: what was paid is within the total counted, and the
current stake within the highest. The type needs the arithmetic of the fees
(`FeesCovered`: fees in MoC are within balance and allowance) and that stakes
leave the vault only as long as it has them. `MoCAlwaysAccounted`
(`MoCAccounted`: every stake is backed, and no MoC is made or lost) says of each
action which terms of the two sums it changes; an operation moves MoC between the
user, one vendor and the commissions address, whoever of these is the same.
Accounts are finitely many, as addresses are.

## 7. The reserves: `MoCReserves`

Bucket C0 with X2 empty, as it is since leveraged positions were removed. The
reserve tokens are counted twice: `reserves` is `MoCState`'s, `nReserve` the
bucket's, and the stable tokens by their supply and by `nStable`. One action per
entry point of `MoC.sol`, each with the transition of the state machine that
`transitionState` makes first (`Operating`, or `Liquidate` when the system is
liquidated). A transaction of `runSettlement` is `RunSettlement`, redemptions and
`EndOfCall`, between which `inCall` lets nothing else happen; other transactions
come between two calls of one settlement, while its commissions wait in the
reserves.

Abstractions. Holders are not told apart: an operation moves any amount there
is. `price` is any price and the moving average any other, so `Bcons` is any
price up to the current one. Fees deposited and sent within one transaction are
left out, those of the settlement are not. Payments may be due at any time. How
a settlement's steps are chosen is the settlement module's; here a call redeems
any amounts and may or may not end the settlement. It is not restarted while it
runs: a restart forgets its commissions, which then stay in the reserves and in
no book.

| run | properties | bounds |
|---|---|---|
| `reserves` | `TypeOK`, `BooksAgree`, `LiquidationPaysHolders`, `OnlyAboveTarget`, `MintKeepsTarget`, `LiquidationIsFinal` | up to 6 reserve tokens, amounts of 1 and 2, prices 2, 3 and 4, precision 4: enough to reach every state, a coverage below 1, each threshold, a liquidation by a fall of the price, and quotients that round; interest of a half, so that the bag fills |
| `claim_liquidation` | `LiquidationPaysHoldersFirst` | the same |

`lapses` is a history variable: what happened that may leave holders of stable
tokens unpaid at a liquidation.

* `interest`: RiskPro interest was paid after it. This is `claim_liquidation`:
  `payRiskProHoldersInterestPayment` is only `whenNotPaused`, and `nReserve` is
  not cleared by the liquidation.
* `uncovered`: the coverage was already below 1. The price of the liquidation
  is rounded down, so the shares may exceed what there is, and the last holder's
  transfer fails and pays nothing, rather than the maximum available.
* `unexecuted`: `nextState` is public, and was called alone; `liquidate` runs
  later, at another price of the oracle, and if it rose, what it sends to the
  commissions address is partly owed.

Without any of the three every holder can be paid, whatever the order, the
rounding and the price afterwards (`LiquidationPaysHolders`). With the
liquidation disabled a coverage at or below `liq` counts as `AboveCobj`; that
is harmless, since the maxima are zero there (`OnlyAboveTarget`).

Proved in `MoCReserves_proofs` for any amounts, prices, thresholds, rates and
precision, with `Cobj` above one: all six properties of the run
(`ReservesTypeCorrect`, `BooksAlwaysAgree`, `LiquidationAlwaysPays`,
`IssuesOnlyAboveTarget`, `MintAlwaysKeepsTarget`, `LiquidationAlwaysFinal`). The
invariant `Inv` adds to `TypeOK` and `BooksAgree` that a call of the settlement
has a price and no liquidated system (`CallInv`), and that a liquidated system
has a price and, without lapse, was executed and can pay (`LiquidationInv`). The
argument of the last: the price of the liquidation is at least the oracle's
(`LiquidationPriceAbove`), so what is owed is at most what was left
(`OwedAtMostLocked`), and the sum of shares rounded down is at most the whole
rounded down (`PaidInShares`). `MintArithmetic` follows a mint through its three
roundings.

## 8. The deployment: `Migrations`

The twenty-three migrations, each a definition named after its file: a sequence
of stages, a stage the set of operations that one `await Promise.all` awaits.
An operation is one transaction or one call of zos, and is an action; the
migration that runs, its stage and what is `done` of it are the position of the
process.

| state | is |
|---|---|
| `completed` | `last_completed_migration` of the contract `Migrations`, which truffle reads and writes |
| `deployed` | the artifacts of `build/contracts` with an address on this network |
| `proxies` | the proxies of each alias in zos's network file, oldest first |
| `tokens`, `proxyAdmin`, `delegator` | who owns, mints and pauses; who administers the proxies |
| `saved` | what migration 23 writes in its two files |
| `development`, `zosFileKept` | the two ways in which networks differ here |

`Deploy`, `DeployToken`, `DeployProxyAdmin`, `UpgradeDelegator`,
`DeployUpgradable`, `Initialize`, `HandOver`, `SetAdmin` and `SaveConfig` are
the helpers of `migrations/utils.js`; `Succeeds` is what each needs (an owner, a
role, a contract not yet initialized, every instance of `createInstances`), and
`Revert` is taken exactly when it is missing. `CompleteMigration` is truffle's,
`ContinueMigration` is `truffle migrate` without `--reset`, which
`continue-migration.sh` and every step of `start-new-migration.sh` call whatever
the one before returned, and `StartNewMigration` is `deploy-reset`. `Crash`
stops the process between any two operations. truffle, zos and the libraries of
the tokens are external. Parameters' values are left out.

| run | properties | bounds |
|---|---|---|
| `migrations` | `TokenAlwaysMintable`, `FinishedIsHandedOver`, `OnlyHandOverFails`, `DeploymentFinishes` | all migrations, both kinds of networks, network file kept or not; two crashes, so that a continued migration stops again, and four deployments: one more for each crash and one over another that finished |

Worth knowing. Migrations 18 to 21 cannot be repeated once they were half done:
the deployer has given the ownership or the role away, or the contract is
initialized, and continuing fails for ever (`OnlyHandOverFails`). Only a new
deployment helps, which is what `DeploymentFinishes` needs. Migration 0 runs
before there is a contract to record it: stopped there and continued, it is
skipped, and nothing notices before migration 18. `setAdmin` changes every proxy of
an alias, so a network file that survives a new deployment is harmless as long
as every step takes the last proxy (`GetProxyAddress`; the mutant takes the
first).

Fairness (`FairSpec`): weak fairness of the process, of `ContinueMigration` (an
operator continues what stopped) and strong fairness of a new deployment when
one failed, since continuing, which also is always possible, may be chosen
in between for ever. Crashes are finitely many; the bound of `StartNewMigration`
keeps one deployment in reserve for each.

### Proofs

`Migrations_proofs` proves, for any number of crashes and deployments:
`MigrationsTypeCorrect`, `TokensStayMintable`, `FailuresAreHandOver` and
`FinishedAlwaysHandedOver`, from the invariant `IInv` (`Reachable`). Its parts
are `TypeOK` and

* `EffectsInv`: what is done stays done. `Effect(op)` is what an operation leaves
  behind, and it holds of every operation of a migration or stage already
  passed. It is not obvious, since later operations overwrite parts of the same
  state (a second ProxyAdmin, another proxy of the same alias, the admin of all
  proxies), and each lemma `...Keeps` shows that its operation disturbs only
  effects of operations that come at its own place or later. `Places` says in
  which migration and stage each operation occurs.
* `RecordInv`: truffle's record and the position agree, so that a continued
  deployment begins where it stopped. Migration 0 is excepted, see above.
* `RolesInv`, `HandOverInv`: who holds the roles before and during the hand-over.

When a deployment finishes, `EffectsInv` for all migrations is nearly
`FinishedIsHandedOver` (`CompleteHandsOver`). That failures stay within the four
migrations is that everything another one needs is an effect of an earlier one.

## 9. The releases: `ReleaseScripts`, `Releases`

`ReleaseScripts` has one definition per script of `scripts/deploy/`, in order:
what it deploys, when it writes `deployConfig-network.json`, what it asks of a
changer. `Scripts` is the order of each `0_deploy.sh`, followed by what a README
has run by hand, and `Upgrades` what the changer of a release installs.

`Releases` runs them. `memory` is the script's copy of the configuration: each
script reads the file once, changes its copy, and writes the whole copy back
(`SaveConfig`). An implementation is the number of the contract deployed, 0 what
the release finds; the parameters a changer writes are one number, `values`,
which an operator may edit (`EditConfig`). A changer is the record of what its
constructor or `scheduleBatch` was given (`Recorded`), `Execute` what the proxies
run after it and `Reverts` when it does not get there. `Crash` stops a script,
`Restart` runs any script next; `orderly` says that it was the first or the one
that stopped. Where `shouldExecuteChanges` is false a script only tries the
change, and `Propose` and `GovernanceExecutes` vote on the changer later.
`OtherUpgrade` is another release meanwhile. zos, the governor and the votes are
external.

Left out: what a script prints, but for whether it matches, and constants copied
by hand. The proposal of v0.1.15 takes its addresses from such constants
(`config.FeeIncreaseProposal.ROC`): no script carries the splitters' over to it.

| run | properties | bounds |
|---|---|---|
| `releases` | `FinishedIsConfigured`, `OneLibrary`, `SplitterInConfigIsInitialized`, `OnlyTheseFail`, `ExecutedIsConfigured`, `RestoresImplementations` | all nine releases, both kinds of networks; two restarts (one repeats what a crash left, the second what the first left) and two votes (the changer executed twice, or two changers) |

* `FinishedIsConfigured`, `OneLibrary`: the order of the scripts is right. Run in
  order, however often, the system runs what was deployed last, and what one
  batch of v0.1.12 installs is linked to one library. The mutants exchange two scripts.
* `SplitterInConfigIsInitialized`: the splitters of v0.1.15 are created by zos,
  the *first* of the network file is initialized, and the address saved must be
  the same one.
* `OnlyTheseFail`: in order, what can fail is only what it names; among it that
  a splitter or an implementation initialized before a crash stops every
  further run, that v0.1.16.2 throws where a change is only tried (it asks for
  the changer by a key nothing sets), and that the last script of v0.2.0 calls a
  function its changer does not have.
* `ExecutedIsConfigured`: what a script executes, or what is voted through
  after a verification printed no error, is what the configuration says. Without the
  verification it is not: a script restarted out of order leaves a changer with
  the addresses of before.
* `RestoresImplementations`: the migration of the tokens puts back what the
  proxies ran, unless another release was executed since its changer was
  deployed, which it then undoes.

### Proofs

`Releases_proofs` proves, for any number of restarts and votes and any set of the
nine releases: `ReleasesTypeCorrect`, `SplittersInitialized`, `ChangesConfigure`,
`MigrationRestores`, `FinishedReleases`, `OnlyKnownFailures` and `BatchesLinked`.
What they need of
the scripts as data is stated once and shown of every script: `WellFormed` (what
comes right before a step that saves a splitter, schedules or executes) by
`AllWellFormed`, and `Ordered` (which earlier script deploys what a step needs) by
`AllOrdered`. The invariant `IInv` adds to the type

* `PositionInv`: where the process is in its script says what it just did. A
  splitter that is about to be saved was just initialized; a change about to be
  executed was deployed or scheduled from the configuration as it is now.
* `VerifiedInv`: after a verification without error the changer of the
  configuration still fits it (`Fits`), whatever ran since.
* `SplittersInv`: the splitters of the file and of the script's copy are
  initialized.

`ExecutesFitting` then says that what a script executes fits, and
`FittingConfigures` that executing it configures the system. `MigrationRestores`
needs `RestoreInv` besides: every changer deployed since the last upgrade from
outside remembers what the proxies run.

The two properties about all the scripts of a release in their order need
`OrderInv`, whose parts are

* `EffectsInv`: the script that runs has in its copy what its steps deployed, and
  in the file what it saved since; in order, the file names what every script
  before it deployed. A script may be run again, but never forgets: what the file
  names, the copy names (`Covers`).
* `BatchInv`: once a batch was scheduled, the changer of the configuration fits
  it and is still scheduled or was executed. It holds because no later script of
  the release saves anything (`NothingSavedAfter`).
* `CheckedInv`: a batch about to be executed was just verified without error, so
  the script does not end without executing it.
* `ConfiguredInv`: once a change was executed, the system is configured; a second
  execution of the same changer configures it again.

`Made` says that a step of a kind was made since the last restart at the
beginning. `OnlyKnownFailures` then has one step for each way a step of a script
may fail, and `FinishedReleases` follows because each of its four releases
executes something (`SomethingExecutes`).

`BatchesLinked` needs one more, `LibraryInv`, for v0.1.12 in order:

* what the scripts before the current one link (`LinkedBy` says which links what),
  and what the current one linked so far, is linked to the library the same copy of
  the configuration names (`LinkedUpTo`, of the file and of the running script);
* `MoCVendors` of that copy has a proxy deployed for it;
* a changer that was scheduled took its addresses from such a copy (`OneLibraryIn`).

Running a script again links a name again, to the library of the copy it read.
Running the first again deploys a new library, and then nothing after it counts as
linked. A scheduled changer keeps its property because nothing deployed is linked
again and no proxy of the release is upgraded before the batch (`Grows`).

## 10. What is only model-checked, and what is not modelled

Only checked: liveness (`SettlementEnds`, `RequestsServed`, `DeploymentFinishes`;
out of the prover's reach).

Not modelled, see the components of `PROJECT.json`:

* how the commission splitters divide what they hold, the token migrator and
  the setters of single parameters;
* the rate formulas of `MoCHelperLib`, pure arithmetic in fixed point;
* the addresses of `MoCConnector` and the whitelist, written once at deployment:
  calls between the contracts are modelled as allowed, others as absent;
* the second version's own contracts, which are not part of the repository, and
  with them what `V2MigrationChanger` verifies and transfers;
* the tasks of `hardhat/`: configuration and wrappers around single calls;
* mocks, flattened copies, ABIs, examples.

Seen on the way, where it is about values and no module has them:
`migrations/utils.js` reads `vendorGuardianAddress`, `mocTokenCommissionsAddress`
and `governorOwnerAddress` by destructuring a string (lines 477, 611, 616 and
634), which gives `undefined` whenever the configuration sets them.
`migrations/configs/config.json` has entries for `coverage`, `development`,
`mocTestnet`, `mocMainnet` and `devTestnet`, while `truffle.js` calls its public
networks `rdocTestnetAlpha`, `rdocTestnet` and `rdocMainnet` (and a local one
`rskRegtestLocal`): for these `config` is `undefined` and the deployment stops in
migration 0 (`migrations/utils.js:133`), before its first transaction, with the
values as committed. What is said of deployments is said of a network that has an
entry.
