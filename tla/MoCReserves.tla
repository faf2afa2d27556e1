----------------------------- MODULE MoCReserves -----------------------------
(***************************************************************************)
(* The reserve tokens behind the stable token: minting and redeeming       *)
(* (contracts/MoC.sol, contracts/MoCExchange.sol), the state machine and   *)
(* the liquidation (contracts/MoCState.sol), bucket C0 and its bag of      *)
(* interest (contracts/MoCBucketContainer.sol) and the periodic payments   *)
(* (contracts/MoCInrate.sol).                                              *)
(*                                                                         *)
(* The reserve tokens are counted twice, as `reserves' by MoCState and as  *)
(* nReserve by the bucket, in different contracts, and the stable tokens   *)
(* too.  Bucket X2 is empty.  Fees are left out where they are deposited   *)
(* and sent in one transaction; those of the settlement are not.  Holders  *)
(* are not told apart: an operation may move any amount that there is.     *)
(***************************************************************************)
EXTENDS Integers

CONSTANTS
    Amounts,            \* of reserve tokens or RiskPro an operation is asked for
    StableAmounts,      \* of stable tokens
    Prices,             \* of the reserve token, and of its moving average
    MocPrecision,
    Liq, Protected, Utpdu, Cobj,    \* thresholds of coverage
    Discounts, InterestRates, CommissionRate, RiskProRate,
    DaysToSettlement,
    MaxReserve, MaxRiskPro      \* bounds of the model

ASSUME ReservesAssumption ==
    /\ Amounts \subseteq Nat /\ StableAmounts \subseteq Nat
    /\ Prices \subseteq Nat \ {0} /\ MocPrecision \in Nat \ {0}
    /\ Liq \in Nat /\ Protected \in Nat /\ Utpdu \in Nat
    /\ Cobj \in Nat /\ Cobj > MocPrecision
    /\ Discounts \subseteq 0 .. MocPrecision /\ InterestRates \subseteq 0 .. MocPrecision
    /\ CommissionRate \in 0 .. MocPrecision /\ RiskProRate \in 0 .. MocPrecision
    /\ DaysToSettlement \subseteq Nat /\ MaxReserve \in Nat /\ MaxRiskPro \in Nat

VARIABLES
    reserves,           \* MoCState: what MoC has, and can send
    nReserve, nStable, nRiskPro, inrateBag,     \* bucket C0
    stableSupply,       \* totalSupply of the stable token
    price,              \* of the oracle
    state, liquidationEnabled, liquidationPrice, liquidationExecuted,
    settlementPrice,    \* frozen by a running settlement; 0 when it is ready
    commissions,        \* accumulated by it
    inCall,             \* a transaction of runSettlement has steps left
    lapses              \* history: what went wrong for the holders at a liquidation

bucketVars == <<nReserve, nStable, nRiskPro, inrateBag>>
stateVars == <<state, liquidationPrice, liquidationExecuted, lapses>>
settlementVars == <<settlementPrice, commissions, inCall>>
vars == <<reserves, bucketVars, stableSupply, price, stateVars, liquidationEnabled,
          settlementVars>>

Smaller(m, n) == IF m <= n THEN m ELSE n

-----------------------------------------------------------------------------
(* Prices and coverage. *)

StableTokensResTokensValue(amount, reservePrice) == (amount * MocPrecision) \div reservePrice

GlobalLockedReserveTokens == StableTokensResTokensValue(stableSupply, price)

CollateralReserves == reserves - inrateBag

\* No stable tokens: the coverage is above any threshold.
CoverageAtMost(threshold) ==
    LET lB == GlobalLockedReserveTokens
    IN  lB # 0 /\ (CollateralReserves * MocPrecision) \div lB <= threshold

CoverageBelowOne ==
    LET lB == GlobalLockedReserveTokens
    IN  lB # 0 /\ (CollateralReserves * MocPrecision) \div lB < MocPrecision

RiskProTecPrice ==
    LET lb == StableTokensResTokensValue(nStable, price)
    IN  IF CoverageAtMost(Protected) /\ CoverageBelowOne THEN 1
        ELSE IF nReserve < lb THEN 0
        ELSE IF nRiskPro = 0 THEN MocPrecision
        ELSE ((nReserve - lb) * MocPrecision) \div nRiskPro

RiskProUsdPrice == (price * RiskProTecPrice) \div MocPrecision

\* Mutant: the target falls while the price is above its moving average.
AdjCobjFallen(bCons) == (Cobj * bCons) \div price

\* Cobj, raised while the price is above its moving average.
AdjCobj(bCons) == (Cobj * price) \div bCons

\* What a reserve leaves over the target coverage, in stable tokens times price.
OverCobj(nRes, nTokens, bCons) == nRes * price - AdjCobj(bCons) * nTokens

\* The smaller of the bucket's and the system's.
AbsoluteOverCobj(bCons) ==
    Smaller(OverCobj(CollateralReserves, stableSupply, bCons),
            OverCobj(nReserve, nStable, bCons))

AbsoluteMaxStableToken(bCons) ==
    IF AbsoluteOverCobj(bCons) <= 0 THEN 0
    ELSE AbsoluteOverCobj(bCons) \div (AdjCobj(bCons) - MocPrecision)

AbsoluteMaxRiskPro(bCons) ==
    IF AbsoluteOverCobj(bCons) <= 0 THEN 0
    ELSE AbsoluteOverCobj(bCons) \div RiskProUsdPrice

-----------------------------------------------------------------------------
(* The state machine. *)

\* Mutant: a liquidated system is looked at again.
NextStateAgain ==
    IF CoverageAtMost(Liq) /\ liquidationEnabled THEN "Liquidated"
    ELSE IF ~CoverageAtMost(Liq) /\ CoverageAtMost(Utpdu) THEN "RiskProDiscount"
    ELSE IF ~CoverageAtMost(Utpdu) /\ CoverageAtMost(Cobj) THEN "BelowCobj"
    ELSE "AboveCobj"

\* At or below Liq with the liquidation disabled, it is AboveCobj.
NextState ==
    IF state = "Liquidated" THEN "Liquidated"
    ELSE IF CoverageAtMost(Liq) /\ liquidationEnabled THEN "Liquidated"
    ELSE IF ~CoverageAtMost(Liq) /\ CoverageAtMost(Utpdu) THEN "RiskProDiscount"
    ELSE IF ~CoverageAtMost(Utpdu) /\ CoverageAtMost(Cobj) THEN "BelowCobj"
    ELSE "AboveCobj"

\* Dividing by nothing reverts.
LiquidationPrice ==
    (stableSupply * MocPrecision) \div Smaller(GlobalLockedReserveTokens, reserves)

\* nextState of MoCState.sol.
Transition ==
    LET begins == NextState = "Liquidated" /\ state # "Liquidated"
    IN  /\ state' = NextState
        /\ begins => reserves > 0
        /\ liquidationPrice' = IF begins THEN LiquidationPrice ELSE liquidationPrice

Uncovered ==
    IF NextState = "Liquidated" /\ state # "Liquidated"
       /\ reserves < GlobalLockedReserveTokens
    THEN {"uncovered"} ELSE {}

Init ==
    /\ reserves = 0 /\ nReserve = 0 /\ nStable = 0 /\ nRiskPro = 0 /\ inrateBag = 0
    /\ stableSupply = 0
    /\ price \in Prices
    /\ state = "AboveCobj"
    /\ liquidationEnabled \in BOOLEAN
    /\ liquidationPrice = 0 /\ liquidationExecuted = FALSE
    /\ settlementPrice = 0 /\ commissions = 0 /\ inCall = FALSE
    /\ lapses = {}

\* What transitionState lets through: in any state but Liquidated.
Operating ==
    /\ ~inCall
    /\ Transition
    /\ NextState # "Liquidated"
    /\ UNCHANGED <<liquidationExecuted, lapses>>

NotInProtectionMode == ~CoverageAtMost(Protected)

\* Mutant: the remainder is sent again by every liquidate.
LiquidateAgain ==
    /\ ~inCall
    /\ Transition
    /\ NextState = "Liquidated"
    /\ reserves' = Smaller(reserves, GlobalLockedReserveTokens)
    /\ liquidationExecuted' = TRUE
    /\ lapses' = lapses \union Uncovered
    /\ UNCHANGED <<bucketVars, stableSupply, price, liquidationEnabled, settlementVars>>

\* What is above the stable tokens' goes to the commissions address, once.
Liquidate ==
    /\ ~inCall
    /\ Transition
    /\ NextState = "Liquidated"
    /\ ~liquidationExecuted
    /\ reserves' = Smaller(reserves, GlobalLockedReserveTokens)
    /\ liquidationExecuted' = TRUE
    /\ lapses' = lapses \union Uncovered
    /\ UNCHANGED <<bucketVars, stableSupply, price, liquidationEnabled, settlementVars>>

\* evalLiquidation, and any other operation, when the system is not liquidated.
EvalLiquidation ==
    /\ Operating
    /\ UNCHANGED <<reserves, bucketVars, stableSupply, price, liquidationEnabled,
                   settlementVars>>

\* nextState is public: the system may be Liquidated and liquidate yet to run.
NextStateAlone ==
    /\ ~inCall
    /\ Transition
    /\ lapses' = lapses \union Uncovered
           \union (IF NextState = "Liquidated" /\ ~liquidationExecuted
                   THEN {"unexecuted"} ELSE {})
    /\ UNCHANGED <<reserves, bucketVars, stableSupply, price, liquidationEnabled,
                   liquidationExecuted, settlementVars>>

-----------------------------------------------------------------------------
(* Users. *)

AddReserves(tokenAmount) ==
    /\ ~inCall
    /\ reserves' = reserves + tokenAmount /\ reserves' <= MaxReserve
    /\ nReserve' = nReserve + tokenAmount
    /\ UNCHANGED <<nStable, nRiskPro, inrateBag, stableSupply, price, stateVars,
                   liquidationEnabled, settlementVars>>

\* In the state of discount the price may be the lower one; a mint partly at each
\* is taken as one at either.
RiskProPrices ==
    {RiskProTecPrice} \union
        (IF NextState = "RiskProDiscount"
         THEN {(RiskProTecPrice * (MocPrecision - d)) \div MocPrecision : d \in Discounts}
         ELSE {})

MintRiskPro(resTokensToMint, riskProPrice) ==
    /\ Operating /\ NotInProtectionMode
    /\ nRiskPro' = nRiskPro + (IF riskProPrice = 0 THEN 0
                               ELSE (resTokensToMint * MocPrecision) \div riskProPrice)
    /\ nRiskPro' <= MaxRiskPro
    /\ reserves' = reserves + resTokensToMint /\ reserves' <= MaxReserve
    /\ nReserve' = nReserve + resTokensToMint
    /\ UNCHANGED <<nStable, inrateBag, stableSupply, price, liquidationEnabled,
                   settlementVars>>

RedeemRiskPro(riskProAmount, bCons) ==
    /\ Operating /\ NextState = "AboveCobj"
    /\ riskProAmount <= nRiskPro
    /\ OverCobj(CollateralReserves, stableSupply, bCons) > 0 => RiskProUsdPrice > 0
    /\ OverCobj(nReserve, nStable, bCons) > 0 => RiskProUsdPrice > 0
    /\ LET amount == Smaller(riskProAmount, AbsoluteMaxRiskPro(bCons))
           total == (RiskProTecPrice * amount) \div MocPrecision
       IN  /\ total <= nReserve /\ total <= reserves
           /\ nRiskPro' = nRiskPro - amount
           /\ nReserve' = nReserve - total
           /\ reserves' = reserves - total
    /\ UNCHANGED <<nStable, inrateBag, stableSupply, price, liquidationEnabled,
                   settlementVars>>

MintStableToken(resTokensToMint, bCons) ==
    LET stableTokens == (resTokensToMint * price) \div MocPrecision
        amount == Smaller(stableTokens, AbsoluteMaxStableToken(bCons))
        totalCost == IF amount = stableTokens THEN resTokensToMint
                     ELSE StableTokensResTokensValue(amount, price)
    IN  /\ Operating /\ NextState = "AboveCobj"
        /\ reserves' = reserves + totalCost /\ reserves' <= MaxReserve
        /\ nReserve' = nReserve + totalCost
        /\ nStable' = nStable + amount
        /\ stableSupply' = stableSupply + amount
        /\ UNCHANGED <<nRiskPro, inrateBag, price, liquidationEnabled, settlementVars>>

\* Mutant: the interest is not taken from what leaves the reserves.
RedeemFreeStableTokenWhole(stableTokenAmount, rate) ==
    LET amount == Smaller(stableTokenAmount, nStable)
        value == StableTokensResTokensValue(amount, price)
        interest == (value * rate) \div MocPrecision
    IN  /\ Operating /\ NotInProtectionMode
        /\ amount <= stableSupply /\ value <= nReserve /\ value <= reserves
        /\ stableSupply' = stableSupply - amount
        /\ nStable' = nStable - amount
        /\ nReserve' = nReserve - value
        /\ inrateBag' = inrateBag + interest
        /\ reserves' = reserves - value
        /\ UNCHANGED <<nRiskPro, price, liquidationEnabled, settlementVars>>

\* The interest goes from the bucket to its bag.
RedeemFreeStableToken(stableTokenAmount, rate) ==
    LET amount == Smaller(stableTokenAmount, nStable)
        value == StableTokensResTokensValue(amount, price)
        interest == (value * rate) \div MocPrecision
    IN  /\ Operating /\ NotInProtectionMode
        /\ amount <= stableSupply /\ value <= nReserve
        /\ value - interest <= reserves
        /\ stableSupply' = stableSupply - amount
        /\ nStable' = nStable - amount
        /\ nReserve' = nReserve - value
        /\ inrateBag' = inrateBag + interest
        /\ reserves' = reserves - (value - interest)
        /\ UNCHANGED <<nRiskPro, price, liquidationEnabled, settlementVars>>

\* A holder's all, at the price of the liquidation; nothing if it cannot be sent.
RedeemAllStableToken(balance) ==
    LET totalResTokens == StableTokensResTokensValue(balance, liquidationPrice)
    IN  /\ ~inCall /\ state = "Liquidated"
        /\ balance <= stableSupply /\ totalResTokens <= reserves
        /\ stableSupply' = stableSupply - balance
        /\ reserves' = reserves - totalResTokens
        /\ UNCHANGED <<bucketVars, price, stateVars, liquidationEnabled, settlementVars>>

-----------------------------------------------------------------------------
(* Periodic payments; a payment may be due at any time. *)

DailyInrate(days) == IF days = 0 THEN inrateBag ELSE inrateBag \div (days + 1)

DailyInratePayment(days) ==
    LET toMove == Smaller(inrateBag, DailyInrate(days))
    IN  /\ ~inCall
        /\ inrateBag' = inrateBag - toMove
        /\ nReserve' = nReserve + toMove
        /\ UNCHANGED <<reserves, nStable, nRiskPro, stableSupply, price, stateVars,
                       liquidationEnabled, settlementVars>>

\* Mutant: what was sent is taken for what was due, whether or not it could be.
PayRiskProHoldersInterestUnsent ==
    LET toPay == (nReserve * RiskProRate) \div MocPrecision
    IN  /\ ~inCall
        /\ reserves' = reserves - toPay
        /\ nReserve' = nReserve - toPay
        /\ lapses' = IF state = "Liquidated" THEN lapses \union {"interest"} ELSE lapses
        /\ UNCHANGED <<nStable, nRiskPro, inrateBag, stableSupply, price, state,
                       liquidationPrice, liquidationExecuted, liquidationEnabled,
                       settlementVars>>

\* Out of what the bucket has, also when the system is liquidated; a payment that
\* cannot be sent is skipped.
PayRiskProHoldersInterestPayment ==
    LET toPay == (nReserve * RiskProRate) \div MocPrecision
    IN  /\ ~inCall
        /\ toPay <= reserves
        /\ reserves' = reserves - toPay
        /\ nReserve' = nReserve - toPay
        /\ lapses' = IF state = "Liquidated" THEN lapses \union {"interest"} ELSE lapses
        /\ UNCHANGED <<nStable, nRiskPro, inrateBag, stableSupply, price, state,
                       liquidationPrice, liquidationExecuted, liquidationEnabled,
                       settlementVars>>

-----------------------------------------------------------------------------
(* The settlement: a transaction is a call, some steps and its end, and        *)
(* nothing else happens between them.                                          *)

RunSettlement ==
    /\ Operating
    /\ inCall' = TRUE
    /\ settlementPrice' = IF settlementPrice = 0 THEN price ELSE settlementPrice
    /\ UNCHANGED <<reserves, bucketVars, stableSupply, price, liquidationEnabled,
                   commissions>>

\* A step.  The commission stays until the settlement ends; if the rest cannot be
\* sent, nothing is redeemed.
StableTokenRedemption(amount) ==
    LET total == StableTokensResTokensValue(amount, settlementPrice)
        commission == (total * CommissionRate) \div MocPrecision
    IN  /\ inCall
        /\ amount <= stableSupply /\ amount <= nStable
        /\ total <= nReserve /\ total - commission <= reserves
        /\ stableSupply' = stableSupply - amount
        /\ nStable' = nStable - amount
        /\ nReserve' = nReserve - total
        /\ reserves' = reserves - (total - commission)
        /\ commissions' = commissions + commission
        /\ UNCHANGED <<nRiskPro, inrateBag, price, stateVars, liquidationEnabled,
                       settlementPrice, inCall>>

\* The transaction ends, and perhaps the settlement with it.
EndOfCall(finished) ==
    /\ inCall
    /\ inCall' = FALSE
    /\ IF finished
       THEN /\ commissions <= reserves
            /\ reserves' = reserves - commissions
            /\ commissions' = 0 /\ settlementPrice' = 0
       ELSE UNCHANGED <<reserves, commissions, settlementPrice>>
    /\ UNCHANGED <<bucketVars, stableSupply, price, stateVars, liquidationEnabled>>

-----------------------------------------------------------------------------
PriceMove(newPrice) ==
    /\ ~inCall
    /\ price' = newPrice
    /\ UNCHANGED <<reserves, bucketVars, stableSupply, stateVars, liquidationEnabled,
                   settlementVars>>

SetLiquidationEnabled(enabled) ==
    /\ ~inCall
    /\ liquidationEnabled' = enabled
    /\ UNCHANGED <<reserves, bucketVars, stableSupply, price, stateVars, settlementVars>>

\* min(price, moving average).
Bcons == {p \in Prices : p <= price}

Users ==
    \/ \E amount \in Amounts :
          \/ AddReserves(amount)
          \/ \E riskProPrice \in RiskProPrices : MintRiskPro(amount, riskProPrice)
          \/ \E bCons \in Bcons : RedeemRiskPro(amount, bCons) \/ MintStableToken(amount, bCons)
    \/ \E amount \in StableAmounts :
          \/ \E rate \in InterestRates : RedeemFreeStableToken(amount, rate)
          \/ RedeemAllStableToken(amount)

Payments ==
    \/ \E days \in DaysToSettlement : DailyInratePayment(days)
    \/ PayRiskProHoldersInterestPayment

Settlement ==
    \/ RunSettlement
    \/ \E amount \in StableAmounts : StableTokenRedemption(amount)
    \/ \E finished \in BOOLEAN : EndOfCall(finished)

Environment ==
    \/ \E newPrice \in Prices : PriceMove(newPrice)
    \/ \E enabled \in BOOLEAN : SetLiquidationEnabled(enabled)

Next ==
    \/ Users \/ Payments \/ Settlement \/ Environment
    \/ Liquidate \/ EvalLiquidation \/ NextStateAlone

Spec == Init /\ [][Next]_vars

-----------------------------------------------------------------------------
States == {"Liquidated", "RiskProDiscount", "BelowCobj", "AboveCobj"}

\* Every variable keeps its type: no subtraction of the two books goes negative.
TypeOK ==
    /\ reserves \in Nat /\ nReserve \in Nat /\ nStable \in Nat /\ nRiskPro \in Nat
    /\ inrateBag \in Nat /\ stableSupply \in Nat
    /\ price \in Prices
    /\ state \in States /\ liquidationEnabled \in BOOLEAN
    /\ liquidationPrice \in Nat /\ liquidationExecuted \in BOOLEAN
    /\ settlementPrice \in Prices \union {0} /\ commissions \in Nat /\ inCall \in BOOLEAN
    /\ lapses \subseteq {"uncovered", "unexecuted", "interest"}

\* Until a liquidation the two books agree, between the transactions of a
\* settlement too: the reserves are the bucket, its bag of interest and the
\* commissions accumulated, and the bucket's stable tokens are all there are.
BooksAgree ==
    state # "Liquidated" =>
        /\ reserves = nReserve + inrateBag + commissions
        /\ nStable = stableSupply

\* No stable token is minted and no RiskPro redeemed unless the coverage is above
\* its target, exactly, even when the liquidation is disabled and a coverage under
\* Liq counts as AboveCobj.
OnlyAboveTarget ==
    [][ stableSupply' > stableSupply \/ nRiskPro' < nRiskPro =>
          CollateralReserves * price > Cobj * stableSupply ]_vars

\* Minting stable tokens does not take the coverage below its target, up to the
\* rounding of one reserve token.
MintKeepsTarget ==
    [][ stableSupply' > stableSupply =>
          (CollateralReserves' + 1) * price' >= Cobj * stableSupply' ]_vars

\* A liquidated system stays so, at the price of the liquidation; nothing is minted
\* again and RiskPro is worth nothing.
LiquidationIsFinal ==
    [][ state = "Liquidated" =>
          /\ state' = "Liquidated" /\ liquidationPrice' = liquidationPrice
          /\ stableSupply' <= stableSupply /\ nRiskPro' = nRiskPro
          /\ liquidationExecuted => liquidationExecuted' ]_vars

\* What the holders of stable tokens are owed by a liquidation is there.
Owed == IF state = "Liquidated" THEN StableTokensResTokensValue(stableSupply, liquidationPrice)
        ELSE 0

\* If the liquidation came while the stable tokens were covered, was executed in
\* the same transaction, and no interest was paid to RiskPro holders after it,
\* every holder can be paid at its price, in whatever order and wherever the price
\* of the oracle goes.
LiquidationPaysHolders == lapses = {} => Owed <= reserves

=============================================================================
