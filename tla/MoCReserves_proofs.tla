------------------------- MODULE MoCReserves_proofs -------------------------
(***************************************************************************)
(* Proofs about MoCReserves, for any amounts, prices, thresholds of         *)
(* coverage, rates and precision.                                          *)
(***************************************************************************)
EXTENDS MoCReserves, TLAPS

-----------------------------------------------------------------------------
(* Division of natural numbers. *)

LEMMA DivisionIsNat ==
    ASSUME NEW n \in Nat, NEW d \in Nat \ {0}
    PROVE  n \div d \in Nat /\ d * (n \div d) <= n /\ n < d * (n \div d) + d
  OBVIOUS

LEMMA ProductIsNat ==
    ASSUME NEW m \in Nat, NEW n \in Nat
    PROVE  m * n \in Nat /\ m * n = n * m
  OBVIOUS

LEMMA ProductMonotone ==
    ASSUME NEW f \in Nat, NEW m \in Nat, NEW n \in Nat, m <= n
    PROVE  f * m <= f * n
<1>1. PICK k \in Nat : n = m + k
  OBVIOUS
<1>2. f * n = f * m + f * k /\ f * m \in Nat /\ f * k \in Nat
  BY <1>1
<1>. QED
  BY <1>2

\* What is a multiple of the divisor, or less than one, bounds the quotient.
LEMMA QuotientAtLeast ==
    ASSUME NEW n \in Nat, NEW d \in Nat \ {0}, NEW k \in Nat, d * k <= n
    PROVE  k <= n \div d
<1> DEFINE q == n \div d
<1>1. q \in Nat /\ n < d * q + d
  BY DivisionIsNat
<1>. HIDE DEF q
<1>2. SUFFICES ASSUME q < k PROVE FALSE
  BY <1>1 DEF q
<1>3. PICK j \in Nat : k = q + 1 + j
  BY <1>1, <1>2
<1>4. d * k = d * q + d + d * j /\ d * j \in Nat /\ d * q \in Nat
  BY <1>1, <1>3
<1>. QED
  BY <1>1, <1>4

LEMMA QuotientBelow ==
    ASSUME NEW n \in Nat, NEW d \in Nat \ {0}, NEW k \in Nat, n <= d * k
    PROVE  n \div d <= k
<1> DEFINE q == n \div d
<1>1. q \in Nat /\ d * q <= n
  BY DivisionIsNat
<1>. HIDE DEF q
<1>2. SUFFICES ASSUME k < q PROVE FALSE
  BY <1>1 DEF q
<1>3. PICK j \in Nat : q = k + 1 + j
  BY <1>1, <1>2
<1>4. d * q = d * k + d + d * j /\ d * j \in Nat /\ d * k \in Nat
  BY <1>1, <1>3
<1>. QED
  BY <1>1, <1>4

\* A fraction of a value is no more than the value.
LEMMA FractionAtMost ==
    ASSUME NEW value \in Nat, NEW d \in Nat \ {0}, NEW rate \in 0 .. d
    PROVE  (value * rate) \div d \in 0 .. value
<1>1. value * rate \in Nat /\ value * rate <= value * d /\ value * d = d * value
  BY ProductIsNat, ProductMonotone, rate \in Nat, rate <= d
<1>2. value * rate <= d * value
  BY <1>1
<1>3. (value * rate) \div d <= value /\ (value * rate) \div d \in Nat
  <2> DEFINE n == value * rate
  <2>1. n \in Nat /\ n <= d * value
    BY <1>1, <1>2
  <2>. HIDE DEF n
  <2>2. n \div d <= value /\ n \div d \in Nat
    BY <2>1, QuotientBelow, DivisionIsNat
  <2>. QED
    BY <2>2 DEF n
<1>. QED
  BY <1>3

\* A larger divisor, a smaller quotient.
LEMMA DivisionAntitone ==
    ASSUME NEW n \in Nat, NEW d \in Nat \ {0}, NEW e \in Nat \ {0}, d <= e
    PROVE  n \div e <= n \div d
<1> DEFINE q == n \div e
<1>1. q \in Nat /\ e * q <= n
  BY DivisionIsNat
<1>. HIDE DEF q
<1>2. q * d <= q * e /\ q * d = d * q /\ q * e = e * q /\ d * q \in Nat /\ e * q \in Nat
  BY <1>1, ProductMonotone, ProductIsNat
<1>3. d * q <= n
  BY <1>1, <1>2
<1>. QED
  BY <1>1, <1>3, QuotientAtLeast DEF q

\* Two shares rounded down are no more than their sum rounded down.
LEMMA SharesAtMost ==
    ASSUME NEW m \in Nat, NEW n \in Nat, NEW d \in Nat \ {0}
    PROVE  m \div d + n \div d <= (m + n) \div d
<1> DEFINE p == m \div d
           q == n \div d
<1>1. p \in Nat /\ q \in Nat /\ d * p <= m /\ d * q <= n
  BY DivisionIsNat
<1>. HIDE DEF p, q
<1>2. d * (p + q) = d * p + d * q /\ d * p \in Nat /\ d * q \in Nat
  BY <1>1
<1>3. d * (p + q) <= m + n /\ p + q \in Nat /\ m + n \in Nat
  BY <1>1, <1>2
<1>4. p + q <= (m + n) \div d
  BY <1>3, QuotientAtLeast
<1>. QED
  BY <1>4 DEF p, q

-----------------------------------------------------------------------------
(* The operators of the model. *)

LEMMA Constant ==
    /\ Amounts \subseteq Nat /\ StableAmounts \subseteq Nat
    /\ Prices \subseteq Nat \ {0} /\ MocPrecision \in Nat \ {0}
    /\ Cobj \in Nat /\ Cobj > MocPrecision
    /\ CommissionRate \in 0 .. MocPrecision /\ RiskProRate \in 0 .. MocPrecision
    /\ InterestRates \subseteq 0 .. MocPrecision /\ Discounts \subseteq 0 .. MocPrecision
    /\ DaysToSettlement \subseteq Nat
  BY ReservesAssumption

LEMMA StableTokensValue ==
    ASSUME NEW amount \in Nat, NEW p \in Nat \ {0}
    PROVE  StableTokensResTokensValue(amount, p) \in Nat
<1>1. amount * MocPrecision \in Nat
  BY Constant, ProductIsNat
<1>. QED
  BY <1>1, DivisionIsNat DEF StableTokensResTokensValue

LEMMA LockedIsNat ==
    ASSUME TypeOK
    PROVE  GlobalLockedReserveTokens \in Nat
  BY StableTokensValue, Constant DEF TypeOK, GlobalLockedReserveTokens

LEMMA TecPriceIsNat ==
    ASSUME TypeOK
    PROVE  RiskProTecPrice \in Nat
<1> DEFINE lb == StableTokensResTokensValue(nStable, price)
<1>1. lb \in Nat
  BY StableTokensValue, Constant DEF TypeOK
<1>2. nReserve \in Nat /\ nRiskPro \in Nat /\ MocPrecision \in Nat
  BY Constant DEF TypeOK
<1>3. ASSUME ~ (nReserve < lb), nRiskPro # 0
      PROVE  ((nReserve - lb) * MocPrecision) \div nRiskPro \in Nat
  <2>. HIDE DEF lb
  <2>1. nReserve - lb \in Nat
    BY <1>1, <1>2, <1>3
  <2>2. (nReserve - lb) * MocPrecision \in Nat
    BY <1>2, <2>1, ProductIsNat
  <2>. QED
    BY <1>2, <1>3, <2>2, DivisionIsNat
<1>4. RiskProTecPrice =
        IF CoverageAtMost(Protected) /\ CoverageBelowOne THEN 1
        ELSE IF nReserve < lb THEN 0
        ELSE IF nRiskPro = 0 THEN MocPrecision
        ELSE ((nReserve - lb) * MocPrecision) \div nRiskPro
  BY DEF RiskProTecPrice
<1>. HIDE DEF lb
<1>. QED
  BY <1>2, <1>3, <1>4

LEMMA UsdPriceIsNat ==
    ASSUME TypeOK
    PROVE  RiskProUsdPrice \in Nat
<1>1. price \in Nat
  BY Constant DEF TypeOK
<1>2. price * RiskProTecPrice \in Nat
  BY <1>1, TecPriceIsNat, ProductIsNat
<1>. QED
  BY <1>2, Constant, DivisionIsNat DEF RiskProUsdPrice

\* The target is only ever raised: the conservative price is at most the price.
LEMMA AdjCobjAbove ==
    ASSUME TypeOK, NEW bCons \in Bcons
    PROVE  AdjCobj(bCons) \in Nat /\ AdjCobj(bCons) >= Cobj
<1>1. bCons \in Nat \ {0} /\ price \in Nat /\ bCons <= price /\ Cobj \in Nat
  BY Constant DEF TypeOK, Bcons
<1>2. Cobj * price \in Nat /\ bCons * Cobj <= Cobj * price
  BY <1>1, ProductIsNat, ProductMonotone
<1>3. AdjCobj(bCons) = (Cobj * price) \div bCons
  BY DEF AdjCobj
<1>. QED
  BY <1>1, <1>2, <1>3, QuotientAtLeast, DivisionIsNat

\* What there is over the target, when there is any, is there for the system.
LEMMA OverTarget ==
    ASSUME TypeOK, NEW bCons \in Bcons
    PROVE  /\ AbsoluteOverCobj(bCons) \in Int
           /\ AbsoluteOverCobj(bCons) <=
                CollateralReserves * price - AdjCobj(bCons) * stableSupply
           /\ AdjCobj(bCons) * stableSupply >= Cobj * stableSupply
<1>1. /\ AdjCobj(bCons) \in Nat /\ AdjCobj(bCons) >= Cobj /\ Cobj \in Nat
      /\ price \in Nat /\ nReserve \in Nat /\ nStable \in Nat /\ stableSupply \in Nat
      /\ CollateralReserves \in Int
  BY AdjCobjAbove, Constant DEF TypeOK, CollateralReserves
<1>2. /\ nReserve * price - AdjCobj(bCons) * nStable \in Int
      /\ CollateralReserves * price - AdjCobj(bCons) * stableSupply \in Int
  BY <1>1
<1>3. /\ stableSupply * Cobj <= stableSupply * AdjCobj(bCons)
      /\ stableSupply * Cobj = Cobj * stableSupply
      /\ stableSupply * AdjCobj(bCons) = AdjCobj(bCons) * stableSupply
  BY <1>1, ProductMonotone, ProductIsNat
<1>4. AdjCobj(bCons) * stableSupply >= Cobj * stableSupply
  BY <1>1, <1>3, ProductIsNat
<1>. QED
  BY <1>2, <1>4 DEF AbsoluteOverCobj, OverCobj, Smaller

\* What may be minted or redeemed is a quantity, and only positive over the target.
LEMMA MaximaAreNat ==
    ASSUME TypeOK, NEW bCons \in Bcons
    PROVE  /\ AbsoluteMaxStableToken(bCons) \in Nat
           /\ AbsoluteMaxStableToken(bCons) > 0 => AbsoluteOverCobj(bCons) > 0
           /\ (AbsoluteOverCobj(bCons) > 0 => RiskProUsdPrice > 0) =>
                /\ AbsoluteMaxRiskPro(bCons) \in Nat
                /\ AbsoluteMaxRiskPro(bCons) > 0 => AbsoluteOverCobj(bCons) > 0
<1>1. /\ AbsoluteOverCobj(bCons) \in Int /\ RiskProUsdPrice \in Nat
      /\ AdjCobj(bCons) - MocPrecision \in Nat \ {0}
  BY OverTarget, UsdPriceIsNat, AdjCobjAbove, Constant
<1>2. ASSUME AbsoluteOverCobj(bCons) > 0
      PROVE  AbsoluteOverCobj(bCons) \div (AdjCobj(bCons) - MocPrecision) \in Nat
  BY <1>1, <1>2, DivisionIsNat
<1>3. ASSUME AbsoluteOverCobj(bCons) > 0, RiskProUsdPrice > 0
      PROVE  AbsoluteOverCobj(bCons) \div RiskProUsdPrice \in Nat
  BY <1>1, <1>3, DivisionIsNat
<1>4. /\ AbsoluteMaxStableToken(bCons) \in Nat
      /\ AbsoluteMaxStableToken(bCons) > 0 => AbsoluteOverCobj(bCons) > 0
  <2>1. CASE AbsoluteOverCobj(bCons) > 0
    <3>1. AbsoluteMaxStableToken(bCons)
            = AbsoluteOverCobj(bCons) \div (AdjCobj(bCons) - MocPrecision)
      BY <1>1, <2>1 DEF AbsoluteMaxStableToken
    <3>. QED
      BY <2>1, <3>1, <1>2
  <2>2. CASE ~ (AbsoluteOverCobj(bCons) > 0)
    <3>1. AbsoluteMaxStableToken(bCons) = 0
      BY <1>1, <2>2 DEF AbsoluteMaxStableToken
    <3>. QED
      BY <3>1
  <2>. QED
    BY <2>1, <2>2
<1>5. ASSUME AbsoluteOverCobj(bCons) > 0 => RiskProUsdPrice > 0
      PROVE  /\ AbsoluteMaxRiskPro(bCons) \in Nat
             /\ AbsoluteMaxRiskPro(bCons) > 0 => AbsoluteOverCobj(bCons) > 0
  <2>1. CASE AbsoluteOverCobj(bCons) > 0
    <3>1. AbsoluteMaxRiskPro(bCons) = AbsoluteOverCobj(bCons) \div RiskProUsdPrice
      BY <1>1, <2>1 DEF AbsoluteMaxRiskPro
    <3>. QED
      BY <2>1, <3>1, <1>3, <1>5
  <2>2. CASE ~ (AbsoluteOverCobj(bCons) > 0)
    <3>1. AbsoluteMaxRiskPro(bCons) = 0
      BY <1>1, <2>2 DEF AbsoluteMaxRiskPro
    <3>. QED
      BY <3>1
  <2>. QED
    BY <2>1, <2>2
<1>. QED
  BY <1>4, <1>5

-----------------------------------------------------------------------------
(* The state machine. *)

LEMMA NextStateOK ==
    /\ NextState \in States
    /\ state = "Liquidated" => NextState = "Liquidated"
    /\ NextState = "Liquidated" /\ state # "Liquidated" => GlobalLockedReserveTokens # 0
  BY DEF NextState, States, CoverageAtMost

\* The price of a liquidation is at least that of the oracle: it shares out no more
\* than what the stable tokens lock.
LEMMA LiquidationPriceAbove ==
    ASSUME TypeOK, GlobalLockedReserveTokens # 0, reserves > 0
    PROVE  LiquidationPrice \in Nat \ {0} /\ price <= LiquidationPrice
<1> DEFINE n == stableSupply * MocPrecision
           shared == Smaller(GlobalLockedReserveTokens, reserves)
<1>1. n \in Nat /\ price \in Nat \ {0} /\ reserves \in Nat
  BY Constant, ProductIsNat DEF TypeOK
<1>2. GlobalLockedReserveTokens \in Nat /\ GlobalLockedReserveTokens = n \div price
  BY LockedIsNat DEF GlobalLockedReserveTokens, StableTokensResTokensValue
<1>3. /\ shared \in Nat \ {0} /\ shared <= GlobalLockedReserveTokens
  BY <1>1, <1>2 DEF Smaller
<1>4. LiquidationPrice = n \div shared
  BY DEF LiquidationPrice
<1>. HIDE DEF n, shared
<1>5. price * GlobalLockedReserveTokens <= n
  BY <1>1, <1>2, DivisionIsNat
<1>6. price * shared <= price * GlobalLockedReserveTokens /\ price * shared = shared * price
      /\ price * shared \in Nat /\ price * GlobalLockedReserveTokens \in Nat
  BY <1>1, <1>2, <1>3, ProductMonotone, ProductIsNat
<1>7. shared * price <= n
  BY <1>1, <1>5, <1>6
<1>8. price <= n \div shared /\ n \div shared \in Nat
  BY <1>1, <1>3, <1>7, QuotientAtLeast, DivisionIsNat
<1>. QED
  BY <1>1, <1>4, <1>8

LEMMA TransitionOK ==
    ASSUME TypeOK, Transition
    PROVE  /\ state' \in States /\ state' = NextState
           /\ liquidationPrice' \in Nat
           /\ state = "Liquidated" => /\ state' = "Liquidated"
                                      /\ liquidationPrice' = liquidationPrice
           /\ state # "Liquidated" /\ state' = "Liquidated" =>
                /\ GlobalLockedReserveTokens # 0 /\ reserves > 0
                /\ liquidationPrice' = LiquidationPrice
<1>1. state' = NextState
  BY DEF Transition
<1>2. CASE NextState = "Liquidated" /\ state # "Liquidated"
  <2>1. reserves > 0 /\ liquidationPrice' = LiquidationPrice
    BY <1>2 DEF Transition
  <2>2. GlobalLockedReserveTokens # 0
    BY <1>2, NextStateOK
  <2>. QED
    BY <1>1, <1>2, <2>1, <2>2, NextStateOK, LiquidationPriceAbove
<1>3. CASE ~ (NextState = "Liquidated" /\ state # "Liquidated")
  <2>1. liquidationPrice' = liquidationPrice
    BY <1>3 DEF Transition
  <2>. QED
    BY <1>1, <1>3, <2>1, NextStateOK DEF TypeOK
<1>. QED
  BY <1>2, <1>3

LEMMA OperatingOK ==
    ASSUME TypeOK, Operating
    PROVE  /\ state' \in States /\ state # "Liquidated" /\ state' # "Liquidated"
           /\ liquidationPrice' \in Nat
           /\ liquidationExecuted' = liquidationExecuted /\ lapses' = lapses
           /\ ~ inCall
  BY TransitionOK, NextStateOK DEF Operating

-----------------------------------------------------------------------------
(* The amounts of each operation. *)

LEMMA RiskProMinted ==
    ASSUME TypeOK, NEW resTokensToMint \in Nat, NEW riskProPrice \in RiskProPrices
    PROVE  (IF riskProPrice = 0 THEN 0
            ELSE (resTokensToMint * MocPrecision) \div riskProPrice) \in Nat
<1>1. riskProPrice \in Nat
  <2>1. CASE riskProPrice = RiskProTecPrice
    BY <2>1, TecPriceIsNat
  <2>2. CASE riskProPrice # RiskProTecPrice
    <3>1. PICK d \in Discounts :
            riskProPrice = (RiskProTecPrice * (MocPrecision - d)) \div MocPrecision
      BY <2>2 DEF RiskProPrices
    <3>2. MocPrecision - d \in Nat
      BY Constant
    <3>3. RiskProTecPrice * (MocPrecision - d) \in Nat
      BY <3>2, TecPriceIsNat, ProductIsNat
    <3>. QED
      BY <3>1, <3>3, Constant, DivisionIsNat
  <2>. QED
    BY <2>1, <2>2
<1>2. resTokensToMint * MocPrecision \in Nat
  BY Constant, ProductIsNat
<1>. QED
  BY <1>1, <1>2, DivisionIsNat

\* RiskPro is redeemed only over the target, and no more than asked.
LEMMA RiskProRedeemed ==
    ASSUME TypeOK, NEW riskProAmount \in Nat, NEW bCons \in Bcons,
           AbsoluteOverCobj(bCons) > 0 => RiskProUsdPrice > 0
    PROVE  LET amount == Smaller(riskProAmount, AbsoluteMaxRiskPro(bCons))
           IN  /\ amount \in Nat /\ amount <= riskProAmount
               /\ (RiskProTecPrice * amount) \div MocPrecision \in Nat
               /\ amount > 0 => AbsoluteOverCobj(bCons) > 0
<1> DEFINE amount == Smaller(riskProAmount, AbsoluteMaxRiskPro(bCons))
<1>1. /\ amount \in Nat /\ amount <= riskProAmount
      /\ amount > 0 => AbsoluteOverCobj(bCons) > 0
  BY MaximaAreNat DEF Smaller
<1>. HIDE DEF amount
<1>2. RiskProTecPrice * amount \in Nat
  BY <1>1, TecPriceIsNat, ProductIsNat
<1>3. (RiskProTecPrice * amount) \div MocPrecision \in Nat
  BY <1>2, Constant, DivisionIsNat
<1>. QED
  BY <1>1, <1>3 DEF amount

\* What is paid for stable tokens covers them, up to one reserve token, and they are
\* minted only over the target, within the most there may be.
LEMMA StableTokensMinted ==
    ASSUME TypeOK, NEW resTokensToMint \in Nat, NEW bCons \in Bcons
    PROVE  LET stableTokens == (resTokensToMint * price) \div MocPrecision
               amount == Smaller(stableTokens, AbsoluteMaxStableToken(bCons))
               totalCost == IF amount = stableTokens THEN resTokensToMint
                            ELSE StableTokensResTokensValue(amount, price)
           IN  /\ amount \in Nat /\ totalCost \in Nat
               /\ amount <= AbsoluteMaxStableToken(bCons)
               /\ amount > 0 => AbsoluteOverCobj(bCons) > 0
               /\ MocPrecision * amount <= price * totalCost + price
<1> DEFINE stableTokens == (resTokensToMint * price) \div MocPrecision
           amount == Smaller(stableTokens, AbsoluteMaxStableToken(bCons))
           totalCost == IF amount = stableTokens THEN resTokensToMint
                        ELSE StableTokensResTokensValue(amount, price)
<1>1. price \in Nat \ {0} /\ MocPrecision \in Nat \ {0}
  BY Constant DEF TypeOK
<1>2. resTokensToMint * price \in Nat /\ resTokensToMint * price = price * resTokensToMint
  BY <1>1, ProductIsNat
<1>3. /\ stableTokens \in Nat
      /\ MocPrecision * stableTokens <= price * resTokensToMint
  BY <1>1, <1>2, DivisionIsNat
<1>. HIDE DEF stableTokens
<1>4. /\ amount \in Nat /\ amount <= AbsoluteMaxStableToken(bCons)
      /\ amount > 0 => AbsoluteOverCobj(bCons) > 0
  BY <1>3, MaximaAreNat DEF Smaller
<1>. HIDE DEF amount
<1>5. /\ totalCost \in Nat
      /\ MocPrecision * amount <= price * totalCost + price
  <2>1. CASE amount = stableTokens
    <3>1. totalCost = resTokensToMint
      BY <2>1
    <3>2. price * resTokensToMint \in Nat /\ MocPrecision * stableTokens \in Nat
      BY <1>1, <1>3, ProductIsNat
    <3>. QED
      BY <1>1, <1>3, <2>1, <3>1, <3>2
  <2>2. CASE amount # stableTokens
    <3>1. totalCost = (amount * MocPrecision) \div price
      BY <2>2 DEF StableTokensResTokensValue
    <3>2. amount * MocPrecision \in Nat /\ amount * MocPrecision = MocPrecision * amount
      BY <1>1, <1>4, ProductIsNat
    <3>3. /\ (amount * MocPrecision) \div price \in Nat
          /\ MocPrecision * amount < price * ((amount * MocPrecision) \div price) + price
      BY <1>1, <3>2, DivisionIsNat
    <3>. HIDE DEF totalCost
    <3>4. price * totalCost \in Nat
      BY <1>1, <3>1, <3>3, ProductIsNat
    <3>. QED
      BY <1>1, <3>1, <3>2, <3>3, <3>4
  <2>. QED
    BY <2>1, <2>2
<1>. QED
  BY <1>4, <1>5 DEF amount, stableTokens

\* The interest is part of the value.
LEMMA StableTokensRedeemed ==
    ASSUME TypeOK, NEW stableTokenAmount \in Nat, NEW rate \in InterestRates
    PROVE  LET amount == Smaller(stableTokenAmount, nStable)
               value == StableTokensResTokensValue(amount, price)
               interest == (value * rate) \div MocPrecision
           IN  /\ amount \in Nat /\ amount <= nStable
               /\ value \in Nat /\ interest \in Nat /\ value - interest \in Nat
<1> DEFINE amount == Smaller(stableTokenAmount, nStable)
           value == StableTokensResTokensValue(amount, price)
           interest == (value * rate) \div MocPrecision
<1>1. amount \in Nat /\ amount <= nStable
  BY DEF TypeOK, Smaller
<1>. HIDE DEF amount
<1>2. value \in Nat
  BY <1>1, StableTokensValue, Constant DEF TypeOK
<1>. HIDE DEF value
<1>3. interest \in 0 .. value
  BY <1>2, FractionAtMost, Constant
<1>. HIDE DEF interest
<1>4. interest \in Nat /\ value - interest \in Nat
  BY <1>2, <1>3
<1>. QED
  BY <1>1, <1>2, <1>4 DEF interest, value, amount

LEMMA DailyInrateOK ==
    ASSUME TypeOK, NEW days \in Nat
    PROVE  Smaller(inrateBag, DailyInrate(days)) \in 0 .. inrateBag
<1>1. inrateBag \in Nat /\ days + 1 \in Nat \ {0}
  BY DEF TypeOK
<1>2. inrateBag \div (days + 1) \in Nat
  BY <1>1, DivisionIsNat
<1>3. DailyInrate(days) \in Nat
  BY <1>1, <1>2 DEF DailyInrate
<1>. QED
  BY <1>1, <1>3 DEF Smaller

LEMMA RiskProInterest ==
    ASSUME TypeOK
    PROVE  (nReserve * RiskProRate) \div MocPrecision \in 0 .. nReserve
  BY FractionAtMost, Constant DEF TypeOK

LEMMA SettlementRedeemed ==
    ASSUME NEW amount \in Nat, NEW p \in Nat \ {0}
    PROVE  LET total == StableTokensResTokensValue(amount, p)
               commission == (total * CommissionRate) \div MocPrecision
           IN  total \in Nat /\ commission \in Nat /\ total - commission \in Nat
<1> DEFINE total == StableTokensResTokensValue(amount, p)
           commission == (total * CommissionRate) \div MocPrecision
<1>1. total \in Nat
  BY StableTokensValue
<1>. HIDE DEF total
<1>2. commission \in 0 .. total
  BY <1>1, FractionAtMost, Constant
<1>. HIDE DEF commission
<1>3. commission \in Nat /\ total - commission \in Nat
  BY <1>1, <1>2
<1>. QED
  BY <1>1, <1>3 DEF commission, total

-----------------------------------------------------------------------------
(* The inductive invariant. *)

\* A settlement's transaction runs at a price, and not in a liquidated system.
CallInv == inCall => settlementPrice # 0 /\ state # "Liquidated"

\* A liquidated system has a price; if nothing lapsed, it was executed and what is
\* owed at that price is there.
LiquidationInv ==
    /\ liquidationExecuted => state = "Liquidated"
    /\ state = "Liquidated" => liquidationPrice # 0
    /\ state = "Liquidated" /\ lapses = {} =>
         /\ liquidationExecuted
         /\ StableTokensResTokensValue(stableSupply, liquidationPrice) <= reserves

Inv == TypeOK /\ CallInv /\ BooksAgree /\ LiquidationInv

LEMMA InitInv == Init => Inv
<1> SUFFICES ASSUME Init PROVE Inv
  OBVIOUS
<1>1. TypeOK
  BY DEF Init, TypeOK, States
<1>2. CallInv /\ BooksAgree /\ LiquidationInv
  BY DEF Init, CallInv, BooksAgree, LiquidationInv
<1>. QED
  BY <1>1, <1>2 DEF Inv

\* The types that an operation under transitionState leaves to its own part.
LEMMA OperatingTypes ==
    ASSUME TypeOK, Operating, UNCHANGED <<price, liquidationEnabled>>,
           UNCHANGED settlementVars,
           reserves' \in Nat, nReserve' \in Nat, nStable' \in Nat, nRiskPro' \in Nat,
           inrateBag' \in Nat, stableSupply' \in Nat
    PROVE  TypeOK'
<1>1. /\ state' \in States /\ liquidationPrice' \in Nat
      /\ liquidationExecuted' = liquidationExecuted /\ lapses' = lapses
  BY OperatingOK
<1>. QED
  BY <1>1 DEF TypeOK, settlementVars

LEMMA MintRiskProType ==
    ASSUME TypeOK, NEW amount \in Amounts, NEW riskProPrice \in RiskProPrices,
           MintRiskPro(amount, riskProPrice)
    PROVE  TypeOK'
<1> DEFINE minted == IF riskProPrice = 0 THEN 0
                     ELSE (amount * MocPrecision) \div riskProPrice
<1>1. minted \in Nat /\ amount \in Nat
  BY RiskProMinted, Constant
<1>2. /\ nRiskPro' = nRiskPro + minted /\ reserves' = reserves + amount
      /\ nReserve' = nReserve + amount
      /\ Operating /\ UNCHANGED <<nStable, inrateBag, stableSupply, price>>
      /\ UNCHANGED liquidationEnabled /\ UNCHANGED settlementVars
  BY DEF MintRiskPro
<1>. HIDE DEF minted
<1>3. /\ reserves' \in Nat /\ nReserve' \in Nat /\ nRiskPro' \in Nat
      /\ nStable' \in Nat /\ inrateBag' \in Nat /\ stableSupply' \in Nat
  BY <1>1, <1>2 DEF TypeOK
<1>. QED
  BY <1>2, <1>3, OperatingTypes

LEMMA RedeemPriced ==
    ASSUME NEW riskProAmount \in Amounts, NEW bCons \in Bcons,
           RedeemRiskPro(riskProAmount, bCons)
    PROVE  AbsoluteOverCobj(bCons) > 0 => RiskProUsdPrice > 0
  BY DEF RedeemRiskPro, AbsoluteOverCobj, Smaller

LEMMA RedeemRiskProType ==
    ASSUME TypeOK, NEW riskProAmount \in Amounts, NEW bCons \in Bcons,
           RedeemRiskPro(riskProAmount, bCons)
    PROVE  TypeOK'
<1> DEFINE amount == Smaller(riskProAmount, AbsoluteMaxRiskPro(bCons))
           total == (RiskProTecPrice * amount) \div MocPrecision
<1>1. riskProAmount \in Nat /\ (AbsoluteOverCobj(bCons) > 0 => RiskProUsdPrice > 0)
  BY Constant, RedeemPriced
<1>2. amount \in Nat /\ amount <= riskProAmount /\ total \in Nat
  BY <1>1, RiskProRedeemed
<1>3. /\ total <= nReserve /\ total <= reserves /\ riskProAmount <= nRiskPro
      /\ nRiskPro' = nRiskPro - amount /\ nReserve' = nReserve - total
      /\ reserves' = reserves - total
      /\ Operating /\ UNCHANGED <<nStable, inrateBag, stableSupply, price>>
      /\ UNCHANGED liquidationEnabled /\ UNCHANGED settlementVars
  BY DEF RedeemRiskPro
<1>. HIDE DEF amount, total
<1>4. /\ reserves - total \in Nat /\ nReserve - total \in Nat /\ nRiskPro - amount \in Nat
  BY <1>1, <1>2, <1>3 DEF TypeOK
<1>5. /\ reserves' \in Nat /\ nReserve' \in Nat /\ nRiskPro' \in Nat
      /\ nStable' \in Nat /\ inrateBag' \in Nat /\ stableSupply' \in Nat
  BY <1>3, <1>4 DEF TypeOK
<1>. QED
  BY <1>3, <1>5, OperatingTypes

LEMMA MintStableTokenType ==
    ASSUME TypeOK, NEW resTokensToMint \in Amounts, NEW bCons \in Bcons,
           MintStableToken(resTokensToMint, bCons)
    PROVE  TypeOK'
<1> DEFINE stableTokens == (resTokensToMint * price) \div MocPrecision
           amount == Smaller(stableTokens, AbsoluteMaxStableToken(bCons))
           totalCost == IF amount = stableTokens THEN resTokensToMint
                        ELSE StableTokensResTokensValue(amount, price)
<1>1. amount \in Nat /\ totalCost \in Nat
  BY StableTokensMinted, Constant
<1>2. /\ reserves' = reserves + totalCost /\ nReserve' = nReserve + totalCost
      /\ nStable' = nStable + amount /\ stableSupply' = stableSupply + amount
      /\ Operating /\ UNCHANGED <<nRiskPro, inrateBag, price>>
      /\ UNCHANGED liquidationEnabled /\ UNCHANGED settlementVars
  BY DEF MintStableToken
<1>. HIDE DEF stableTokens, amount, totalCost
<1>3. /\ reserves' \in Nat /\ nReserve' \in Nat /\ nRiskPro' \in Nat
      /\ nStable' \in Nat /\ inrateBag' \in Nat /\ stableSupply' \in Nat
  BY <1>1, <1>2 DEF TypeOK
<1>. QED
  BY <1>2, <1>3, OperatingTypes

LEMMA RedeemFreeType ==
    ASSUME TypeOK, NEW stableTokenAmount \in StableAmounts, NEW rate \in InterestRates,
           RedeemFreeStableToken(stableTokenAmount, rate)
    PROVE  TypeOK'
<1> DEFINE amount == Smaller(stableTokenAmount, nStable)
           value == StableTokensResTokensValue(amount, price)
           interest == (value * rate) \div MocPrecision
<1>1. /\ amount \in Nat /\ amount <= nStable
      /\ value \in Nat /\ interest \in Nat /\ value - interest \in Nat
  BY StableTokensRedeemed, Constant
<1>2. /\ amount <= stableSupply /\ value <= nReserve /\ value - interest <= reserves
      /\ stableSupply' = stableSupply - amount /\ nStable' = nStable - amount
      /\ nReserve' = nReserve - value /\ inrateBag' = inrateBag + interest
      /\ reserves' = reserves - (value - interest)
      /\ Operating /\ UNCHANGED <<nRiskPro, price>>
      /\ UNCHANGED liquidationEnabled /\ UNCHANGED settlementVars
  BY DEF RedeemFreeStableToken
<1>. HIDE DEF amount, value, interest
<1>3. /\ reserves - (value - interest) \in Nat /\ nReserve - value \in Nat
      /\ nStable - amount \in Nat /\ stableSupply - amount \in Nat
      /\ inrateBag + interest \in Nat
  BY <1>1, <1>2 DEF TypeOK
<1>4. /\ reserves' \in Nat /\ nReserve' \in Nat /\ nRiskPro' \in Nat
      /\ nStable' \in Nat /\ inrateBag' \in Nat /\ stableSupply' \in Nat
  BY <1>2, <1>3 DEF TypeOK
<1>. QED
  BY <1>2, <1>4, OperatingTypes

LEMMA RedemptionType ==
    ASSUME TypeOK, CallInv, NEW amount \in StableAmounts, StableTokenRedemption(amount)
    PROVE  TypeOK'
<1> DEFINE total == StableTokensResTokensValue(amount, settlementPrice)
           commission == (total * CommissionRate) \div MocPrecision
<1>1. amount \in Nat /\ settlementPrice \in Nat \ {0}
  BY Constant DEF TypeOK, CallInv, StableTokenRedemption
<1>2. total \in Nat /\ commission \in Nat /\ total - commission \in Nat
  BY <1>1, SettlementRedeemed
<1>3. /\ amount <= stableSupply /\ amount <= nStable
      /\ total <= nReserve /\ total - commission <= reserves
      /\ stableSupply' = stableSupply - amount /\ nStable' = nStable - amount
      /\ nReserve' = nReserve - total
      /\ reserves' = reserves - (total - commission)
      /\ commissions' = commissions + commission
      /\ UNCHANGED <<nRiskPro, inrateBag, price, liquidationEnabled, settlementPrice, inCall>>
      /\ UNCHANGED stateVars
  BY DEF StableTokenRedemption
<1>. HIDE DEF total, commission
<1>4. /\ reserves - (total - commission) \in Nat /\ nReserve - total \in Nat
      /\ nStable - amount \in Nat /\ stableSupply - amount \in Nat
      /\ commissions + commission \in Nat
  BY <1>1, <1>2, <1>3 DEF TypeOK
<1>. QED
  BY <1>3, <1>4 DEF TypeOK, stateVars

LEMMA PaymentType ==
    ASSUME TypeOK,
           \/ \E days \in DaysToSettlement : DailyInratePayment(days)
           \/ PayRiskProHoldersInterestPayment
    PROVE  TypeOK'
<1>1. ASSUME NEW days \in DaysToSettlement, DailyInratePayment(days) PROVE TypeOK'
  <2> DEFINE toMove == Smaller(inrateBag, DailyInrate(days))
  <2>1. toMove \in 0 .. inrateBag
    BY DailyInrateOK, Constant
  <2>2. /\ inrateBag' = inrateBag - toMove /\ nReserve' = nReserve + toMove
        /\ UNCHANGED <<reserves, nStable, nRiskPro, stableSupply, price, liquidationEnabled>>
        /\ UNCHANGED stateVars /\ UNCHANGED settlementVars
    BY <1>1 DEF DailyInratePayment
  <2>. HIDE DEF toMove
  <2>3. inrateBag - toMove \in Nat /\ nReserve + toMove \in Nat
    BY <2>1 DEF TypeOK
  <2>. QED
    BY <2>2, <2>3 DEF TypeOK, stateVars, settlementVars
<1>2. ASSUME PayRiskProHoldersInterestPayment PROVE TypeOK'
  <2> DEFINE toPay == (nReserve * RiskProRate) \div MocPrecision
  <2>1. toPay \in 0 .. nReserve
    BY RiskProInterest
  <2>2. /\ toPay <= reserves /\ reserves' = reserves - toPay /\ nReserve' = nReserve - toPay
        /\ lapses' = IF state = "Liquidated" THEN lapses \union {"interest"} ELSE lapses
        /\ UNCHANGED <<nStable, nRiskPro, inrateBag, stableSupply, price, state,
                       liquidationPrice, liquidationExecuted, liquidationEnabled>>
        /\ UNCHANGED settlementVars
    BY <1>2 DEF PayRiskProHoldersInterestPayment
  <2>. HIDE DEF toPay
  <2>3. reserves - toPay \in Nat /\ nReserve - toPay \in Nat
    BY <2>1, <2>2 DEF TypeOK
  <2>4. lapses' \subseteq {"uncovered", "unexecuted", "interest"}
    BY <2>2 DEF TypeOK
  <2>. QED
    BY <2>2, <2>3, <2>4 DEF TypeOK, settlementVars
<1>. QED
  BY <1>1, <1>2

LEMMA TypeStep ==
    ASSUME TypeOK, CallInv, LiquidationInv, [Next]_vars
    PROVE  TypeOK'
<1>1. ASSUME NEW amount \in Amounts, AddReserves(amount) PROVE TypeOK'
  <2>1. reserves + amount \in Nat /\ nReserve + amount \in Nat
    BY Constant DEF TypeOK
  <2>2. reserves' = reserves + amount /\ nReserve' = nReserve + amount
    BY <1>1 DEF AddReserves
  <2>. QED
    BY <1>1, <2>1, <2>2 DEF TypeOK, AddReserves, stateVars, settlementVars
<1>2. ASSUME NEW amount \in StableAmounts, RedeemAllStableToken(amount) PROVE TypeOK'
  <2> DEFINE total == StableTokensResTokensValue(amount, liquidationPrice)
  <2>1. amount \in Nat /\ liquidationPrice \in Nat \ {0}
    BY <1>2, Constant DEF TypeOK, LiquidationInv, RedeemAllStableToken
  <2>2. total \in Nat
    BY <2>1, StableTokensValue
  <2>3. /\ amount <= stableSupply /\ total <= reserves
        /\ stableSupply' = stableSupply - amount /\ reserves' = reserves - total
        /\ UNCHANGED bucketVars /\ UNCHANGED stateVars /\ UNCHANGED settlementVars
        /\ UNCHANGED <<price, liquidationEnabled>>
    BY <1>2 DEF RedeemAllStableToken
  <2>. HIDE DEF total
  <2>4. stableSupply - amount \in Nat /\ reserves - total \in Nat
    BY <2>1, <2>2, <2>3 DEF TypeOK
  <2>. QED
    BY <2>3, <2>4 DEF TypeOK, bucketVars, stateVars, settlementVars
<1>3. CASE Users
  BY <1>1, <1>2, <1>3, MintRiskProType, RedeemRiskProType, MintStableTokenType,
     RedeemFreeType DEF Users
<1>4. CASE Payments
  BY <1>4, PaymentType DEF Payments
<1>5. ASSUME RunSettlement PROVE TypeOK'
  <2>1. /\ state' \in States /\ liquidationPrice' \in Nat
        /\ liquidationExecuted' = liquidationExecuted /\ lapses' = lapses
    BY <1>5, OperatingOK DEF RunSettlement
  <2>2. settlementPrice' \in Prices \union {0}
    BY <1>5 DEF RunSettlement, TypeOK
  <2>. QED
    BY <1>5, <2>1, <2>2 DEF RunSettlement, TypeOK, bucketVars
<1>6. ASSUME NEW finished \in BOOLEAN, EndOfCall(finished) PROVE TypeOK'
  <2>1. CASE finished
    <3>1. commissions <= reserves /\ reserves' = reserves - commissions
          /\ commissions' = 0 /\ settlementPrice' = 0
      BY <1>6, <2>1 DEF EndOfCall
    <3>2. reserves - commissions \in Nat
      BY <3>1 DEF TypeOK
    <3>. QED
      BY <1>6, <3>1, <3>2 DEF EndOfCall, TypeOK, bucketVars, stateVars
  <2>2. CASE ~ finished
    BY <1>6, <2>2 DEF EndOfCall, TypeOK, bucketVars, stateVars
  <2>. QED
    BY <2>1, <2>2
<1>7. CASE Settlement
  BY <1>5, <1>6, <1>7, RedemptionType DEF Settlement
<1>8. CASE Environment
  BY <1>8 DEF Environment, PriceMove, SetLiquidationEnabled, TypeOK, bucketVars,
              stateVars, settlementVars
<1>9. ASSUME Liquidate PROVE TypeOK'
  <2>1. state' \in States /\ liquidationPrice' \in Nat
    BY <1>9, TransitionOK DEF Liquidate
  <2>2. reserves' \in Nat
    BY <1>9, LockedIsNat DEF Liquidate, Smaller, TypeOK
  <2>3. lapses' \subseteq {"uncovered", "unexecuted", "interest"}
    BY <1>9 DEF Liquidate, Uncovered, TypeOK
  <2>. QED
    BY <1>9, <2>1, <2>2, <2>3 DEF Liquidate, TypeOK, bucketVars, settlementVars
<1>10. ASSUME EvalLiquidation PROVE TypeOK'
  <2>1. /\ Operating /\ UNCHANGED <<price, liquidationEnabled>>
        /\ UNCHANGED settlementVars
        /\ UNCHANGED <<reserves, nReserve, nStable, nRiskPro, inrateBag, stableSupply>>
    BY <1>10 DEF EvalLiquidation, bucketVars
  <2>2. /\ reserves' \in Nat /\ nReserve' \in Nat /\ nStable' \in Nat /\ nRiskPro' \in Nat
        /\ inrateBag' \in Nat /\ stableSupply' \in Nat
    BY <2>1 DEF TypeOK
  <2>. QED
    BY <2>1, <2>2, OperatingTypes
<1>11. ASSUME NextStateAlone PROVE TypeOK'
  <2>1. state' \in States /\ liquidationPrice' \in Nat
    BY <1>11, TransitionOK DEF NextStateAlone
  <2>2. lapses' \subseteq {"uncovered", "unexecuted", "interest"}
    BY <1>11 DEF NextStateAlone, Uncovered, TypeOK
  <2>. QED
    BY <1>11, <2>1, <2>2 DEF NextStateAlone, TypeOK, bucketVars, settlementVars
<1>12. CASE UNCHANGED vars
  BY <1>12 DEF vars, bucketVars, stateVars, settlementVars, TypeOK
<1>. QED
  BY <1>3, <1>4, <1>7, <1>8, <1>9, <1>10, <1>11, <1>12 DEF Next

LEMMA CallStep ==
    ASSUME TypeOK, CallInv, [Next]_vars
    PROVE  CallInv'
<1>1. CASE Users
  BY <1>1 DEF Users, AddReserves, MintRiskPro, RedeemRiskPro, MintStableToken,
              RedeemFreeStableToken, RedeemAllStableToken, Operating, settlementVars,
              CallInv
<1>2. CASE Payments
  BY <1>2 DEF Payments, DailyInratePayment, PayRiskProHoldersInterestPayment,
              settlementVars, CallInv
<1>3. ASSUME RunSettlement PROVE CallInv'
  <2>1. state' # "Liquidated"
    BY <1>3, OperatingOK DEF RunSettlement
  <2>2. settlementPrice' # 0
    BY <1>3, Constant DEF RunSettlement, TypeOK
  <2>. QED
    BY <2>1, <2>2 DEF CallInv
<1>4. CASE Settlement
  BY <1>3, <1>4 DEF Settlement, StableTokenRedemption, EndOfCall, stateVars, CallInv
<1>5. CASE Environment
  BY <1>5 DEF Environment, PriceMove, SetLiquidationEnabled, settlementVars, CallInv
<1>6. CASE Liquidate \/ EvalLiquidation \/ NextStateAlone
  BY <1>6 DEF Liquidate, EvalLiquidation, NextStateAlone, Operating, settlementVars, CallInv
<1>7. CASE UNCHANGED vars
  BY <1>7 DEF vars, stateVars, settlementVars, CallInv
<1>. QED
  BY <1>1, <1>2, <1>4, <1>5, <1>6, <1>7 DEF Next

-----------------------------------------------------------------------------
(* The two books. *)

Books == reserves = nReserve + inrateBag + commissions /\ nStable = stableSupply

\* What leaves or enters both books leaves them equal.
LEMMA BothMove ==
    ASSUME NEW r \in Nat, NEW n \in Nat, NEW b \in Nat, NEW c \in Nat,
           NEW x \in Nat, NEW y \in Nat, r = n + b + c
    PROVE  /\ r + x = (n + x) + b + c
           /\ r - x = (n - x) + b + c
           /\ r - (x - y) = (n - x) + (b + y) + c
           /\ r - (x - y) = (n - x) + b + (c + y)
           /\ r = (n + x) + (b - x) + c
           /\ r - c = n + b + 0
  OBVIOUS

LEMMA MintRiskProBooks ==
    ASSUME TypeOK, Books, NEW amount \in Amounts, NEW riskProPrice \in RiskProPrices,
           MintRiskPro(amount, riskProPrice)
    PROVE  Books'
<1>1. /\ reserves' = reserves + amount /\ nReserve' = nReserve + amount
      /\ UNCHANGED <<nStable, inrateBag, stableSupply, commissions>>
  BY DEF MintRiskPro, settlementVars
<1>2. reserves + amount = (nReserve + amount) + inrateBag + commissions
  BY Constant, BothMove DEF TypeOK, Books
<1>. QED
  BY <1>1, <1>2 DEF Books

LEMMA RedeemRiskProBooks ==
    ASSUME TypeOK, Books, NEW riskProAmount \in Amounts, NEW bCons \in Bcons,
           RedeemRiskPro(riskProAmount, bCons)
    PROVE  Books'
<1> DEFINE amount == Smaller(riskProAmount, AbsoluteMaxRiskPro(bCons))
           total == (RiskProTecPrice * amount) \div MocPrecision
<1>1. total \in Nat
  BY RiskProRedeemed, RedeemPriced, Constant
<1>2. /\ nReserve' = nReserve - total /\ reserves' = reserves - total
      /\ UNCHANGED <<nStable, inrateBag, stableSupply, commissions>>
  BY DEF RedeemRiskPro, settlementVars
<1>. HIDE DEF amount, total
<1>3. reserves - total = (nReserve - total) + inrateBag + commissions
  BY <1>1, BothMove DEF TypeOK, Books
<1>. QED
  BY <1>2, <1>3 DEF Books

LEMMA MintStableTokenBooks ==
    ASSUME TypeOK, Books, NEW resTokensToMint \in Amounts, NEW bCons \in Bcons,
           MintStableToken(resTokensToMint, bCons)
    PROVE  Books'
<1> DEFINE stableTokens == (resTokensToMint * price) \div MocPrecision
           amount == Smaller(stableTokens, AbsoluteMaxStableToken(bCons))
           totalCost == IF amount = stableTokens THEN resTokensToMint
                        ELSE StableTokensResTokensValue(amount, price)
<1>1. totalCost \in Nat
  BY StableTokensMinted, Constant
<1>2. /\ reserves' = reserves + totalCost /\ nReserve' = nReserve + totalCost
      /\ nStable' = nStable + amount /\ stableSupply' = stableSupply + amount
      /\ UNCHANGED <<inrateBag, commissions>>
  BY DEF MintStableToken, settlementVars
<1>. HIDE DEF stableTokens, amount, totalCost
<1>3. reserves + totalCost = (nReserve + totalCost) + inrateBag + commissions
  BY <1>1, BothMove DEF TypeOK, Books
<1>. QED
  BY <1>2, <1>3 DEF Books

LEMMA RedeemFreeBooks ==
    ASSUME TypeOK, Books, NEW stableTokenAmount \in StableAmounts, NEW rate \in InterestRates,
           RedeemFreeStableToken(stableTokenAmount, rate)
    PROVE  Books'
<1> DEFINE amount == Smaller(stableTokenAmount, nStable)
           value == StableTokensResTokensValue(amount, price)
           interest == (value * rate) \div MocPrecision
<1>1. value \in Nat /\ interest \in Nat
  BY StableTokensRedeemed, Constant
<1>2. /\ stableSupply' = stableSupply - amount /\ nStable' = nStable - amount
      /\ nReserve' = nReserve - value /\ inrateBag' = inrateBag + interest
      /\ reserves' = reserves - (value - interest)
      /\ UNCHANGED commissions
  BY DEF RedeemFreeStableToken, settlementVars
<1>. HIDE DEF amount, value, interest
<1>3. reserves - (value - interest)
        = (nReserve - value) + (inrateBag + interest) + commissions
  BY <1>1, BothMove DEF TypeOK, Books
<1>. QED
  BY <1>2, <1>3 DEF Books

LEMMA RedemptionBooks ==
    ASSUME TypeOK, CallInv, Books, NEW amount \in StableAmounts, StableTokenRedemption(amount)
    PROVE  Books'
<1> DEFINE total == StableTokensResTokensValue(amount, settlementPrice)
           commission == (total * CommissionRate) \div MocPrecision
<1>1. total \in Nat /\ commission \in Nat
  BY SettlementRedeemed, Constant DEF TypeOK, CallInv, StableTokenRedemption
<1>2. /\ stableSupply' = stableSupply - amount /\ nStable' = nStable - amount
      /\ nReserve' = nReserve - total
      /\ reserves' = reserves - (total - commission)
      /\ commissions' = commissions + commission
      /\ UNCHANGED inrateBag
  BY DEF StableTokenRedemption
<1>. HIDE DEF total, commission
<1>3. reserves - (total - commission)
        = (nReserve - total) + inrateBag + (commissions + commission)
  BY <1>1, BothMove DEF TypeOK, Books
<1>. QED
  BY <1>2, <1>3 DEF Books

LEMMA PaymentBooks ==
    ASSUME TypeOK, Books,
           \/ \E days \in DaysToSettlement : DailyInratePayment(days)
           \/ PayRiskProHoldersInterestPayment
    PROVE  Books'
<1>1. ASSUME NEW days \in DaysToSettlement, DailyInratePayment(days) PROVE Books'
  <2> DEFINE toMove == Smaller(inrateBag, DailyInrate(days))
  <2>1. toMove \in Nat
    BY DailyInrateOK, Constant
  <2>2. /\ inrateBag' = inrateBag - toMove /\ nReserve' = nReserve + toMove
        /\ UNCHANGED <<reserves, nStable, stableSupply, commissions>>
    BY <1>1 DEF DailyInratePayment, settlementVars
  <2>. HIDE DEF toMove
  <2>3. reserves = (nReserve + toMove) + (inrateBag - toMove) + commissions
    BY <2>1, BothMove DEF TypeOK, Books
  <2>. QED
    BY <2>2, <2>3 DEF Books
<1>2. ASSUME PayRiskProHoldersInterestPayment PROVE Books'
  <2> DEFINE toPay == (nReserve * RiskProRate) \div MocPrecision
  <2>1. toPay \in Nat
    BY RiskProInterest
  <2>2. /\ reserves' = reserves - toPay /\ nReserve' = nReserve - toPay
        /\ UNCHANGED <<nStable, inrateBag, stableSupply, commissions>>
    BY <1>2 DEF PayRiskProHoldersInterestPayment, settlementVars
  <2>. HIDE DEF toPay
  <2>3. reserves - toPay = (nReserve - toPay) + inrateBag + commissions
    BY <2>1, BothMove DEF TypeOK, Books
  <2>. QED
    BY <2>2, <2>3 DEF Books
<1>. QED
  BY <1>1, <1>2

LEMMA BooksStep ==
    ASSUME TypeOK, CallInv, BooksAgree, [Next]_vars
    PROVE  BooksAgree'
<1> SUFFICES ASSUME state' # "Liquidated" PROVE Books'
  BY DEF BooksAgree, Books
<1>1. state # "Liquidated"
  <2>1. CASE Transition
    BY <2>1, TransitionOK
  <2>2. CASE ~ Transition
    BY <2>2 DEF Next, vars, Users, AddReserves, MintRiskPro, RedeemRiskPro,
       MintStableToken, RedeemFreeStableToken, RedeemAllStableToken, Payments,
       DailyInratePayment, PayRiskProHoldersInterestPayment, Settlement, RunSettlement,
       StableTokenRedemption, EndOfCall, Environment, PriceMove, SetLiquidationEnabled,
       Liquidate, EvalLiquidation, NextStateAlone, Operating, stateVars
  <2>. QED
    BY <2>1, <2>2
<1>2. Books
  BY <1>1 DEF BooksAgree, Books
<1>3. ASSUME NEW amount \in Amounts, AddReserves(amount) PROVE Books'
  <2>1. reserves + amount = (nReserve + amount) + inrateBag + commissions
    BY <1>2, Constant, BothMove DEF TypeOK, Books
  <2>. QED
    BY <1>2, <1>3, <2>1 DEF AddReserves, Books, settlementVars
<1>4. CASE Users
  <2>1. ~ \E amount \in StableAmounts : RedeemAllStableToken(amount)
    BY <1>1 DEF RedeemAllStableToken
  <2>. QED
    BY <1>2, <1>3, <1>4, <2>1, MintRiskProBooks, RedeemRiskProBooks, MintStableTokenBooks,
       RedeemFreeBooks DEF Users
<1>5. CASE Payments
  BY <1>2, <1>5, PaymentBooks DEF Payments
<1>6. ASSUME NEW finished \in BOOLEAN, EndOfCall(finished) PROVE Books'
  <2>1. CASE finished
    <3>1. /\ reserves' = reserves - commissions /\ commissions' = 0
          /\ UNCHANGED <<nReserve, nStable, inrateBag, stableSupply>>
      BY <1>6, <2>1 DEF EndOfCall, bucketVars
    <3>2. reserves - commissions = nReserve + inrateBag + 0
      BY <1>2, BothMove DEF TypeOK, Books
    <3>. QED
      BY <1>2, <3>1, <3>2 DEF Books
  <2>2. CASE ~ finished
    BY <1>2, <1>6, <2>2 DEF EndOfCall, Books, bucketVars
  <2>. QED
    BY <2>1, <2>2
<1>7. CASE Settlement
  <2>1. ASSUME RunSettlement PROVE Books'
    BY <1>2, <2>1 DEF RunSettlement, Books, bucketVars
  <2>. QED
    BY <1>2, <1>6, <1>7, <2>1, RedemptionBooks DEF Settlement
<1>8. CASE Environment
  BY <1>2, <1>8 DEF Environment, PriceMove, SetLiquidationEnabled, Books, bucketVars,
                    settlementVars
<1>9. CASE Liquidate
  BY <1>9, TransitionOK DEF Liquidate
<1>10. CASE EvalLiquidation \/ NextStateAlone
  BY <1>2, <1>10 DEF EvalLiquidation, NextStateAlone, Books, bucketVars, settlementVars
<1>11. CASE UNCHANGED vars
  BY <1>2, <1>11 DEF vars, Books, bucketVars, settlementVars
<1>. QED
  BY <1>4, <1>5, <1>7, <1>8, <1>9, <1>10, <1>11 DEF Next

-----------------------------------------------------------------------------
(* The liquidation. *)

\* At a price no lower than that of the oracle, the stable tokens are owed no more
\* than what they lock.
LEMMA OwedAtMostLocked ==
    ASSUME TypeOK, NEW p \in Nat \ {0}, price <= p
    PROVE  /\ StableTokensResTokensValue(stableSupply, p) \in Nat
           /\ StableTokensResTokensValue(stableSupply, p) <= GlobalLockedReserveTokens
<1>1. stableSupply * MocPrecision \in Nat /\ price \in Nat \ {0}
  BY Constant, ProductIsNat DEF TypeOK
<1>. QED
  BY <1>1, DivisionAntitone, DivisionIsNat
     DEF StableTokensResTokensValue, GlobalLockedReserveTokens

\* A holder who is paid leaves enough for the others.
LEMMA PaidInShares ==
    ASSUME NEW supply \in Nat, NEW balance \in Nat, NEW p \in Nat \ {0}, NEW r \in Nat,
           balance <= supply,
           StableTokensResTokensValue(supply, p) <= r
    PROVE  StableTokensResTokensValue(supply - balance, p)
             <= r - StableTokensResTokensValue(balance, p)
<1> DEFINE m == (supply - balance) * MocPrecision
           n == balance * MocPrecision
<1>1. m \in Nat /\ n \in Nat /\ m + n = supply * MocPrecision
  BY Constant
<1>2. /\ StableTokensResTokensValue(supply, p) = (m + n) \div p
      /\ StableTokensResTokensValue(supply - balance, p) = m \div p
      /\ StableTokensResTokensValue(balance, p) = n \div p
  BY <1>1 DEF StableTokensResTokensValue
<1>. HIDE DEF m, n
<1>3. m + n \in Nat
  BY <1>1
<1>4. m \div p + n \div p <= (m + n) \div p
  BY <1>1, SharesAtMost
<1>5. m \div p \in Nat /\ n \div p \in Nat /\ (m + n) \div p \in Nat
  BY <1>1, <1>3, DivisionIsNat
<1>. QED
  BY <1>2, <1>4, <1>5

\* What a liquidated system keeps through the operations that move neither the stable
\* tokens nor the reserves down.
LEMMA LiquidationKept ==
    ASSUME TypeOK, LiquidationInv, reserves' \in Nat, reserves <= reserves',
           UNCHANGED stateVars, UNCHANGED stableSupply
    PROVE  LiquidationInv'
<1>1. liquidationPrice # 0 => StableTokensResTokensValue(stableSupply, liquidationPrice) \in Nat
  BY StableTokensValue DEF TypeOK
<1>2. ASSUME state = "Liquidated", lapses = {}
      PROVE  StableTokensResTokensValue(stableSupply, liquidationPrice) <= reserves'
  BY <1>1, <1>2 DEF TypeOK, LiquidationInv
<1>3. /\ state' = state /\ liquidationPrice' = liquidationPrice /\ lapses' = lapses
      /\ liquidationExecuted' = liquidationExecuted /\ stableSupply' = stableSupply
  BY DEF stateVars
<1>. QED
  BY <1>2, <1>3 DEF LiquidationInv, StableTokensResTokensValue

LEMMA NotLiquidatedYet ==
    ASSUME TypeOK, LiquidationInv, Operating
    PROVE  LiquidationInv'
  BY OperatingOK DEF LiquidationInv

LEMMA LiquidateInv ==
    ASSUME TypeOK, LiquidationInv, Liquidate
    PROVE  LiquidationInv'
<1>1. /\ Transition /\ NextState = "Liquidated" /\ ~ liquidationExecuted
      /\ reserves' = Smaller(reserves, GlobalLockedReserveTokens)
      /\ liquidationExecuted' = TRUE /\ lapses' = lapses \union Uncovered
      /\ stableSupply' = stableSupply
  BY DEF Liquidate
<1>2. state' = "Liquidated"
  BY <1>1, TransitionOK
<1>3. CASE state = "Liquidated"
  <2>1. lapses # {} /\ liquidationPrice' = liquidationPrice /\ liquidationPrice # 0
    BY <1>1, <1>3, TransitionOK DEF LiquidationInv
  <2>. QED
    BY <1>1, <1>2, <2>1 DEF LiquidationInv
<1>4. CASE state # "Liquidated"
  <2>1. /\ GlobalLockedReserveTokens # 0 /\ reserves > 0
        /\ liquidationPrice' = LiquidationPrice
    BY <1>1, <1>2, <1>4, TransitionOK
  <2>2. LiquidationPrice \in Nat \ {0} /\ price <= LiquidationPrice
    BY <2>1, LiquidationPriceAbove
  <2>3. /\ StableTokensResTokensValue(stableSupply, LiquidationPrice) \in Nat
        /\ StableTokensResTokensValue(stableSupply, LiquidationPrice)
             <= GlobalLockedReserveTokens
    BY <2>2, OwedAtMostLocked
  <2>4. lapses' = {} => reserves' = GlobalLockedReserveTokens
    BY <1>1, <1>4, LockedIsNat DEF Uncovered, Smaller, TypeOK
  <2>5. StableTokensResTokensValue(stableSupply', liquidationPrice')
          = StableTokensResTokensValue(stableSupply, LiquidationPrice)
    BY <1>1, <2>1 DEF StableTokensResTokensValue
  <2>6. lapses' = {} =>
          (StableTokensResTokensValue(stableSupply, liquidationPrice))' <= reserves'
    BY <2>3, <2>4, <2>5 DEF StableTokensResTokensValue
  <2>. QED
    BY <1>1, <1>2, <2>1, <2>2, <2>6 DEF LiquidationInv
<1>. QED
  BY <1>3, <1>4

LEMMA RedeemAllInv ==
    ASSUME TypeOK, LiquidationInv, NEW balance \in StableAmounts, RedeemAllStableToken(balance)
    PROVE  LiquidationInv'
<1> DEFINE total == StableTokensResTokensValue(balance, liquidationPrice)
<1>1. /\ state = "Liquidated" /\ balance <= stableSupply
      /\ stableSupply' = stableSupply - balance /\ reserves' = reserves - total
      /\ state' = state /\ liquidationPrice' = liquidationPrice /\ lapses' = lapses
      /\ liquidationExecuted' = liquidationExecuted
  BY DEF RedeemAllStableToken, stateVars
<1>2. liquidationPrice \in Nat \ {0} /\ balance \in Nat /\ stableSupply \in Nat /\ reserves \in Nat
  BY <1>1, Constant DEF TypeOK, LiquidationInv
<1>3. ASSUME lapses = {}
      PROVE  StableTokensResTokensValue(stableSupply - balance, liquidationPrice)
               <= reserves - total
  BY <1>1, <1>2, <1>3, PaidInShares DEF LiquidationInv
<1>. HIDE DEF total
<1>4. lapses' = {} =>
        (StableTokensResTokensValue(stableSupply, liquidationPrice))' <= reserves'
  BY <1>1, <1>3 DEF StableTokensResTokensValue
<1>. QED
  BY <1>1, <1>2, <1>4 DEF LiquidationInv

LEMMA NextStateAloneInv ==
    ASSUME TypeOK, LiquidationInv, NextStateAlone
    PROVE  LiquidationInv'
<1>1. /\ Transition
      /\ NextState = "Liquidated" /\ ~ liquidationExecuted => lapses' # {}
      /\ lapses \subseteq lapses'
      /\ UNCHANGED <<reserves, stableSupply, liquidationExecuted>>
  BY DEF NextStateAlone
<1>2. CASE state = "Liquidated"
  <2>1. state' = state /\ liquidationPrice' = liquidationPrice
    BY <1>1, <1>2, TransitionOK
  <2>2. lapses' = {} => lapses = {}
    BY <1>1
  <2>. QED
    BY <1>1, <1>2, <2>1, <2>2 DEF LiquidationInv, StableTokensResTokensValue
<1>3. CASE state # "Liquidated" /\ state' = "Liquidated"
  <2>1. /\ GlobalLockedReserveTokens # 0 /\ reserves > 0
        /\ liquidationPrice' = LiquidationPrice /\ NextState = "Liquidated"
    BY <1>1, <1>3, TransitionOK
  <2>2. LiquidationPrice # 0
    BY <2>1, LiquidationPriceAbove
  <2>3. ~ liquidationExecuted /\ lapses' # {}
    BY <1>1, <1>3, <2>1 DEF LiquidationInv
  <2>. QED
    BY <1>1, <1>3, <2>1, <2>2, <2>3 DEF LiquidationInv
<1>4. CASE state # "Liquidated" /\ state' # "Liquidated"
  BY <1>1, <1>4 DEF LiquidationInv
<1>. QED
  BY <1>2, <1>3, <1>4

LEMMA LiquidationStep ==
    ASSUME TypeOK, TypeOK', CallInv, LiquidationInv, [Next]_vars
    PROVE  LiquidationInv'
<1>1. ASSUME NEW amount \in Amounts, AddReserves(amount) PROVE LiquidationInv'
  <2>1. reserves <= reserves + amount
    BY Constant DEF TypeOK
  <2>2. reserves <= reserves' /\ UNCHANGED stateVars /\ UNCHANGED stableSupply
    BY <1>1, <2>1 DEF AddReserves
  <2>3. reserves' \in Nat
    BY DEF TypeOK
  <2>. QED
    BY <2>2, <2>3, LiquidationKept
<1>2. CASE Users
  <2>1. ASSUME NEW amount \in Amounts, NEW riskProPrice \in RiskProPrices,
               MintRiskPro(amount, riskProPrice)
        PROVE  LiquidationInv'
    BY <2>1, NotLiquidatedYet DEF MintRiskPro
  <2>2. ASSUME NEW amount \in Amounts, NEW bCons \in Bcons,
               RedeemRiskPro(amount, bCons) \/ MintStableToken(amount, bCons)
        PROVE  LiquidationInv'
    BY <2>2, NotLiquidatedYet DEF RedeemRiskPro, MintStableToken
  <2>3. ASSUME NEW amount \in StableAmounts, NEW rate \in InterestRates,
               RedeemFreeStableToken(amount, rate)
        PROVE  LiquidationInv'
    BY <2>3, NotLiquidatedYet DEF RedeemFreeStableToken
  <2>. QED
    BY <1>1, <1>2, <2>1, <2>2, <2>3, RedeemAllInv DEF Users
<1>3. CASE Payments
  <2>1. ASSUME NEW days \in DaysToSettlement, DailyInratePayment(days) PROVE LiquidationInv'
    <3>1. reserves' = reserves /\ UNCHANGED stateVars /\ UNCHANGED stableSupply
      BY <2>1 DEF DailyInratePayment
    <3>. QED
      BY <3>1, LiquidationKept DEF TypeOK
  <2>2. ASSUME PayRiskProHoldersInterestPayment PROVE LiquidationInv'
    BY <2>2 DEF PayRiskProHoldersInterestPayment, LiquidationInv
  <2>. QED
    BY <1>3, <2>1, <2>2 DEF Payments
<1>4. CASE Settlement
  <2>1. ASSUME RunSettlement PROVE LiquidationInv'
    BY <2>1, NotLiquidatedYet DEF RunSettlement
  <2>2. ASSUME inCall, UNCHANGED stateVars PROVE LiquidationInv'
    BY <2>2 DEF CallInv, LiquidationInv, stateVars
  <2>. QED
    BY <1>4, <2>1, <2>2 DEF Settlement, StableTokenRedemption, EndOfCall
<1>5. CASE Environment
  <2>1. reserves' = reserves /\ UNCHANGED stateVars /\ UNCHANGED stableSupply
    BY <1>5 DEF Environment, PriceMove, SetLiquidationEnabled
  <2>. QED
    BY <2>1, LiquidationKept DEF TypeOK
<1>6. CASE EvalLiquidation
  BY <1>6, NotLiquidatedYet DEF EvalLiquidation
<1>7. CASE UNCHANGED vars
  <2>1. reserves' = reserves /\ UNCHANGED stateVars /\ UNCHANGED stableSupply
    BY <1>7 DEF vars
  <2>. QED
    BY <2>1, LiquidationKept DEF TypeOK
<1>. QED
  BY <1>2, <1>3, <1>4, <1>5, <1>6, <1>7, LiquidateInv, NextStateAloneInv DEF Next

-----------------------------------------------------------------------------
LEMMA InvStep == Inv /\ [Next]_vars => Inv'
  BY TypeStep, CallStep, BooksStep, LiquidationStep DEF Inv

LEMMA Inductive == Spec => []Inv
  BY InitInv, InvStep, PTL DEF Spec

\* No operation, payment, settlement or liquidation takes either book below zero, or
\* divides by nothing.
THEOREM ReservesTypeCorrect == Spec => []TypeOK
  BY Inductive, PTL DEF Inv

\* Until a liquidation the reserves counted by MoCState are those of bucket C0, its bag
\* and the commissions of the running settlement, for any prices, rates and amounts.
THEOREM BooksAlwaysAgree == Spec => []BooksAgree
  BY Inductive, PTL DEF Inv

\* A liquidation that came while the stable tokens were covered, was executed at once
\* and was followed by no payment of interest can pay every holder, for any amounts
\* and whatever the rounding.
THEOREM LiquidationAlwaysPays == Spec => []LiquidationPaysHolders
<1>1. Inv => LiquidationPaysHolders
  <2> SUFFICES ASSUME Inv, lapses = {} PROVE Owed <= reserves
    BY DEF LiquidationPaysHolders
  <2>. QED
    BY DEF Inv, LiquidationInv, Owed, TypeOK
<1>. QED
  BY <1>1, Inductive, PTL

-----------------------------------------------------------------------------
(* What no step does. *)

\* The steps that mint stable tokens or redeem RiskPro are those that say so.
LEMMA OnlyMintAndRedeem ==
    ASSUME Inv, [Next]_vars,
           ~ \E amount \in Amounts, bCons \in Bcons : MintStableToken(amount, bCons)
    PROVE  /\ stableSupply' \in Nat /\ stableSupply' <= stableSupply
           /\ \/ nRiskPro' >= nRiskPro
              \/ \E amount \in Amounts, bCons \in Bcons : RedeemRiskPro(amount, bCons)
<1>1. stableSupply \in Nat /\ nRiskPro \in Nat /\ nStable \in Nat
  BY DEF Inv, TypeOK
<1>2. ASSUME NEW amount \in Amounts, NEW riskProPrice \in RiskProPrices,
             MintRiskPro(amount, riskProPrice)
      PROVE  stableSupply' = stableSupply /\ nRiskPro' >= nRiskPro
  <2> DEFINE minted == IF riskProPrice = 0 THEN 0
                       ELSE (amount * MocPrecision) \div riskProPrice
  <2>1. minted \in Nat
    BY RiskProMinted, Constant DEF Inv
  <2>2. nRiskPro' = nRiskPro + minted /\ stableSupply' = stableSupply
    BY <1>2 DEF MintRiskPro
  <2>. HIDE DEF minted
  <2>3. nRiskPro + minted >= nRiskPro
    BY <1>1, <2>1
  <2>. QED
    BY <2>2, <2>3
<1>3. ASSUME NEW amount \in StableAmounts, NEW rate \in InterestRates,
             RedeemFreeStableToken(amount, rate)
      PROVE  stableSupply' \in Nat /\ stableSupply' <= stableSupply /\ nRiskPro' = nRiskPro
  <2> DEFINE burnt == Smaller(amount, nStable)
  <2>1. burnt \in Nat
    BY <1>1, Constant DEF Smaller
  <2>2. /\ burnt <= stableSupply /\ stableSupply' = stableSupply - burnt
        /\ nRiskPro' = nRiskPro
    BY <1>3 DEF RedeemFreeStableToken
  <2>. HIDE DEF burnt
  <2>3. stableSupply - burnt \in Nat /\ stableSupply - burnt <= stableSupply
    BY <1>1, <2>1, <2>2
  <2>. QED
    BY <2>2, <2>3
<1>4. ASSUME NEW amount \in StableAmounts,
             RedeemAllStableToken(amount) \/ StableTokenRedemption(amount)
      PROVE  stableSupply' \in Nat /\ stableSupply' <= stableSupply /\ nRiskPro' = nRiskPro
  <2>1. /\ amount <= stableSupply /\ stableSupply' = stableSupply - amount
        /\ nRiskPro' = nRiskPro
    BY <1>4 DEF RedeemAllStableToken, StableTokenRedemption, bucketVars
  <2>2. stableSupply - amount \in Nat /\ stableSupply - amount <= stableSupply
    BY <1>1, <2>1, Constant
  <2>. QED
    BY <2>1, <2>2
<1>5. ASSUME UNCHANGED <<stableSupply, nRiskPro>>
      PROVE  stableSupply' \in Nat /\ stableSupply' <= stableSupply /\ nRiskPro' >= nRiskPro
  BY <1>1, <1>5
<1>6. CASE Users
  <2>1. ASSUME NEW amount \in Amounts, AddReserves(amount)
        PROVE  UNCHANGED <<stableSupply, nRiskPro>>
    BY <2>1 DEF AddReserves
  <2>2. ASSUME NEW amount \in Amounts, NEW bCons \in Bcons, RedeemRiskPro(amount, bCons)
        PROVE  UNCHANGED stableSupply
    BY <2>2 DEF RedeemRiskPro
  <2>. QED
    BY <1>1, <1>2, <1>3, <1>4, <1>5, <1>6, <2>1, <2>2 DEF Users
<1>7. CASE Payments
  BY <1>5, <1>7 DEF Payments, DailyInratePayment, PayRiskProHoldersInterestPayment
<1>8. CASE Settlement
  BY <1>1, <1>4, <1>5, <1>8 DEF Settlement, RunSettlement, EndOfCall, bucketVars
<1>9. CASE Environment \/ Liquidate \/ EvalLiquidation \/ NextStateAlone
  BY <1>5, <1>9 DEF Environment, PriceMove, SetLiquidationEnabled, Liquidate,
                    EvalLiquidation, NextStateAlone, bucketVars
<1>10. CASE UNCHANGED vars
  BY <1>5, <1>10 DEF vars, bucketVars
<1>. QED
  BY <1>1, <1>6, <1>7, <1>8, <1>9, <1>10 DEF Next

\* Something over the target, for the whole system, and so a coverage above it.
LEMMA AboveTarget ==
    ASSUME TypeOK, NEW bCons \in Bcons, AbsoluteOverCobj(bCons) > 0
    PROVE  CollateralReserves * price > Cobj * stableSupply
<1> DEFINE over == AbsoluteOverCobj(bCons)
           c == CollateralReserves * price
           a == AdjCobj(bCons) * stableSupply
           t == Cobj * stableSupply
<1>1. over \in Int /\ over <= c - a /\ a >= t /\ over > 0
  BY OverTarget
<1>2. /\ reserves \in Nat /\ inrateBag \in Nat /\ price \in Nat /\ stableSupply \in Nat
      /\ AdjCobj(bCons) \in Nat /\ Cobj \in Nat
  BY AdjCobjAbove, Constant DEF TypeOK
<1>3. c \in Int /\ a \in Int /\ t \in Int
  BY <1>2 DEF CollateralReserves
<1>. HIDE DEF over, c, a, t
<1>4. c > t
  BY <1>1, <1>3
<1>. QED
  BY <1>4 DEF c, t

LEMMA RedeemAboveTarget ==
    ASSUME TypeOK, NEW riskProAmount \in Amounts, NEW bCons \in Bcons,
           RedeemRiskPro(riskProAmount, bCons), nRiskPro' < nRiskPro
    PROVE  CollateralReserves * price > Cobj * stableSupply
<1> DEFINE amount == Smaller(riskProAmount, AbsoluteMaxRiskPro(bCons))
<1>1. amount \in Nat /\ (amount > 0 => AbsoluteOverCobj(bCons) > 0)
  BY RiskProRedeemed, RedeemPriced, Constant
<1>2. nRiskPro' = nRiskPro - amount /\ nRiskPro \in Nat
  BY DEF RedeemRiskPro, TypeOK
<1>. HIDE DEF amount
<1>3. amount # 0
  BY <1>2
<1>4. AbsoluteOverCobj(bCons) > 0
  BY <1>1, <1>3
<1>. QED
  BY <1>4, AboveTarget

LEMMA MintAboveTarget ==
    ASSUME TypeOK, NEW resTokensToMint \in Amounts, NEW bCons \in Bcons,
           MintStableToken(resTokensToMint, bCons), stableSupply' > stableSupply
    PROVE  CollateralReserves * price > Cobj * stableSupply
<1> DEFINE stableTokens == (resTokensToMint * price) \div MocPrecision
           amount == Smaller(stableTokens, AbsoluteMaxStableToken(bCons))
<1>1. amount \in Nat /\ (amount > 0 => AbsoluteOverCobj(bCons) > 0)
  BY StableTokensMinted, Constant
<1>2. stableSupply' = stableSupply + amount /\ stableSupply \in Nat
  BY DEF MintStableToken, TypeOK
<1>. HIDE DEF stableTokens, amount
<1>3. amount # 0
  BY <1>2
<1>4. AbsoluteOverCobj(bCons) > 0
  BY <1>1, <1>3
<1>. QED
  BY <1>4, AboveTarget

\* For any prices, moving average, amounts and thresholds, stable tokens are minted and
\* RiskPro redeemed only above the target, whether or not the liquidation is enabled.
THEOREM IssuesOnlyAboveTarget == Spec => OnlyAboveTarget
<1>1. ASSUME Inv, [Next]_vars, stableSupply' > stableSupply \/ nRiskPro' < nRiskPro
      PROVE  CollateralReserves * price > Cobj * stableSupply
  <2>1. stableSupply \in Nat /\ nRiskPro \in Nat /\ stableSupply' \in Nat /\ nRiskPro' \in Nat
    BY <1>1, InvStep DEF Inv, TypeOK
  <2>2. CASE \E amount \in Amounts, bCons \in Bcons : MintStableToken(amount, bCons)
    <3>1. nRiskPro' = nRiskPro
      BY <2>2 DEF MintStableToken
    <3>2. stableSupply' > stableSupply
      BY <1>1, <2>1, <3>1
    <3>. QED
      BY <1>1, <2>2, <3>2, MintAboveTarget DEF Inv
  <2>3. CASE ~ \E amount \in Amounts, bCons \in Bcons : MintStableToken(amount, bCons)
    <3>1. PICK amount \in Amounts, bCons \in Bcons : RedeemRiskPro(amount, bCons)
      BY <1>1, <2>1, <2>3, OnlyMintAndRedeem
    <3>2. nRiskPro' < nRiskPro
      BY <1>1, <2>1, <2>3, OnlyMintAndRedeem
    <3>. QED
      BY <1>1, <3>1, <3>2, RedeemAboveTarget DEF Inv
  <2>. QED
    BY <2>2, <2>3
<1>2. Inv /\ [Next]_vars =>
        [stableSupply' > stableSupply \/ nRiskPro' < nRiskPro =>
           CollateralReserves * price > Cobj * stableSupply]_vars
  BY <1>1
<1>. QED
  BY <1>2, Inductive, PTL DEF Spec, OnlyAboveTarget

\* The arithmetic of a mint: a is the adjusted target, c the collateral.
LEMMA MintArithmetic ==
    ASSUME NEW c \in Int, NEW p \in Nat, NEW a \in Nat, NEW t \in Nat, NEW m \in Nat,
           NEW supply \in Nat, NEW amount \in Nat, NEW cost \in Nat,
           t <= a, m <= a,
           (a - m) * amount <= c * p - a * supply,
           m * amount <= p * cost + p
    PROVE  ((c + cost) + 1) * p >= t * (supply + amount)
<1>1. /\ (a - m) * amount = a * amount - m * amount
      /\ ((c + cost) + 1) * p = c * p + p * cost + p
      /\ a * (supply + amount) = a * supply + a * amount
  OBVIOUS
<1>2. /\ a * amount \in Nat /\ m * amount \in Nat /\ c * p \in Int /\ p * cost \in Nat
      /\ a * supply \in Nat
  OBVIOUS
<1>3. c * p + p * cost + p >= a * supply + a * amount
  BY <1>1, <1>2
<1>4. /\ (supply + amount) * t <= (supply + amount) * a
      /\ (supply + amount) * t = t * (supply + amount)
      /\ (supply + amount) * a = a * (supply + amount)
  BY ProductMonotone, ProductIsNat, supply + amount \in Nat
<1>5. t * (supply + amount) \in Nat /\ a * (supply + amount) \in Nat
  BY ProductIsNat, supply + amount \in Nat
<1>. QED
  BY <1>1, <1>2, <1>3, <1>4, <1>5

LEMMA MintKeepsCoverage ==
    ASSUME TypeOK, NEW resTokensToMint \in Amounts, NEW bCons \in Bcons,
           MintStableToken(resTokensToMint, bCons), stableSupply' > stableSupply
    PROVE  (CollateralReserves' + 1) * price' >= Cobj * stableSupply'
<1> DEFINE stableTokens == (resTokensToMint * price) \div MocPrecision
           amount == Smaller(stableTokens, AbsoluteMaxStableToken(bCons))
           totalCost == IF amount = stableTokens THEN resTokensToMint
                        ELSE StableTokensResTokensValue(amount, price)
<1>1. /\ amount \in Nat /\ totalCost \in Nat
      /\ amount <= AbsoluteMaxStableToken(bCons)
      /\ amount > 0 => AbsoluteOverCobj(bCons) > 0
      /\ MocPrecision * amount <= price * totalCost + price
  BY StableTokensMinted, Constant
<1>2. /\ stableSupply' = stableSupply + amount /\ reserves' = reserves + totalCost
      /\ price' = price /\ inrateBag' = inrateBag
  BY DEF MintStableToken
<1>. HIDE DEF stableTokens, amount, totalCost
<1>3. /\ reserves \in Nat /\ inrateBag \in Nat /\ stableSupply \in Nat /\ price \in Nat
      /\ MocPrecision \in Nat \ {0} /\ Cobj \in Nat
  BY Constant DEF TypeOK
<1>4. amount # 0
  BY <1>2, <1>3
<1>5. AbsoluteOverCobj(bCons) > 0
  BY <1>1, <1>4
<1> DEFINE a == AdjCobj(bCons)
           d == a - MocPrecision
           over == AbsoluteOverCobj(bCons)
<1>6. a \in Nat /\ Cobj <= a /\ MocPrecision <= a /\ d \in Nat \ {0}
  BY <1>3, AdjCobjAbove, Constant
<1>7. over \in Nat /\ over <= CollateralReserves * price - a * stableSupply
  BY <1>5, OverTarget
<1>8. amount <= over \div d
  BY <1>1, <1>5, <1>7 DEF AbsoluteMaxStableToken
<1>. HIDE DEF a, d, over
<1>9. d * amount <= over
  <2>1. over \div d \in Nat /\ d * (over \div d) <= over
    BY <1>6, <1>7, DivisionIsNat
  <2>2. d * amount <= d * (over \div d)
    BY <1>1, <1>6, <1>8, <2>1, ProductMonotone
  <2>3. d * amount \in Nat /\ d * (over \div d) \in Nat
    BY <1>1, <1>6, <2>1, ProductIsNat
  <2>. QED
    BY <1>7, <2>1, <2>2, <2>3
<1>10. CollateralReserves \in Int /\ CollateralReserves' = CollateralReserves + totalCost
  <2>1. (reserves + totalCost) - inrateBag = (reserves - inrateBag) + totalCost
    BY <1>1, <1>3
  <2>. QED
    BY <1>2, <1>3, <2>1 DEF CollateralReserves
<1>11. (a - MocPrecision) * amount <= CollateralReserves * price - a * stableSupply
  <2>1. /\ CollateralReserves * price - a * stableSupply \in Int
        /\ d * amount \in Nat
    BY <1>1, <1>3, <1>6, <1>10
  <2>2. d * amount <= CollateralReserves * price - a * stableSupply
    BY <1>7, <1>9, <2>1
  <2>. QED
    BY <2>2 DEF d
<1>12. ((CollateralReserves + totalCost) + 1) * price >= Cobj * (stableSupply + amount)
  BY <1>1, <1>3, <1>6, <1>10, <1>11, MintArithmetic
<1>. QED
  BY <1>2, <1>10, <1>12

\* For any prices, moving average and amounts, a mint leaves the coverage at its target
\* or above, up to one reserve token.
THEOREM MintAlwaysKeepsTarget == Spec => MintKeepsTarget
<1>1. ASSUME Inv, [Next]_vars, stableSupply' > stableSupply
      PROVE  (CollateralReserves' + 1) * price' >= Cobj * stableSupply'
  <2>1. \E amount \in Amounts, bCons \in Bcons : MintStableToken(amount, bCons)
    <3>1. stableSupply \in Nat
      BY <1>1 DEF Inv, TypeOK
    <3>. QED
      BY <1>1, <3>1, OnlyMintAndRedeem
  <2>. QED
    BY <1>1, <2>1, MintKeepsCoverage DEF Inv
<1>2. Inv /\ [Next]_vars =>
        [stableSupply' > stableSupply =>
           (CollateralReserves' + 1) * price' >= Cobj * stableSupply']_vars
  BY <1>1
<1>. QED
  BY <1>2, Inductive, PTL DEF Spec, MintKeepsTarget

\* Whatever the prices do, a liquidated system stays so and keeps its price; it mints
\* nothing, redeems no RiskPro and sends the remainder once.
THEOREM LiquidationAlwaysFinal == Spec => LiquidationIsFinal
<1>1. ASSUME Inv, [Next]_vars, state = "Liquidated"
      PROVE  /\ state' = "Liquidated" /\ liquidationPrice' = liquidationPrice
             /\ stableSupply' <= stableSupply /\ nRiskPro' = nRiskPro
             /\ liquidationExecuted => liquidationExecuted'
  <2>1. ~ inCall /\ ~ Operating
    BY <1>1, OperatingOK DEF Inv, CallInv
  <2>2. /\ nRiskPro' = nRiskPro
        /\ liquidationExecuted => liquidationExecuted'
        /\ Transition \/ (state' = state /\ liquidationPrice' = liquidationPrice)
    BY <1>1, <2>1 DEF Next, vars, Users, AddReserves, MintRiskPro, RedeemRiskPro,
       MintStableToken, RedeemFreeStableToken, RedeemAllStableToken, Payments,
       DailyInratePayment, PayRiskProHoldersInterestPayment, Settlement, RunSettlement,
       StableTokenRedemption, EndOfCall, Environment, PriceMove, SetLiquidationEnabled,
       Liquidate, EvalLiquidation, NextStateAlone, stateVars, bucketVars
  <2>3. state' = "Liquidated" /\ liquidationPrice' = liquidationPrice
    BY <1>1, <2>2, TransitionOK DEF Inv
  <2>4. stableSupply' <= stableSupply
    <3>1. ~ \E amount \in Amounts, bCons \in Bcons : MintStableToken(amount, bCons)
      BY <2>1 DEF MintStableToken
    <3>. QED
      BY <1>1, <3>1, OnlyMintAndRedeem
  <2>. QED
    BY <2>2, <2>3, <2>4
<1>2. Inv /\ [Next]_vars =>
        [state = "Liquidated" =>
           /\ state' = "Liquidated" /\ liquidationPrice' = liquidationPrice
           /\ stableSupply' <= stableSupply /\ nRiskPro' = nRiskPro
           /\ liquidationExecuted => liquidationExecuted']_vars
  BY <1>1
<1>. QED
  BY <1>2, Inductive, PTL DEF Spec, LiquidationIsFinal

=============================================================================
