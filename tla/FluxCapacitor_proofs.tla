------------------------ MODULE FluxCapacitor_proofs ------------------------
(***************************************************************************)
(* Proofs about FluxCapacitor for every precision, limit, span and amount. *)
(***************************************************************************)
EXTENDS MCFluxCapacitor, Sums_proofs

(* ---------------------------------------------------------------------- *)
(* Division of naturals.                                                  *)

LEMMA DivisionIsNat ==
    ASSUME NEW n \in Nat, NEW d \in Nat \ {0}
    PROVE  /\ n \div d \in Nat
           /\ d * (n \div d) <= n
           /\ n < d * (n \div d) + d
  OBVIOUS

LEMMA ProductMonotone ==
    ASSUME NEW m \in Nat, NEW n \in Nat, NEW f \in Nat, m <= n
    PROVE  m * f <= n * f
<1>1. PICK k \in Nat : n = m + k
  OBVIOUS
<1>2. n * f = m * f + k * f
  BY <1>1
<1>3. m * f \in Nat /\ k * f \in Nat
  BY <1>1
<1>. QED
  BY <1>2, <1>3

LEMMA DivisionMonotone ==
    ASSUME NEW m \in Nat, NEW n \in Nat, NEW d \in Nat \ {0}, m <= n
    PROVE  m \div d <= n \div d
<1> DEFINE p == m \div d
           q == n \div d
<1>1. p \in Nat /\ q \in Nat /\ d * p <= m /\ n < d * q + d
  BY DivisionIsNat
<1>. HIDE DEF p, q
<1>2. SUFFICES ASSUME q < p PROVE FALSE
  BY <1>1 DEF p, q
<1>3. PICK k \in Nat : p = q + 1 + k
  BY <1>1, <1>2
<1>4. d * p = d * q + d + d * k /\ d * k \in Nat /\ d * q \in Nat /\ d * p \in Nat
  BY <1>1, <1>3
<1>. QED
  BY <1>1, <1>4

LEMMA QuotientOfProduct ==
    ASSUME NEW n \in Nat, NEW d \in Nat \ {0}
    PROVE  (n * d) \div d = n
<1> DEFINE m == n * d
           q == m \div d
<1>1. m \in Nat
  OBVIOUS
<1>2. q \in Nat /\ d * q <= n * d /\ n * d < d * q + d
  BY <1>1, DivisionIsNat
<1>. HIDE DEF q
<1>3. ~ (q < n)
  <2>. SUFFICES ASSUME q < n PROVE FALSE
    OBVIOUS
  <2>1. PICK k \in Nat : n = q + 1 + k
    BY <1>2
  <2>2. n * d = d * q + d + d * k /\ d * k \in Nat /\ d * q \in Nat
    BY <1>2, <2>1
  <2>. QED
    BY <1>2, <2>2
<1>4. ~ (n < q)
  <2>. SUFFICES ASSUME n < q PROVE FALSE
    OBVIOUS
  <2>1. PICK k \in Nat : q = n + 1 + k
    BY <1>2
  <2>2. d * q = n * d + d + d * k /\ d * k \in Nat /\ n * d \in Nat
    BY <1>2, <2>1
  <2>. QED
    BY <1>2, <2>2
<1>. QED
  BY <1>2, <1>3, <1>4 DEF q

(* ---------------------------------------------------------------------- *)
(* Decay.                                                                 *)

LEMMA DecayFactorBounds ==
    ASSUME elapsed \in Nat, decayBlockSpan \in Nat \ {0}, NEW blocks \in Nat
    PROVE  /\ DecayFactor(blocks) \in 0 .. Precision
           /\ elapsed + blocks = 0 => DecayFactor(blocks) = Precision
<1> DEFINE n == (elapsed + blocks) * Precision
           ratio == n \div decayBlockSpan
<1>1. n \in Nat /\ (elapsed + blocks = 0 => n = 0)
  BY FluxConstants
<1>2. ratio \in Nat /\ decayBlockSpan * ratio <= n
  <2>. HIDE DEF n
  <2>. QED
    BY <1>1, DivisionIsNat
<1>. HIDE DEF n
<1>3. elapsed + blocks = 0 => ratio = 0
  BY <1>1, <1>2
<1>4. DecayFactor(blocks) = IF ratio >= Precision THEN 0 ELSE Precision - ratio
  BY DEF DecayFactor, n
<1>. HIDE DEF ratio
<1>. QED
  BY <1>2, <1>3, <1>4, FluxConstants

LEMMA AbsoluteDivision ==
    ASSUME NEW n \in Int, NEW f \in Nat, NEW d \in Nat \ {0}
    PROVE  /\ Abs(n) \in Nat
           /\ DivideTowardsZero(n * f, d) \in Int
           /\ Abs(DivideTowardsZero(n * f, d)) = (Abs(n) * f) \div d
<1>1. Abs(n) \in Nat
  BY DEF Abs
<1>2. CASE n >= 0
  <2>1. n * f \in Nat /\ Abs(n) = n
    BY <1>2 DEF Abs
  <2>2. (n * f) \div d \in Nat
    BY <2>1, DivisionIsNat
  <2>3. DivideTowardsZero(n * f, d) = (n * f) \div d
    BY <2>1 DEF DivideTowardsZero
  <2>. QED
    BY <1>1, <2>1, <2>2, <2>3 DEF Abs
<1>3. CASE n < 0
  <2>. DEFINE m == -n
             p == m * f
  <2>1. m \in Nat /\ Abs(n) = m
    BY <1>3 DEF Abs
  <2>2. p \in Nat /\ n * f = -p
    BY <2>1
  <2>. HIDE DEF m, p
  <2>3. p \div d \in Nat
    BY <2>2, DivisionIsNat
  <2>4. p = 0 => p \div d = 0
    BY <2>2, <2>3, DivisionIsNat
  <2>5. DivideTowardsZero(n * f, d) = IF p = 0 THEN 0 \div d ELSE -(p \div d)
    BY <2>2 DEF DivideTowardsZero
  <2>6. DivideTowardsZero(n * f, d) = -(p \div d)
    BY <2>3, <2>4, <2>5
  <2>7. Abs(-(p \div d)) = p \div d
    BY <2>3 DEF Abs
  <2>. QED
    BY <1>1, <2>1, <2>3, <2>6, <2>7 DEF p
<1>. QED
  BY <1>2, <1>3

\* Decay keeps the accumulators in order, and changes nothing in the block of the
\* last operation.
LEMMA AccumulatorsAfter ==
    ASSUME TypeOK, Abs(differentialAccumulator) <= absoluteAccumulator,
           decayBlockSpan > 0, NEW blocks \in Nat
    PROVE  /\ AbsoluteAfter(blocks) \in Nat
           /\ DifferentialAfter(blocks) \in Int
           /\ Abs(DifferentialAfter(blocks)) <= AbsoluteAfter(blocks)
           /\ elapsed + blocks = 0 =>
                /\ AbsoluteAfter(blocks) = absoluteAccumulator
                /\ Abs(DifferentialAfter(blocks)) = Abs(differentialAccumulator)
                /\ DifferentialAfter(blocks) = differentialAccumulator
<1> DEFINE f == DecayFactor(blocks)
           D == differentialAccumulator
           A == absoluteAccumulator
<1>1. /\ A \in Nat /\ D \in Int /\ Precision \in Nat \ {0}
      /\ elapsed \in Nat /\ decayBlockSpan \in Nat \ {0} /\ Abs(D) <= A
  BY FluxConstants DEF TypeOK
<1>2. f \in Nat /\ (elapsed + blocks = 0 => f = Precision)
  BY <1>1, DecayFactorBounds
<1>3. /\ AbsoluteAfter(blocks) = (A * f) \div Precision
      /\ DifferentialAfter(blocks) = DivideTowardsZero(D * f, Precision)
  BY DEF AbsoluteAfter, DifferentialAfter
<1>. HIDE DEF f, D, A
<1>4. /\ Abs(D) \in Nat
      /\ DivideTowardsZero(D * f, Precision) \in Int
      /\ Abs(DivideTowardsZero(D * f, Precision)) = (Abs(D) * f) \div Precision
  BY <1>1, <1>2, AbsoluteDivision
<1>5. Abs(D) * f <= A * f /\ Abs(D) * f \in Nat /\ A * f \in Nat
  BY <1>1, <1>2, <1>4, ProductMonotone
<1>6. (Abs(D) * f) \div Precision <= (A * f) \div Precision
  BY <1>1, <1>5, DivisionMonotone
<1>7. (A * f) \div Precision \in Nat
  BY <1>1, <1>5, DivisionIsNat
<1>8. ASSUME elapsed + blocks = 0
      PROVE  /\ (A * f) \div Precision = A
             /\ (Abs(D) * f) \div Precision = Abs(D)
  BY <1>1, <1>2, <1>4, <1>8, QuotientOfProduct
<1>9. ASSUME elapsed + blocks = 0
      PROVE  DivideTowardsZero(D * f, Precision) = D
  <2>1. f = Precision
    BY <1>2, <1>9
  <2>2. CASE D >= 0
    <3>1. D \in Nat /\ D * f \in Nat /\ (D * f) \div Precision = D
      BY <1>1, <2>1, <2>2, QuotientOfProduct
    <3>. QED
      BY <3>1 DEF DivideTowardsZero
  <2>3. CASE D < 0
    <3>1. -D \in Nat /\ ((-D) * f) \div Precision = -D
      BY <1>1, <2>1, <2>3, QuotientOfProduct
    <3>2. D * f \in Int /\ D * f < 0 /\ -(D * f) = (-D) * f
      BY <1>1, <2>1, <2>3
    <3>3. DivideTowardsZero(D * f, Precision) = -(((-D) * f) \div Precision)
      BY <3>2 DEF DivideTowardsZero
    <3>. QED
      BY <1>1, <3>1, <3>3
  <2>. QED
    BY <1>1, <2>2, <2>3
<1>. QED
  BY <1>3, <1>4, <1>6, <1>7, <1>8, <1>9 DEF A, D

(* ---------------------------------------------------------------------- *)
(* The accumulators.                                                      *)

\* Take the operations of the current block away from the accumulators: what is
\* left, what they held when the block began, is in order too.
BlockInv ==
    /\ minted + redeemed > 0 => elapsed = 0
    /\ Abs(differentialAccumulator - (minted - redeemed))
         <= absoluteAccumulator - (minted + redeemed)

FluxInv == TypeOK /\ BlockInv

LEMMA InOrder ==
    ASSUME FluxInv
    PROVE  Abs(differentialAccumulator) <= absoluteAccumulator
  BY DEF FluxInv, BlockInv, TypeOK, Abs

\* The accumulators an operation of the current block starts from.
LEMMA AccumulatorsNow ==
    ASSUME FluxInv, decayBlockSpan > 0
    PROVE  /\ AbsoluteAfter(0) \in Nat /\ DifferentialAfter(0) \in Int
           /\ Abs(DifferentialAfter(0) - (minted - redeemed))
                <= AbsoluteAfter(0) - (minted + redeemed)
<1>1. /\ AbsoluteAfter(0) \in Nat
      /\ DifferentialAfter(0) \in Int
      /\ Abs(DifferentialAfter(0)) <= AbsoluteAfter(0)
      /\ elapsed + 0 = 0 =>
           /\ AbsoluteAfter(0) = absoluteAccumulator
           /\ DifferentialAfter(0) = differentialAccumulator
  BY InOrder, AccumulatorsAfter DEF FluxInv
<1>2. minted \in Nat /\ redeemed \in Nat
  BY DEF FluxInv, TypeOK
<1>3. CASE minted + redeemed > 0
  BY <1>1, <1>3 DEF FluxInv, BlockInv
<1>4. CASE minted + redeemed = 0
  <2>1. minted = 0 /\ redeemed = 0
    BY <1>2, <1>4
  <2>. QED
    BY <1>1, <2>1
<1>. QED
  BY <1>2, <1>3, <1>4

LEMMA MintStep ==
    ASSUME FluxInv, NEW amount \in Amounts, Mint(amount)
    PROVE  FluxInv'
<1> DEFINE A == AbsoluteAfter(0)
           D == DifferentialAfter(0)
<1>1. /\ A \in Nat /\ D \in Int /\ amount \in Nat
      /\ minted \in Nat /\ redeemed \in Nat
      /\ Abs(D - (minted - redeemed)) <= A - (minted + redeemed)
  BY AccumulatorsNow, FluxConstants DEF Mint, FluxInv, TypeOK
<1>2. /\ absoluteAccumulator' = A + amount /\ differentialAccumulator' = D + amount
      /\ minted' = minted + amount /\ redeemed' = redeemed
      /\ elapsed' = 0 /\ initialized' = TRUE
      /\ UNCHANGED <<limits, decayBlockSpan>>
  BY DEF Mint, Record
<1>. HIDE DEF A, D
<1>3. TypeOK'
  BY <1>1, <1>2, FluxConstants DEF FluxInv, TypeOK, limits
<1>4. BlockInv'
  BY <1>1, <1>2 DEF BlockInv, Abs
<1>. QED
  BY <1>3, <1>4 DEF FluxInv

LEMMA RedeemStep ==
    ASSUME FluxInv, NEW amount \in Amounts, Redeem(amount)
    PROVE  FluxInv'
<1> DEFINE A == AbsoluteAfter(0)
           D == DifferentialAfter(0)
<1>1. /\ A \in Nat /\ D \in Int /\ amount \in Nat
      /\ minted \in Nat /\ redeemed \in Nat
      /\ Abs(D - (minted - redeemed)) <= A - (minted + redeemed)
  BY AccumulatorsNow, FluxConstants DEF Redeem, FluxInv, TypeOK
<1>2. /\ absoluteAccumulator' = A + amount /\ differentialAccumulator' = D - amount
      /\ minted' = minted /\ redeemed' = redeemed + amount
      /\ elapsed' = 0 /\ initialized' = TRUE
      /\ UNCHANGED <<limits, decayBlockSpan>>
  BY DEF Redeem, Record
<1>. HIDE DEF A, D
<1>3. TypeOK'
  BY <1>1, <1>2, FluxConstants DEF FluxInv, TypeOK, limits
<1>4. BlockInv'
  BY <1>1, <1>2 DEF BlockInv, Abs
<1>. QED
  BY <1>3, <1>4 DEF FluxInv

LEMMA ConfigureStep ==
    ASSUME FluxInv, Configure
    PROVE  FluxInv'
<1>1. /\ UNCHANGED <<accumulators, history>>
      /\ elapsed' = elapsed \/ elapsed' = 0
  BY DEF Configure, SetMaxAbsoluteOperation, SetMaxOperationalDifference,
         SetDecayBlockSpan
<1>2. /\ maxAbsoluteOperation' \in Nat /\ maxOperationalDifference' \in Nat
      /\ decayBlockSpan' \in Nat /\ initialized' \in BOOLEAN
  BY FluxConstants DEF Configure, SetMaxAbsoluteOperation, SetMaxOperationalDifference,
         SetDecayBlockSpan, FluxInv, TypeOK, limits
<1>3. TypeOK'
  BY <1>1, <1>2, FluxConstants DEF FluxInv, TypeOK, accumulators, history
<1>4. BlockInv'
  BY <1>1 DEF FluxInv, TypeOK, BlockInv, Abs, accumulators, history
<1>. QED
  BY <1>3, <1>4 DEF FluxInv

LEMMA NewBlockStep ==
    ASSUME FluxInv, NewBlock
    PROVE  FluxInv'
<1>1. TypeOK'
  BY FluxConstants DEF FluxInv, TypeOK, NewBlock, accumulators, limits
<1>2. BlockInv'
  BY InOrder DEF FluxInv, TypeOK, BlockInv, Abs, NewBlock, accumulators
<1>. QED
  BY <1>1, <1>2 DEF FluxInv

LEMMA FluxStep == FluxInv /\ [Next]_vars => FluxInv'
<1>1. FluxInv /\ UNCHANGED vars => FluxInv'
  BY DEF FluxInv, TypeOK, BlockInv, vars, accumulators, limits, history
<1>. QED
  BY <1>1, MintStep, RedeemStep, ConfigureStep, NewBlockStep DEF Next, Operate

\* The invariant of the flux capacitor.
THEOREM FluxInvariant == Spec => []FluxInv
<1>1. ASSUME Init PROVE FluxInv
  <2>1. TypeOK
    <3>1. initialized \in BOOLEAN
      BY <1>1 DEF Init
    <3>. QED
      BY <1>1, <3>1, FluxConstants DEF Init, TypeOK
  <2>2. /\ minted = 0 /\ redeemed = 0
        /\ absoluteAccumulator = 0 /\ differentialAccumulator = 0
    BY <1>1 DEF Init
  <2>3. BlockInv
    BY <2>2 DEF BlockInv, Abs
  <2>. QED
    BY <2>1, <2>3 DEF FluxInv
<1>. QED
  BY <1>1, FluxStep, PTL DEF Spec

\* Every variable keeps its type.
THEOREM FluxTypeCorrect == Spec => []TypeOK
<1>1. FluxInv => TypeOK
  BY DEF FluxInv
<1>. QED
  BY FluxInvariant, <1>1, PTL

\* |DA| <= AA, before and after decay: the operational difference never underflows,
\* for any precision and any span.
THEOREM NoUnderflow == Spec => []DifferentialWithinAbsolute
<1>1. ASSUME FluxInv PROVE DifferentialWithinAbsolute
  <2>1. /\ Abs(differentialAccumulator) <= absoluteAccumulator
        /\ TypeOK
    BY <1>1, InOrder DEF FluxInv
  <2>2. ASSUME decayBlockSpan > 0, NEW blocks \in {0, 1}
        PROVE  Abs(DifferentialAfter(blocks)) <= AbsoluteAfter(blocks)
    <3>1. blocks \in Nat
      OBVIOUS
    <3>. QED
      BY <2>1, <2>2, <3>1, AccumulatorsAfter
  <2>. QED
    BY <2>1, <2>2 DEF DifferentialWithinAbsolute
<1>. QED
  BY FluxInvariant, <1>1, PTL

\* The two closed forms of CalcMaxReserveAllowedToOperate solve the inequalities
\* the operations check.
LEMMA AllowedAmounts ==
    ASSUME NEW A \in Nat, NEW D \in Int, Abs(D) <= A, NEW amount \in Nat \ {0},
           maxAbsoluteOperation \in Nat, maxOperationalDifference \in Nat
    PROVE  /\ Allowed(A + amount, D + amount) <=>
                 amount <= CalcMaxReserveAllowedToOperate(A, A - D, A + D)
           /\ Allowed(A + amount, D - amount) <=>
                 amount <= CalcMaxReserveAllowedToOperate(A, A + D, A - D)
  BY DEF Allowed, CalcMaxReserveAllowedToOperate, Abs

\* What the contract publishes as allowed is exactly what it accepts.
THEOREM LimitsExact == Spec => []PublishedLimitsAreExact
<1>1. ASSUME FluxInv PROVE PublishedLimitsAreExact
  <2>. SUFFICES ASSUME decayBlockSpan > 0, NEW amount \in Amounts \ {0}
                PROVE  /\ MintAllowed(amount) <=> amount <= MaxReserveAllowedToMint(0)
                       /\ RedeemAllowed(amount) <=> amount <= MaxReserveAllowedToRedeem(0)
    BY DEF PublishedLimitsAreExact
  <2>1. /\ AbsoluteAfter(0) \in Nat /\ DifferentialAfter(0) \in Int
        /\ Abs(DifferentialAfter(0)) <= AbsoluteAfter(0)
    BY <1>1, InOrder, AccumulatorsAfter DEF FluxInv
  <2>2. /\ maxAbsoluteOperation \in Nat /\ maxOperationalDifference \in Nat
        /\ amount \in Nat \ {0}
    BY <1>1, FluxConstants DEF FluxInv, TypeOK
  <2>. QED
    BY <2>1, <2>2, AllowedAmounts
       DEF MintAllowed, RedeemAllowed, MaxReserveAllowedToMint, MaxReserveAllowedToRedeem
<1>. QED
  BY FluxInvariant, <1>1, PTL

LEMMA BackAndForth ==
    ASSUME NEW A \in Nat, NEW D \in Int, NEW m \in Nat, NEW r \in Nat,
           NEW max \in Nat, NEW limit \in Nat,
           A <= max, A - Abs(D) <= limit, Abs(D - (m - r)) <= A - (m + r)
    PROVE  m + r <= max /\ (2 * m <= limit \/ 2 * r <= limit)
  BY DEF Abs

LEMMA SameOrNone ==
    ASSUME NEW m1 \in Nat, NEW r1 \in Nat, NEW m \in Nat, NEW r \in Nat,
           m1 + r1 = m + r \/ (m1 = 0 /\ r1 = 0)
    PROVE  ~ (m1 + r1 > m + r)
  OBVIOUS

\* The volume of a block, and the part of it that goes back and forth, stay within
\* the limits, whatever was accumulated before and however it was rounded.
THEOREM BlocksWithinLimits == Spec => BlockWithinLimits
<1>. DEFINE Within == minted' + redeemed' > minted + redeemed =>
                        /\ minted' + redeemed' <= maxAbsoluteOperation
                        /\ 2 * minted' <= maxOperationalDifference
                             \/ 2 * redeemed' <= maxOperationalDifference
<1>1. ASSUME FluxInv, FluxInv', Next PROVE Within
  <2>1. CASE Operate
    <3>1. /\ absoluteAccumulator' <= maxAbsoluteOperation
          /\ absoluteAccumulator' - Abs(differentialAccumulator')
               <= maxOperationalDifference
      BY <2>1 DEF Operate, Mint, Redeem, Record, MintAllowed, RedeemAllowed, Allowed
    <3>2. /\ minted' \in Nat /\ redeemed' \in Nat
          /\ absoluteAccumulator' \in Nat /\ differentialAccumulator' \in Int
          /\ maxAbsoluteOperation \in Nat /\ maxOperationalDifference \in Nat
      BY <1>1 DEF FluxInv, TypeOK
    <3>3. Abs(differentialAccumulator' - (minted' - redeemed'))
               <= absoluteAccumulator' - (minted' + redeemed')
      BY <1>1 DEF FluxInv, BlockInv, Abs
    <3>. QED
      BY <3>1, <3>2, <3>3, BackAndForth
  <2>2. CASE Configure \/ NewBlock
    <3>1. minted' + redeemed' = minted + redeemed \/ (minted' = 0 /\ redeemed' = 0)
      BY <2>2 DEF Configure, SetMaxAbsoluteOperation, SetMaxOperationalDifference,
                  SetDecayBlockSpan, NewBlock, history
    <3>2. /\ minted \in Nat /\ redeemed \in Nat
          /\ minted' \in Nat /\ redeemed' \in Nat
      BY <1>1 DEF FluxInv, TypeOK
    <3>3. ~ (minted' + redeemed' > minted + redeemed)
      BY <3>1, <3>2, SameOrNone
    <3>. QED
      BY <3>3
  <2>. QED
    BY <1>1, <2>1, <2>2 DEF Next
<1>2. FluxInv /\ FluxInv' /\ [Next]_vars => [Within]_vars
  BY <1>1
<1>. QED
  BY FluxInvariant, <1>2, PTL DEF Spec, BlockWithinLimits

(* ---------------------------------------------------------------------- *)
(* The blocks of a window.                                                *)

\* The history does not disturb the flux capacitor.
LEMMA HistoryOnly == MCSpec => Spec
<1>1. MCInit => Init
  BY DEF MCInit
<1>2. [MCNext]_<<vars, window>> => [Next]_vars
  BY DEF MCNext, OperateInWindow, ConfigureAgain, NextBlock, Next
<1>. QED
  BY <1>1, <1>2, PTL DEF MCSpec, Spec

\* What the last k blocks moved.
Volume(k) == SumFunctionOnSet(window, 1 .. k)

\* What decay gives back per block, at most.
GivenBack == (maxAbsoluteOperation + decayBlockSpan - 1) \div decayBlockSpan

\* What was moved before the last operation and is no longer accumulated was given
\* back, block by block, since.
WithinGivenBack(k) ==
    \/ Volume(k) = 0
    \/ /\ k > elapsed
       /\ absoluteAccumulator <= maxAbsoluteOperation
       /\ Volume(k) <= absoluteAccumulator + (k - 1 - elapsed) * GivenBack

WindowInv ==
    /\ window \in [1 .. MaxElapsed -> Nat]
    /\ decayBlockSpan \in Spans \union {0}
    /\ decayBlockSpan > 0 => \A k \in 1 .. MaxElapsed : WithinGivenBack(k)

LEMMA GivenBackCovers ==
    ASSUME NEW A \in Nat, NEW D \in Nat \ {0}
    PROVE  /\ (A + D - 1) \div D \in Nat
           /\ A <= D * ((A + D - 1) \div D)
<1>. DEFINE n == A + D - 1
            C == n \div D
<1>1. n \in Nat
  OBVIOUS
<1>2. C \in Nat /\ n < D * C + D
  <2>. HIDE DEF n
  <2>. QED
    BY <1>1, DivisionIsNat
<1>3. D * C \in Nat
  BY <1>2
<1>. HIDE DEF C
<1>. QED
  BY <1>2, <1>3 DEF C

\* A quotient is at least any number whose product the divisor does not exceed.
LEMMA QuotientAtLeast ==
    ASSUME NEW n \in Nat, NEW d \in Nat \ {0}, NEW x \in Int, x * d <= n
    PROVE  x <= n \div d
<1>. DEFINE q == n \div d
<1>1. q \in Nat /\ n < d * q + d
  BY DivisionIsNat
<1>. HIDE DEF q
<1>. SUFFICES ASSUME q < x PROVE FALSE
  BY <1>1 DEF q
<1>1a. PICK k \in Nat : x = q + 1 + k
  BY <1>1
<1>2. x * d = d * q + d + k * d /\ k * d \in Nat /\ d * q \in Nat
  BY <1>1, <1>1a
<1>. QED
  BY <1>1, <1>2

\* In e blocks, decay takes at most e times GivenBack away.
LEMMA DecayLoses ==
    ASSUME FluxInv, decayBlockSpan > 0, absoluteAccumulator <= maxAbsoluteOperation
    PROVE  /\ GivenBack \in Nat
           /\ absoluteAccumulator - elapsed * GivenBack <= AbsoluteAfter(0)
<1>. DEFINE A == maxAbsoluteOperation
            D == decayBlockSpan
            C == GivenBack
            e == elapsed
            AA == absoluteAccumulator
            P == Precision
            m == e * P
            ratio == m \div D
            f == DecayFactor(0)
<1>1. /\ A \in Nat /\ D \in Nat \ {0} /\ e \in Nat /\ AA \in Nat
      /\ P \in Nat \ {0} /\ AA <= A
  BY FluxConstants DEF FluxInv, TypeOK
<1>2. C \in Nat /\ A <= D * C
  BY <1>1, GivenBackCovers DEF GivenBack
<1>3. m \in Nat /\ e + 0 = e
  BY <1>1
<1>4. ratio \in Nat /\ D * ratio <= m /\ m < D * ratio + D
  <2>. HIDE DEF m, D
  <2>. QED
    BY <1>1, <1>3, DivisionIsNat
<1>5. f = (IF ratio >= P THEN 0 ELSE P - ratio) /\ AbsoluteAfter(0) = (AA * f) \div P
  BY <1>3 DEF DecayFactor, AbsoluteAfter
<1>6. f \in Nat /\ AA * f \in Nat
  BY <1>1, <1>4, <1>5
<1>7. AbsoluteAfter(0) \in Nat
  BY <1>1, <1>5, <1>6, DivisionIsNat
<1>. HIDE DEF A, D, C, e, AA, P, m, ratio, f
<1>8. e * C \in Nat /\ D * C \in Nat /\ e * P = m
  BY <1>1, <1>2 DEF m
<1>9. CASE ratio >= P
  <2>1. D * P <= D * ratio /\ D * P \in Nat /\ D * ratio \in Nat
    BY <1>1, <1>4, <1>9, ProductMonotone
  <2>2. D <= e
    <3>. SUFFICES ASSUME e < D PROVE FALSE
      BY <1>1
    <3>1. PICK k \in Nat : D = e + 1 + k
      BY <1>1
    <3>2. D * P = e * P + P + k * P /\ k * P \in Nat
      BY <1>1, <3>1
    <3>. QED
      BY <1>1, <1>3, <1>4, <1>8, <2>1, <3>2
  <2>3. D * C <= e * C
    BY <1>1, <1>2, <2>2, ProductMonotone
  <2>4. AA - e * C <= 0
    BY <1>1, <1>2, <1>8, <2>3
  <2>. QED
    BY <1>1, <1>2, <1>7, <1>8, <2>4 DEF AA, e, C
<1>10. CASE ratio < P
  <2>1. f = P - ratio
    BY <1>1, <1>4, <1>5, <1>10
  \* AA * ratio <= A * ratio <= D * C * ratio <= C * m = e * C * P
  <2>2. AA * ratio <= (D * C) * ratio
    BY <1>1, <1>2, <1>4, <1>8, ProductMonotone
  <2>3. (D * C) * ratio = (D * ratio) * C /\ m * C = (e * C) * P
    BY <1>1, <1>2, <1>4, <1>8
  <2>4. (D * ratio) * C <= m * C
    <3>1. D * ratio \in Nat
      BY <1>1, <1>4
    <3>. QED
      BY <1>2, <1>3, <1>4, <3>1, ProductMonotone
  <2>5. /\ AA * ratio \in Nat /\ (D * C) * ratio \in Nat /\ (D * ratio) * C \in Nat
        /\ m * C \in Nat /\ (e * C) * P \in Nat /\ AA * P \in Nat
    BY <1>1, <1>2, <1>3, <1>4, <1>8
  <2>6. AA * ratio <= (e * C) * P
    BY <2>2, <2>3, <2>4, <2>5
  <2>7. AA * f = AA * P - AA * ratio
    BY <1>1, <1>4, <2>1
  <2>8. (AA - e * C) * P = AA * P - (e * C) * P
    BY <1>1, <1>8
  <2>9. (AA - e * C) * P <= AA * f
    BY <2>5, <2>6, <2>7, <2>8
  <2>10. AA - e * C <= (AA * f) \div P
    <3>. DEFINE x == AA - e * C
                n == AA * f
    <3>1. x \in Int /\ n \in Nat /\ x * P <= n
      BY <1>1, <1>6, <1>8, <2>9
    <3>. HIDE DEF x, n
    <3>2. x <= n \div P
      BY <1>1, <3>1, QuotientAtLeast
    <3>. QED
      BY <3>2 DEF x, n
  <2>. QED
    BY <1>2, <1>5, <2>10 DEF AA, e, C
<1>. QED
  BY <1>1, <1>4, <1>9, <1>10

\* The blocks of a window are finitely many, and move what they move.
LEMMA VolumeIsNat ==
    ASSUME NEW w, w \in [1 .. MaxElapsed -> Nat], NEW k \in 0 .. MaxElapsed
    PROVE  /\ IsFiniteSet(1 .. k)
           /\ SumFunctionOnSet(w, 1 .. k) \in Nat
<1>1. IsFiniteSet(1 .. k)
  BY FS_Interval
<1>2. \A j \in 1 .. k : w[j] \in Nat
  BY FluxConstants
<1>. QED
  BY <1>1, <1>2, SumOfNaturals

LEMMA EmptyWindowHasNone ==
    ASSUME NEW k \in 1 .. MaxElapsed
    PROVE  SumFunctionOnSet(EmptyWindow, 1 .. k) = 0
<1>1. IsFiniteSet(1 .. k)
  BY FS_Interval
<1>2. \A j \in 1 .. k : EmptyWindow[j] = 0
  BY FluxConstants DEF EmptyWindow
<1>3. SumFunctionOnSet(EmptyWindow, 1 .. k) = 0 * Cardinality(1 .. k)
  BY <1>1, <1>2, SumOfConstant
<1>4. Cardinality(1 .. k) \in Nat
  BY <1>1, FS_CardinalityType
<1>. QED
  BY <1>3, <1>4

\* A new block moves the others one further back.
LEMMA ShiftedVolume ==
    ASSUME NEW w, \A k \in 1 .. MaxElapsed : w[k] \in Int,
           NEW v, \A k \in 1 .. MaxElapsed : v[k] \in Int,
           \A k \in 1 .. MaxElapsed : v[k] = IF k = 1 THEN 0 ELSE w[k - 1],
           NEW k \in 1 .. MaxElapsed
    PROVE  SumFunctionOnSet(v, 1 .. k) = SumFunctionOnSet(w, 1 .. (k - 1))
<1>. DEFINE Shifted(n) == SumFunctionOnSet(v, 1 .. (n + 1)) = SumFunctionOnSet(w, 1 .. n)
            S == {n \in Nat : n + 1 <= MaxElapsed => Shifted(n)}
<1>1. MaxElapsed \in Nat
  BY FluxConstants
<1>2. 0 \in S
  <2>. SUFFICES ASSUME 1 <= MaxElapsed PROVE Shifted(0)
    OBVIOUS
  <2>1. v[1] = 0 /\ 1 .. (0 + 1) = {1} /\ 1 .. 0 = {}
    BY <1>1
  <2>2. SumFunctionOnSet(v, {1}) = 0
    BY <2>1, SumOfOne
  <2>3. SumFunctionOnSet(w, {}) = 0
    BY SumOfNone
  <2>. QED
    BY <2>1, <2>2, <2>3, Zenon
<1>3. ASSUME NEW n \in Nat, n \in S PROVE n + 1 \in S
  <2>. SUFFICES ASSUME n + 2 <= MaxElapsed PROVE Shifted(n + 1)
    OBVIOUS
  <2>1. Shifted(n)
    BY <1>1, <1>3
  <2>2. /\ n + 2 \in 1 .. (n + 2) /\ n + 1 \in 1 .. (n + 1)
        /\ (1 .. (n + 2)) \ {n + 2} = 1 .. (n + 1)
        /\ (1 .. (n + 1)) \ {n + 1} = 1 .. n
        /\ n + 1 + 1 = n + 2
    OBVIOUS
  <2>3. /\ IsFiniteSet(1 .. (n + 2)) /\ IsFiniteSet(1 .. (n + 1))
        /\ \A j \in 1 .. (n + 2) : v[j] \in Int
        /\ \A j \in 1 .. (n + 1) : w[j] \in Int
        /\ v[n + 2] = w[n + 1]
    <3>1. IsFiniteSet(1 .. (n + 2)) /\ IsFiniteSet(1 .. (n + 1))
      BY FS_Interval
    <3>2. /\ \A j \in 1 .. (n + 2) : v[j] \in Int
          /\ \A j \in 1 .. (n + 1) : w[j] \in Int
      BY <1>1
    <3>3. n + 2 \in 1 .. MaxElapsed /\ n + 2 # 1 /\ n + 2 - 1 = n + 1
      BY <1>1
    <3>. QED
      BY <3>1, <3>2, <3>3
  <2>. DEFINE I == 1 .. (n + 1)
              J == 1 .. (n + 2)
  <2>4. SumFunctionOnSet(v, J) = v[n + 2] + SumFunctionOnSet(v, J \ {n + 2})
    <3>1. n + 2 \in J /\ IsFiniteSet(J) /\ \A j \in J : v[j] \in Int
      BY <2>2, <2>3
    <3>. HIDE DEF J
    <3>. QED
      BY <3>1, SumWithout
  <2>5. SumFunctionOnSet(w, I) = w[n + 1] + SumFunctionOnSet(w, I \ {n + 1})
    <3>1. n + 1 \in I /\ IsFiniteSet(I) /\ \A j \in I : w[j] \in Int
      BY <2>2, <2>3
    <3>. HIDE DEF I
    <3>. QED
      BY <3>1, SumWithout
  <2>. QED
    BY <2>1, <2>2, <2>3, <2>4, <2>5
<1>4. k - 1 \in S
  <2>. HIDE DEF S
  <2>1. Nat \subseteq S
    BY <1>2, <1>3, NaturalsFromZero
  <2>. QED
    BY <1>1, <2>1
<1>. QED
  BY <1>1, <1>4

LEMMA OperateWindowed ==
    ASSUME FluxInv, FluxInv', WindowInv, OperateInWindow
    PROVE  WindowInv'
<1>1. PICK amount \in Amounts : Mint(amount) \/ Redeem(amount)
  BY DEF OperateInWindow, Operate
<1>2. /\ amount \in Nat /\ decayBlockSpan > 0 /\ elapsed' = 0
      /\ absoluteAccumulator' = AbsoluteAfter(0) + amount
      /\ absoluteAccumulator' <= maxAbsoluteOperation
      /\ UNCHANGED <<maxAbsoluteOperation, decayBlockSpan>>
      /\ (minted' - minted) + (redeemed' - redeemed) = amount
  <2>1. amount \in Nat /\ minted \in Nat /\ redeemed \in Nat
    BY FluxConstants DEF FluxInv, TypeOK
  <2>. QED
    BY <1>1, <2>1 DEF Mint, Redeem, Record, MintAllowed, RedeemAllowed, Allowed, limits
<1>3. /\ window \in [1 .. MaxElapsed -> Nat] /\ MaxElapsed \in Nat /\ 1 <= MaxElapsed
      /\ window' = [window EXCEPT ![1] = window[1] + amount]
  <2>1. window \in [1 .. MaxElapsed -> Nat] /\ MaxElapsed \in Nat /\ 1 <= MaxElapsed
    BY <1>2, FluxConstants DEF WindowInv
  <2>2. window[1] + (minted' - minted) + (redeemed' - redeemed) = window[1] + amount
    <3>1. /\ window[1] \in Nat /\ minted \in Nat /\ redeemed \in Nat
          /\ minted' \in Nat /\ redeemed' \in Nat
      BY <2>1 DEF FluxInv, TypeOK
    <3>2. (minted' - minted) + (redeemed' - redeemed) = amount
      BY <1>2
    <3>. QED
      BY <3>1, <3>2
  <2>. QED
    BY <2>1, <2>2 DEF OperateInWindow
<1>4. window' \in [1 .. MaxElapsed -> Nat]
  BY <1>2, <1>3
<1>5. decayBlockSpan' \in Spans \union {0}
  BY <1>2 DEF WindowInv
<1>6. AbsoluteAfter(0) \in Nat /\ absoluteAccumulator \in Nat /\ elapsed \in Nat
  BY <1>2, AccumulatorsNow DEF FluxInv, TypeOK
<1>7. ASSUME NEW k \in 1 .. MaxElapsed PROVE WithinGivenBack(k)'
  <2>. DEFINE C == GivenBack
  <2>1. C \in Nat /\ C' = C
    <3>1. maxAbsoluteOperation \in Nat /\ decayBlockSpan \in Nat \ {0}
      BY <1>2 DEF FluxInv, TypeOK
    <3>. QED
      BY <1>2, <3>1, GivenBackCovers DEF GivenBack
  <2>2. /\ SumFunctionOnSet(window', 1 .. k) = Volume(k) + amount
        /\ Volume(k) \in Nat
    <3>1. IsFiniteSet(1 .. k) /\ Volume(k) \in Nat
      BY <1>3, VolumeIsNat DEF Volume
    <3>2. \A j \in 1 .. k : window[j] \in Int /\ window'[j] \in Int
      BY <1>3, <1>4
    <3>3. 1 \in 1 .. k /\ window'[1] = window[1] + amount /\ window[1] \in Int
          /\ \A j \in (1 .. k) \ {1} : window[j] = window'[j]
      BY <1>3
    <3>4. SumFunctionOnSet(window', 1 .. k)
            = SumFunctionOnSet(window, 1 .. k) + window'[1] - window[1]
      BY <3>1, <3>2, <3>3, SumOfChanged
    <3>. QED
      BY <1>2, <3>1, <3>3, <3>4 DEF Volume
  <2>3. Volume(k)' = Volume(k) + amount
    BY <2>2 DEF Volume
  <2>4. (k - 1) * C \in Nat /\ k - 1 \in Nat
    BY <1>3, <2>1
  <2>5. Volume(k) + amount <= AbsoluteAfter(0) + amount + (k - 1) * C
    <3>1. CASE Volume(k) = 0
      BY <1>2, <1>6, <2>4, <3>1
    <3>2. CASE Volume(k) # 0
      <4>1. /\ k > elapsed /\ absoluteAccumulator <= maxAbsoluteOperation
            /\ Volume(k) <= absoluteAccumulator + (k - 1 - elapsed) * C
        BY <1>2, <3>2 DEF WindowInv, WithinGivenBack
      <4>2. absoluteAccumulator - elapsed * C <= AbsoluteAfter(0)
        BY <1>2, <4>1, DecayLoses
      <4>3. /\ (k - 1 - elapsed) * C = (k - 1) * C - elapsed * C
            /\ elapsed * C \in Nat
        <5>. HIDE DEF C
        <5>. QED
          BY <1>6, <2>1
      <4>. HIDE DEF C
      <4>. QED
        BY <1>2, <1>6, <2>2, <2>4, <4>1, <4>2, <4>3
    <3>. QED
      BY <3>1, <3>2
  <2>6. (k - 1 - 0) * C = (k - 1) * C
    BY <2>4
  <2>7. absoluteAccumulator' <= maxAbsoluteOperation'
    BY <1>2
  <2>8. Volume(k)' <= absoluteAccumulator' + (k - 1 - elapsed') * C'
    <3>. HIDE DEF C
    <3>. QED
      BY <1>2, <2>1, <2>3, <2>5, <2>6
  <2>9. k > elapsed'
    BY <1>2, <1>3
  <2>. QED
    BY <2>7, <2>8, <2>9 DEF WithinGivenBack
<1>. QED
  BY <1>4, <1>5, <1>7 DEF WindowInv

LEMMA ConfigureWindowed ==
    ASSUME WindowInv, ConfigureAgain
    PROVE  WindowInv'
<1>1. window' = EmptyWindow
  BY DEF ConfigureAgain
<1>2. decayBlockSpan' \in Spans \union {0}
  BY DEF WindowInv, ConfigureAgain, Configure, SetMaxAbsoluteOperation,
         SetMaxOperationalDifference, SetDecayBlockSpan
<1>3. EmptyWindow \in [1 .. MaxElapsed -> Nat]
  BY DEF EmptyWindow
<1>4. ASSUME NEW k \in 1 .. MaxElapsed PROVE WithinGivenBack(k)'
  BY <1>1, EmptyWindowHasNone DEF WithinGivenBack, Volume
<1>. QED
  BY <1>1, <1>2, <1>3, <1>4 DEF WindowInv

LEMMA NewBlockWindowed ==
    ASSUME FluxInv, WindowInv, NextBlock
    PROVE  WindowInv'
<1>1. /\ window \in [1 .. MaxElapsed -> Nat] /\ MaxElapsed \in Nat
      /\ window' = [k \in 1 .. MaxElapsed |-> IF k = 1 THEN 0 ELSE window[k - 1]]
      /\ elapsed' = IF elapsed < MaxElapsed THEN elapsed + 1 ELSE MaxElapsed
      /\ UNCHANGED <<absoluteAccumulator, maxAbsoluteOperation, decayBlockSpan>>
      /\ elapsed \in 0 .. MaxElapsed
  BY FluxConstants DEF WindowInv, NextBlock, NewBlock, accumulators, limits, FluxInv, TypeOK
<1>2. window' \in [1 .. MaxElapsed -> Nat]
  BY <1>1
<1>3. decayBlockSpan' \in Spans \union {0}
  BY <1>1 DEF WindowInv
<1>4. ASSUME NEW k \in 1 .. MaxElapsed, decayBlockSpan' > 0
      PROVE  WithinGivenBack(k)'
  <2>1. Volume(k)' = Volume(k - 1)
    <3>1. \A j \in 1 .. MaxElapsed :
             /\ window'[j] = IF j = 1 THEN 0 ELSE window[j - 1]
             /\ window'[j] \in Int /\ window[j] \in Int
      BY <1>1, <1>2
    <3>2. SumFunctionOnSet(window', 1 .. k) = SumFunctionOnSet(window, 1 .. (k - 1))
      BY <3>1, ShiftedVolume
    <3>. QED
      BY <3>2 DEF Volume
  <2>2. CASE k = 1
    <3>1. Volume(0) = 0
      <4>1. 1 .. 0 = {}
        OBVIOUS
      <4>. QED
        BY <4>1, SumOfNone DEF Volume
    <3>. QED
      BY <2>1, <2>2, <3>1 DEF WithinGivenBack
  <2>3. CASE k # 1 /\ Volume(k - 1) = 0
    BY <2>1, <2>3 DEF WithinGivenBack
  <2>4. CASE k # 1 /\ Volume(k - 1) # 0
    <3>1. k - 1 \in 1 .. MaxElapsed
      BY <1>1, <2>4
    <3>2. /\ k - 1 > elapsed /\ absoluteAccumulator <= maxAbsoluteOperation
          /\ Volume(k - 1) <= absoluteAccumulator + (k - 1 - 1 - elapsed) * GivenBack
      BY <1>1, <1>4, <2>4, <3>1 DEF WindowInv, WithinGivenBack
    <3>3. elapsed' = elapsed + 1 /\ k > elapsed' /\ k - 1 - elapsed' = k - 1 - 1 - elapsed
      BY <1>1, <3>1, <3>2
    <3>4. GivenBack' = GivenBack
      BY <1>1 DEF GivenBack
    <3>. QED
      BY <1>1, <2>1, <3>2, <3>3, <3>4 DEF WithinGivenBack
  <2>. QED
    BY <2>2, <2>3, <2>4
<1>. QED
  BY <1>2, <1>3, <1>4 DEF WindowInv

\* The windows keep what decay gives back apart from what is still accumulated.
LEMMA WindowInvariant == MCSpec => [](FluxInv /\ WindowInv)
<1>1. MCInit => WindowInv
  <2>. SUFFICES ASSUME MCInit PROVE WindowInv
    OBVIOUS
  <2>1. window = EmptyWindow /\ decayBlockSpan = 0
    BY DEF MCInit, Init
  <2>2. EmptyWindow \in [1 .. MaxElapsed -> Nat]
    BY DEF EmptyWindow
  <2>. QED
    BY <2>1, <2>2 DEF WindowInv
<1>2. FluxInv /\ FluxInv' /\ WindowInv /\ [MCNext]_<<vars, window>> => WindowInv'
  <2>. SUFFICES ASSUME FluxInv, FluxInv', WindowInv, [MCNext]_<<vars, window>>
                PROVE  WindowInv'
    OBVIOUS
  <2>1. CASE UNCHANGED <<vars, window>>
    BY <2>1 DEF WindowInv, WithinGivenBack, Volume, GivenBack, vars, accumulators, limits
  <2>. QED
    BY <2>1, OperateWindowed, ConfigureWindowed, NewBlockWindowed DEF MCNext
<1>. QED
  BY <1>1, <1>2, HistoryOnly, FluxInvariant, PTL DEF MCSpec

\* In decayBlockSpan consecutive blocks under one configuration no more moves than the
\* absolute limit and what decay gives back in the blocks between, for every limit and
\* span, however the operations are spread.
THEOREM WindowsBounded == MCSpec => []WindowVolumeBounded
<1>1. ASSUME FluxInv, WindowInv PROVE WindowVolumeBounded
  <2>. SUFFICES ASSUME decayBlockSpan > 0
                PROVE  Volume(decayBlockSpan)
                         <= maxAbsoluteOperation + (decayBlockSpan - 1) * GivenBack
    BY DEF WindowVolumeBounded, WindowVolume, Volume, GivenBack
  <2>. DEFINE D == decayBlockSpan
              C == GivenBack
  <2>1. /\ D \in Nat \ {0} /\ maxAbsoluteOperation \in Nat /\ elapsed \in Nat
        /\ absoluteAccumulator \in Nat
    BY <1>1 DEF FluxInv, TypeOK
  <2>2. D \in 1 .. MaxElapsed
    BY <1>1, <2>1, FluxConstants DEF WindowInv
  <2>3. C \in Nat
    BY <2>1, GivenBackCovers DEF GivenBack
  <2>4. WithinGivenBack(D)
    BY <1>1, <2>2 DEF WindowInv
  <2>5. (D - 1 - elapsed) * C = (D - 1) * C - elapsed * C
        /\ elapsed * C \in Nat /\ (D - 1) * C \in Nat
    <3>. HIDE DEF C, D
    <3>1. D - 1 \in Nat
      BY <2>1
    <3>. QED
      BY <2>1, <2>3, <3>1
  <2>6. Volume(D) \in Nat
    BY <1>1, <2>2, VolumeIsNat DEF WindowInv, Volume
  <2>. HIDE DEF C, D
  <2>7. Volume(D) = 0 \/ Volume(D) <= absoluteAccumulator + (D - 1) * C - elapsed * C
    BY <2>4, <2>5 DEF WithinGivenBack, C
  <2>8. Volume(D) = 0 \/ absoluteAccumulator <= maxAbsoluteOperation
    BY <2>4 DEF WithinGivenBack
  <2>9. Volume(D) <= maxAbsoluteOperation + (D - 1) * C
    BY <2>1, <2>5, <2>6, <2>7, <2>8
  <2>. QED
    BY <2>9 DEF C, D
<1>. QED
  BY WindowInvariant, <1>1, PTL

=============================================================================
