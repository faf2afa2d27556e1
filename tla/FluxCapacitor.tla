---------------------------- MODULE FluxCapacitor ----------------------------
(***************************************************************************)
(* The flux capacitor of contracts/MoCExchange.sol: a limit on how much    *)
(* reserve token the minting and redeeming of stable tokens may move, kept *)
(* in two accumulators that decay linearly with the blocks that pass.      *)
(*                                                                         *)
(* block.number is kept as its distance to lastOperationBlockNumber,       *)
(* saturated at MaxElapsed, which is no less than any decayBlockSpan: from *)
(* there on the decay is complete, however many blocks pass.               *)
(*                                                                         *)
(* The unchecked arithmetic of the contract is modelled without its width. *)
(* Amounts are bounded by what the system holds or may still mint, and     *)
(* accumulators by sums of accepted amounts, so no product comes near 2^255. *)
(***************************************************************************)
EXTENDS Integers

CONSTANTS
    Amounts,       \* reserve tokens that operations move
    Limits,        \* values governance or the stopper may give to both limits
    Spans,         \* values they may give to decayBlockSpan
    MaxElapsed,
    Precision      \* PRECISION, also called ONE

ASSUME FluxConstants ==
    /\ Amounts \subseteq Nat /\ Limits \subseteq Nat /\ Spans \subseteq Nat
    /\ MaxElapsed \in Nat
    /\ \A span \in Spans : span <= MaxElapsed
    /\ Precision \in Nat \ {0}

VARIABLES
    absoluteAccumulator,
    differentialAccumulator,
    elapsed,                   \* block.number - lastOperationBlockNumber
    maxAbsoluteOperation,
    maxOperationalDifference,
    decayBlockSpan,
    initialized,               \* lastOperationBlockNumber # 0
    minted, redeemed           \* history: moved in the current block

accumulators == <<absoluteAccumulator, differentialAccumulator>>
limits       == <<maxAbsoluteOperation, maxOperationalDifference>>
history      == <<minted, redeemed>>
vars == <<accumulators, elapsed, limits, decayBlockSpan, initialized, history>>

Abs(n) == IF n >= 0 THEN n ELSE -n

\* Solidity rounds the quotient of signed integers towards zero.
DivideTowardsZero(n, d) == IF n >= 0 THEN n \div d ELSE -((-n) \div d)

-----------------------------------------------------------------------------
(* Decay, as seen blocks blocks from now. *)

\* Mutant: the decay is not stopped once it is complete.
DecayFactorUnclamped(blocks) ==
    Precision - ((elapsed + blocks) * Precision) \div decayBlockSpan

DecayFactor(blocks) ==
    LET ratio == ((elapsed + blocks) * Precision) \div decayBlockSpan
    IN  IF ratio >= Precision THEN 0 ELSE Precision - ratio

AbsoluteAfter(blocks) == (absoluteAccumulator * DecayFactor(blocks)) \div Precision

\* Mutant: the signed division rounds down, as an arithmetic shift would.
DifferentialRoundedDown(blocks) ==
    (differentialAccumulator * DecayFactor(blocks)) \div Precision

DifferentialAfter(blocks) ==
    DivideTowardsZero(differentialAccumulator * DecayFactor(blocks), Precision)

-----------------------------------------------------------------------------
(* Operations. *)

\* Mutant: the difference is limited as if all the volume were on one side.
AllowedBySignedDifference(absolute, differential) ==
    /\ absolute <= maxAbsoluteOperation
    /\ Abs(differential) <= maxOperationalDifference

\* What _updateAccumulatorsOnMint and OnRedeem require of the new accumulators.
Allowed(absolute, differential) ==
    /\ absolute <= maxAbsoluteOperation
    /\ absolute - Abs(differential) <= maxOperationalDifference

MintAllowed(amount) ==
    Allowed(AbsoluteAfter(0) + amount, DifferentialAfter(0) + amount)

RedeemAllowed(amount) ==
    Allowed(AbsoluteAfter(0) + amount, DifferentialAfter(0) - amount)

\* Mutant: the accumulators are stored, their block is not.
RecordWithoutBlock(absolute, differential) ==
    /\ absoluteAccumulator' = absolute
    /\ differentialAccumulator' = differential
    /\ UNCHANGED elapsed

Record(absolute, differential) ==
    /\ absoluteAccumulator' = absolute
    /\ differentialAccumulator' = differential
    /\ elapsed' = 0

\* _updateAccumulatorsOnMint: with no decayBlockSpan the division by it reverts.
Mint(amount) ==
    /\ decayBlockSpan > 0
    /\ MintAllowed(amount)
    /\ Record(AbsoluteAfter(0) + amount, DifferentialAfter(0) + amount)
    /\ initialized' = TRUE
    /\ minted' = minted + amount
    /\ UNCHANGED <<limits, decayBlockSpan, redeemed>>

\* _updateAccumulatorsOnRedeem; a redemption of the settlement queue is recorded
\* even if the reserve tokens cannot then be sent.
Redeem(amount) ==
    /\ decayBlockSpan > 0
    /\ RedeemAllowed(amount)
    /\ Record(AbsoluteAfter(0) + amount, DifferentialAfter(0) - amount)
    /\ initialized' = TRUE
    /\ redeemed' = redeemed + amount
    /\ UNCHANGED <<limits, decayBlockSpan, minted>>

SetMaxAbsoluteOperation(limit) ==
    /\ maxAbsoluteOperation' = limit
    /\ UNCHANGED <<accumulators, elapsed, maxOperationalDifference, decayBlockSpan,
                   initialized, history>>

SetMaxOperationalDifference(limit) ==
    /\ maxOperationalDifference' = limit
    /\ UNCHANGED <<accumulators, elapsed, maxAbsoluteOperation, decayBlockSpan,
                   initialized, history>>

\* The first call also sets lastOperationBlockNumber.
SetDecayBlockSpan(span) ==
    /\ decayBlockSpan' = span
    /\ elapsed' = IF initialized THEN elapsed ELSE 0
    /\ initialized' = TRUE
    /\ UNCHANGED <<accumulators, limits, history>>

NewBlock ==
    /\ elapsed' = IF elapsed < MaxElapsed THEN elapsed + 1 ELSE MaxElapsed
    /\ minted' = 0 /\ redeemed' = 0
    /\ UNCHANGED <<accumulators, limits, decayBlockSpan, initialized>>

-----------------------------------------------------------------------------
(* The amounts the contract publishes as allowed.  On mint a is AA - DA and *)
(* b is AA + DA; on redeem the other way round.                             *)

\* Mutant: the half of the remaining difference is forgotten.
MaxReserveWithoutHalf(absolute, a, b) ==
    LET room == maxAbsoluteOperation - absolute
        difference == maxOperationalDifference - b
    IN  IF absolute >= maxAbsoluteOperation THEN 0
        ELSE IF a <= maxOperationalDifference THEN room
        ELSE IF b >= maxOperationalDifference THEN 0
        ELSE IF room <= difference THEN room ELSE difference

CalcMaxReserveAllowedToOperate(absolute, a, b) ==
    LET room == maxAbsoluteOperation - absolute
        difference == (maxOperationalDifference - b) \div 2
    IN  IF absolute >= maxAbsoluteOperation THEN 0
        ELSE IF a <= maxOperationalDifference THEN room
        ELSE IF b >= maxOperationalDifference THEN 0
        ELSE IF room <= difference THEN room ELSE difference

\* lastMaxReserveAllowedToMint asks with blocks = 0, maxReserveAllowedToMint with 1.
MaxReserveAllowedToMint(blocks) ==
    CalcMaxReserveAllowedToOperate(AbsoluteAfter(blocks),
        AbsoluteAfter(blocks) - DifferentialAfter(blocks),
        AbsoluteAfter(blocks) + DifferentialAfter(blocks))

MaxReserveAllowedToRedeem(blocks) ==
    CalcMaxReserveAllowedToOperate(AbsoluteAfter(blocks),
        AbsoluteAfter(blocks) + DifferentialAfter(blocks),
        AbsoluteAfter(blocks) - DifferentialAfter(blocks))

-----------------------------------------------------------------------------
\* A proxy just upgraded: nothing set, and the last operation at block 0.
Init ==
    /\ absoluteAccumulator = 0 /\ differentialAccumulator = 0
    /\ elapsed = MaxElapsed
    /\ maxAbsoluteOperation = 0 /\ maxOperationalDifference = 0
    /\ decayBlockSpan = 0
    /\ initialized = FALSE
    /\ minted = 0 /\ redeemed = 0

Operate == \E amount \in Amounts : Mint(amount) \/ Redeem(amount)

Configure ==
    \/ \E limit \in Limits : \/ SetMaxAbsoluteOperation(limit)
                             \/ SetMaxOperationalDifference(limit)
    \/ \E span \in Spans : SetDecayBlockSpan(span)

Next == Operate \/ Configure \/ NewBlock

Spec == Init /\ [][Next]_vars

-----------------------------------------------------------------------------
\* Every variable keeps its type.
TypeOK ==
    /\ absoluteAccumulator \in Nat
    /\ differentialAccumulator \in Int
    /\ elapsed \in 0 .. MaxElapsed
    /\ maxAbsoluteOperation \in Nat /\ maxOperationalDifference \in Nat
    /\ decayBlockSpan \in Nat
    /\ initialized \in BOOLEAN
    /\ minted \in Nat /\ redeemed \in Nat

\* However the accumulators are decayed and rounded, |DA| never exceeds AA: the
\* unchecked subtraction of the operational difference cannot underflow.
DifferentialWithinAbsolute ==
    /\ Abs(differentialAccumulator) <= absoluteAccumulator
    /\ decayBlockSpan > 0 =>
          \A blocks \in {0, 1} : Abs(DifferentialAfter(blocks)) <= AbsoluteAfter(blocks)

\* The published amounts are exact: an operation is accepted if and only if it
\* moves no more than the contract says is allowed.
PublishedLimitsAreExact ==
    decayBlockSpan > 0 =>
        \A amount \in Amounts \ {0} :
            /\ MintAllowed(amount) <=> amount <= MaxReserveAllowedToMint(0)
            /\ RedeemAllowed(amount) <=> amount <= MaxReserveAllowedToRedeem(0)

\* What the limits are for: an operation is only accepted if all the volume of its
\* block stays within the absolute limit and the part of it that goes back and
\* forth stays within the differential one, whatever the accumulators held when
\* the block began and however they were rounded.
BlockWithinLimits ==
    [][ minted' + redeemed' > minted + redeemed =>
          /\ minted' + redeemed' <= maxAbsoluteOperation
          /\ 2 * minted' <= maxOperationalDifference
               \/ 2 * redeemed' <= maxOperationalDifference ]_vars

=============================================================================
