--------------------------- MODULE MCFluxCapacitor ---------------------------
(***************************************************************************)
(* An instance of FluxCapacitor for TLC, with a history of the last blocks *)
(* to say what the limits mean over decayBlockSpan consecutive blocks.     *)
(***************************************************************************)
EXTENDS FluxCapacitor, Functions

\* History: what the current block (1) and those before it moved since the
\* contract was last configured.
VARIABLE window

MCAmounts == 0 .. 7

EmptyWindow == [k \in 1 .. MaxElapsed |-> 0]

OperateInWindow ==
    /\ Operate
    /\ window' = [window EXCEPT ![1] = @ + (minted' - minted) + (redeemed' - redeemed)]

ConfigureAgain == Configure /\ window' = EmptyWindow

NextBlock ==
    /\ NewBlock
    /\ window' = [k \in 1 .. MaxElapsed |-> IF k = 1 THEN 0 ELSE window[k - 1]]

MCInit == Init /\ window = EmptyWindow

MCNext == OperateInWindow \/ ConfigureAgain \/ NextBlock

MCSpec == MCInit /\ [][MCNext]_<<vars, window>>

WindowVolume == SumFunctionOnSet(window, 1 .. decayBlockSpan)

\* Decay gives back at most a decayBlockSpan-th of the limit, rounded up, per
\* block.  So in decayBlockSpan consecutive blocks under one configuration,
\* however the operations are spread over them and whatever the accumulators
\* held when it was set, less than twice the absolute limit (and roundings) moves.
WindowVolumeBounded ==
    decayBlockSpan > 0 =>
        WindowVolume <= maxAbsoluteOperation +
            (decayBlockSpan - 1) *
                ((maxAbsoluteOperation + decayBlockSpan - 1) \div decayBlockSpan)

=============================================================================
