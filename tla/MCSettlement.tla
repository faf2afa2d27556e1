---------------------------- MODULE MCSettlement ----------------------------
(***************************************************************************)
(* Instances of MoCSettlement for TLC.  Two users are enough for a queue   *)
(* with a first and a last entry and for a stale slot to be taken over by  *)
(* someone else.                                                           *)
(***************************************************************************)
EXTENDS MoCSettlement, TLC

\* Steps: none, one at a time, or more than the two tasks need.
MCSteps == {0, 1, 5}

\* Everything that may happen around a settlement, but for what only stops it.
AnyDisturbance == Disturbance \ {"pause", "liquidate", "limit", "trade"}

\* Governance acts, but never on a running settlement.
BetweenSettlements == {"restart", "fix", "span", "pause", "liquidate"}

\* What may happen without keeping the settlement from ending for good.
WithoutStall == {"flip", "abort", "limit", "trade"}

\* The commissions never influence what the settlement does next, so a run whose
\* properties do not read them may forget them.  Nor does the flux capacitor where the
\* commission is all of a redemption and nobody else operates: it stays empty.
WithoutCommissions ==
    <<taskVars, queueVars, settlementInfo.isProtectedMode, blockSpan, lag, positions,
      balance, protected, paused, liquidated>>

MCSymmetry == Permutations(Users)

-----------------------------------------------------------------------------
(* What comments, docs and tests of the repository say of the settlement, and *)
(* the code does not do in every case.                                        *)

\* docs/integration/redeeming-rdocs.md: a request "will be processed on the next
\* settlement".  So a user recorded as an active redeemer is in the queue that
\* settlement will process.
ActiveRequestIsQueued ==
    \A u \in Users :
        redeemMapping[u].activeRedeemer =>
            /\ redeemMapping[u].index < redeemQueueLength
            /\ redeemQueue[redeemMapping[u].index].who = u

\* contracts/MoCSettlement.sol, runSettlement: returns "The commissions collected
\* in the executed steps".  So MoC never sends more than was collected.
NoCommissionSentTwice == \A u \in Users : owed[u] >= 0

=============================================================================
