--------------------------- MODULE RiskProxLedger ---------------------------
(***************************************************************************)
(* What the tracker of RiskProx positions promises: a ledger of holdings   *)
(* and their total, with no array, no index and no stale entry.            *)
(***************************************************************************)
EXTENDS Integers

CONSTANT Users

VARIABLES
    holding,    \* user -> the RiskProx he has
    total

Init ==
    /\ holding = [u \in Users |-> 0]
    /\ total = 0

\* One user's holding changes, and the total with it.
Operate(user) ==
    /\ holding' = [holding EXCEPT ![user] = holding'[user]]
    /\ holding'[user] >= 0
    /\ total' - total = holding'[user] - holding[user]

\* The bucket is liquidated.
Clear ==
    /\ holding' = [u \in Users |-> 0]
    /\ total' = 0

Next == Clear \/ \E user \in Users : Operate(user)

Spec == Init /\ [][Next]_<<holding, total>>

=============================================================================
