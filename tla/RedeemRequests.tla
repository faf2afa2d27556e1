--------------------------- MODULE RedeemRequests ---------------------------
(***************************************************************************)
(* What the settlement promises the holders of stable tokens, with no      *)
(* queue, no index and no step: a user has at most one redeem request; he  *)
(* may change it until the next settlement begins; that settlement serves  *)
(* every request once, for no more than it asks and no more than the user  *)
(* holds, unless the system is in protected mode, in which case all the    *)
(* requests wait, untouched, for the following one.                        *)
(***************************************************************************)
EXTENDS Integers

CONSTANTS Users, MaxBalance, MaxRequest

VARIABLES
    redeemers,   \* users with an open request
    requested,   \* what it asks for
    balance,     \* stable tokens held
    phase,       \* Ready: open to users.  Closed: the settlement has begun,
                 \* nobody served yet.  Serving: someone may have been.
                 \* Finished: done, but kept from opening again.
    protected

vars == <<redeemers, requested, balance, phase, protected>>

Init ==
    /\ redeemers = {}
    /\ requested = [u \in Users |-> 0]
    /\ balance \in [Users -> 0 .. MaxBalance]
    /\ phase = "Ready"
    /\ protected \in BOOLEAN

\* Open a request, or change the amount of the open one.
Ask(u, amount) ==
    /\ phase = "Ready"
    /\ redeemers' = redeemers \cup {u}
    /\ requested' = [requested EXCEPT ![u] = amount]
    /\ UNCHANGED <<balance, phase, protected>>

\* The requests of the users in S end; each is paid in full or, when he cannot
\* be sent the reserve tokens, not at all.
Serve(S, paid) ==
    /\ \A u \in S : paid[u] \in {0, IF balance[u] <= requested[u]
                                    THEN balance[u] ELSE requested[u]}
    /\ \A u \in Users \ S : paid[u] = 0
    /\ redeemers' = redeemers \ S
    /\ requested' = [u \in Users |-> IF u \in S THEN 0 ELSE requested[u]]
    /\ balance' = [u \in Users |-> balance[u] - paid[u]]

\* Serve some requests and leave the settlement running.
ServeSome(S, paid) ==
    /\ phase \in {"Ready", "Closed", "Serving"}
    /\ Serve(S, paid)
    /\ phase' = IF phase = "Serving" \/ S # {} THEN "Serving" ELSE "Closed"
    /\ UNCHANGED protected

\* Serve all the requests that are left and end the settlement.
ServeAll(paid) ==
    /\ phase \in {"Ready", "Closed", "Serving"}
    /\ Serve(redeemers, paid)
    /\ phase' \in {"Ready", "Finished"}
    /\ UNCHANGED protected

\* End a settlement that served nobody, because of protected mode.
KeepAll ==
    /\ phase \in {"Ready", "Closed"}
    /\ protected
    /\ phase' \in {"Ready", "Finished"}
    /\ UNCHANGED <<redeemers, requested, balance, protected>>

Reopen ==
    /\ phase = "Finished"
    /\ phase' = "Ready"
    /\ UNCHANGED <<redeemers, requested, balance, protected>>

BalanceChange(u, b) ==
    /\ balance' = [balance EXCEPT ![u] = b]
    /\ UNCHANGED <<redeemers, requested, phase, protected>>

CoverageMove ==
    /\ phase \in {"Ready", "Finished"}
    /\ protected' = ~protected
    /\ UNCHANGED <<redeemers, requested, balance, phase>>

Next ==
    \/ \E u \in Users, amount \in 0 .. MaxRequest : Ask(u, amount)
    \/ \E paid \in [Users -> 0 .. MaxBalance] :
          ServeAll(paid) \/ \E S \in SUBSET redeemers : ServeSome(S, paid)
    \/ KeepAll
    \/ Reopen
    \/ \E u \in Users, b \in 0 .. MaxBalance : BalanceChange(u, b)
    \/ CoverageMove

Spec == Init /\ [][Next]_vars

=============================================================================
