----------------------- MODULE RiskProxManager_proofs -----------------------
(***************************************************************************)
(* Proofs about RiskProxManager for any users, amounts and prices.         *)
(***************************************************************************)
EXTENDS RiskProxManager, Sums_proofs

(* ---------------------------------------------------------------------- *)
(* The tracker.  Its invariant is what the operations of the bucket rest   *)
(* on: typed, and consistent.                                              *)

TrackerType ==
    /\ activeBalancesLength \in Nat
    /\ DOMAIN activeBalances \subseteq Nat
    /\ 0 .. activeBalancesLength - 1 \subseteq DOMAIN activeBalances
    /\ activeBalances \in [DOMAIN activeBalances -> Users]
    /\ riskProxBalances \in [Users -> Entry]

TrackerInv == TrackerType /\ TrackerConsistent

\* A user whose balance counts is in the slot of his index, and has a value.
LEMMA ValidIndex ==
    ASSUME TrackerInv, NEW u \in Users, HasValidBalance(u, riskProxBalances[u].index)
    PROVE  /\ riskProxBalances[u].index \in 1 .. activeBalancesLength
           /\ activeBalances[riskProxBalances[u].index - 1] = u
           /\ riskProxBalances[u].value \in Nat /\ riskProxBalances[u].value > 0
<1>1. riskProxBalances[u] \in Entry /\ riskProxBalances[u].index \in Nat
  BY DEF TrackerInv, TrackerType, Entry
<1>2. /\ riskProxBalances[u].index \in 1 .. activeBalancesLength
      /\ activeBalances[riskProxBalances[u].index - 1] = u
  BY <1>1 DEF HasValidBalance, TrackerInv, TrackerType
<1>3. riskProxBalances[u].index - 1 \in 0 .. activeBalancesLength - 1
  BY <1>2 DEF TrackerInv, TrackerType
<1>4. riskProxBalances[activeBalances[riskProxBalances[u].index - 1]].value > 0
  BY <1>3 DEF TrackerInv, TrackerConsistent
<1>. QED
  BY <1>1, <1>2, <1>4 DEF Entry

\* The user in a slot in use has a balance that counts.
LEMMA SlotInUse ==
    ASSUME TrackerInv, NEW slot \in 0 .. activeBalancesLength - 1
    PROVE  /\ activeBalances[slot] \in Users
           /\ riskProxBalances[activeBalances[slot]].index = slot + 1
           /\ riskProxBalances[activeBalances[slot]].value \in Nat \ {0}
           /\ HasValidBalance(activeBalances[slot], riskProxBalances[activeBalances[slot]].index)
<1>1. activeBalancesLength \in Nat /\ slot \in Nat /\ slot \in DOMAIN activeBalances
  BY DEF TrackerInv, TrackerType
<1>2. activeBalances[slot] \in Users
  BY <1>1 DEF TrackerInv, TrackerType
<1>3. /\ riskProxBalances[activeBalances[slot]].index = slot + 1
      /\ riskProxBalances[activeBalances[slot]].value > 0
  BY DEF TrackerInv, TrackerConsistent
<1>4. riskProxBalances[activeBalances[slot]].value \in Nat
  BY <1>2 DEF TrackerInv, TrackerType, Entry
<1>. QED
  BY <1>1, <1>2, <1>3, <1>4 DEF HasValidBalance

LEMMA BalanceIsNat ==
    ASSUME TrackerInv, NEW u \in Users
    PROVE  RiskProxBalanceOf(u) \in Nat
BY DEF TrackerInv, TrackerType, RiskProxBalanceOf, Entry

(* ---------------------------------------------------------------------- *)
(* What each way of setting a balance does.                                *)

LEMMA AppendOK ==
    ASSUME TrackerInv, NEW user \in Users, NEW value \in Nat \ {0},
           ~HasValidBalance(user, riskProxBalances[user].index),
           Append(user, value)
    PROVE  /\ TrackerInv'
           /\ activeBalancesLength' = activeBalancesLength + 1
           /\ \A u \in Users : RiskProxBalanceOf(u)' = IF u = user THEN value ELSE RiskProxBalanceOf(u)
<1> DEFINE n == activeBalancesLength
<1>1. n \in Nat /\ activeBalancesLength' = n + 1
  BY DEF TrackerInv, TrackerType, Append
<1>2. /\ activeBalances'[n] = user
      /\ \A slot \in 0 .. n - 1 : activeBalances'[slot] = activeBalances[slot]
      /\ DOMAIN activeBalances' = DOMAIN activeBalances \union {n}
  BY <1>1 DEF TrackerInv, TrackerType, Append
<1>3. /\ riskProxBalances'[user] = [value |-> value, index |-> n + 1]
      /\ \A u \in Users \ {user} : riskProxBalances'[u] = riskProxBalances[u]
      /\ riskProxBalances' \in [Users -> Entry]
  BY <1>1 DEF TrackerInv, TrackerType, Append, Entry
<1>4. \A slot \in 0 .. n - 1 : activeBalances[slot] \in Users \ {user}
  BY SlotInUse
<1>5. TrackerType'
  <2>1. activeBalances' \in [DOMAIN activeBalances' -> Users]
    BY DEF TrackerInv, TrackerType, Append
  <2>2. 0 .. (n + 1) - 1 \subseteq DOMAIN activeBalances \union {n}
    BY <1>1 DEF TrackerInv, TrackerType
  <2>3. DOMAIN activeBalances' \subseteq Nat
    BY <1>1, <1>2 DEF TrackerInv, TrackerType
  <2>. QED
    BY <1>1, <1>2, <1>3, <2>1, <2>2, <2>3 DEF TrackerType
<1>6. TrackerConsistent'
  <2>. SUFFICES ASSUME NEW slot \in 0 .. n
                PROVE  /\ riskProxBalances'[activeBalances'[slot]].index = slot + 1
                       /\ riskProxBalances'[activeBalances'[slot]].value > 0
    BY <1>1 DEF TrackerConsistent
  <2>1. CASE slot = n
    BY <2>1, <1>1, <1>2, <1>3
  <2>2. CASE slot # n
    <3>1. slot \in 0 .. n - 1
      BY <2>2, <1>1
    <3>2. riskProxBalances'[activeBalances'[slot]] = riskProxBalances[activeBalances[slot]]
      BY <3>1, <1>2, <1>3, <1>4
    <3>. QED
      BY <3>1, <3>2 DEF TrackerInv, TrackerConsistent
  <2>. QED
    BY <2>1, <2>2
<1>7. RiskProxBalanceOf(user)' = value
  BY <1>1, <1>2, <1>3 DEF RiskProxBalanceOf, HasValidBalance
<1>8. ASSUME NEW u \in Users, u # user
      PROVE  RiskProxBalanceOf(u)' = RiskProxBalanceOf(u)
  <2> DEFINE index == riskProxBalances[u].index
  <2>1. index \in Nat /\ riskProxBalances'[u] = riskProxBalances[u]
    BY <1>3, <1>8 DEF TrackerInv, TrackerType, Entry
  <2>2. CASE index \in 1 .. n
    <3>1. index - 1 \in 0 .. n - 1
      BY <2>2, <1>1
    <3>. QED
      BY <3>1, <2>1, <2>2, <1>1, <1>2 DEF RiskProxBalanceOf, HasValidBalance
  <2>3. CASE index = n + 1
    <3>1. index - 1 = n
      BY <2>3, <1>1
    <3>. QED
      BY <3>1, <2>1, <2>3, <1>1, <1>2, <1>8 DEF RiskProxBalanceOf, HasValidBalance
  <2>4. CASE index \notin 1 .. n + 1
    BY <2>4, <2>1, <1>1 DEF RiskProxBalanceOf, HasValidBalance
  <2>. QED
    BY <2>2, <2>3, <2>4, <1>1
<1>. QED
  BY <1>1, <1>5, <1>6, <1>7, <1>8 DEF TrackerInv

LEMMA DeleteOK ==
    ASSUME TrackerInv, NEW user \in Users,
           HasValidBalance(user, riskProxBalances[user].index),
           Delete(user)
    PROVE  /\ TrackerInv'
           /\ activeBalancesLength' = activeBalancesLength - 1
           /\ \A u \in Users : RiskProxBalanceOf(u)' = IF u = user THEN 0 ELSE RiskProxBalanceOf(u)
<1> DEFINE n == activeBalancesLength
           index == riskProxBalances[user].index
           keyToMove == activeBalances[n - 1]
<1>1. n \in Nat /\ index \in 1 .. n /\ activeBalances[index - 1] = user
  BY ValidIndex DEF TrackerInv, TrackerType
<1>2. n - 1 \in 0 .. n - 1 /\ index - 1 \in 0 .. n - 1 /\ activeBalancesLength' = n - 1
  BY <1>1 DEF Delete
<1>3. keyToMove \in Users /\ riskProxBalances[keyToMove].index = n
  BY <1>1, <1>2, SlotInUse
<1>4. /\ activeBalances' = [activeBalances EXCEPT ![index - 1] = keyToMove]
      /\ riskProxBalances' = [u \in Users |->
               IF u = user THEN [value |-> 0, index |-> 0]
               ELSE IF u = keyToMove THEN [riskProxBalances[u] EXCEPT !.index = index]
               ELSE riskProxBalances[u]]
  BY DEF Delete
<1>. HIDE DEF index, keyToMove
<1>5. /\ activeBalances'[index - 1] = keyToMove
      /\ \A slot \in 0 .. n - 1 : slot # index - 1 => activeBalances'[slot] = activeBalances[slot]
      /\ DOMAIN activeBalances' = DOMAIN activeBalances
      /\ activeBalances' \in [DOMAIN activeBalances -> Users]
  BY <1>2, <1>3, <1>4 DEF TrackerInv, TrackerType
<1>6. /\ riskProxBalances' \in [Users -> Entry]
      /\ riskProxBalances'[user] = [value |-> 0, index |-> 0]
      /\ \A u \in Users \ {user, keyToMove} : riskProxBalances'[u] = riskProxBalances[u]
      /\ keyToMove # user => /\ riskProxBalances'[keyToMove].index = index
                             /\ riskProxBalances'[keyToMove].value = riskProxBalances[keyToMove].value
  BY <1>1, <1>3, <1>4 DEF TrackerInv, TrackerType, Entry
<1>7. keyToMove = user <=> index = n
  BY <1>1, <1>3 DEF index, keyToMove
<1>8. TrackerType'
  <2>1. 0 .. (n - 1) - 1 \subseteq DOMAIN activeBalances
    BY <1>1 DEF TrackerInv, TrackerType
  <2>2. n - 1 \in Nat /\ DOMAIN activeBalances \subseteq Nat
    BY <1>1 DEF TrackerInv, TrackerType
  <2>. QED
    BY <1>2, <1>5, <1>6, <2>1, <2>2 DEF TrackerType
<1>9. ASSUME NEW slot \in 0 .. n - 2
      PROVE  \/ slot = index - 1 /\ keyToMove # user
             \/ /\ slot # index - 1
                /\ activeBalances'[slot] = activeBalances[slot]
                /\ activeBalances[slot] \in Users \ {user, keyToMove}
  <2>1. slot \in 0 .. n - 1 /\ slot # n - 1
    BY <1>1
  <2>2. activeBalances[slot] \in Users /\ riskProxBalances[activeBalances[slot]].index = slot + 1
    BY <2>1, SlotInUse
  <2>3. CASE slot = index - 1
    BY <2>3, <2>1, <1>1, <1>7
  <2>4. CASE slot # index - 1
    <3>1. slot + 1 # index /\ slot + 1 # n
      BY <2>1, <2>4, <1>1
    <3>. QED
      BY <3>1, <2>1, <2>2, <2>4, <1>3, <1>5 DEF index
  <2>. QED
    BY <2>3, <2>4
<1>10. TrackerConsistent'
  <2>. SUFFICES ASSUME NEW slot \in 0 .. n - 2
                PROVE  /\ riskProxBalances'[activeBalances'[slot]].index = slot + 1
                       /\ riskProxBalances'[activeBalances'[slot]].value > 0
    <3>1. (n - 1) - 1 = n - 2
      BY <1>1
    <3>. QED
      BY <3>1, <1>2 DEF TrackerConsistent
  <2>1. CASE slot = index - 1 /\ keyToMove # user
    <3>1. riskProxBalances[keyToMove].value > 0
      BY <1>2, SlotInUse DEF keyToMove
    <3>. QED
      BY <2>1, <3>1, <1>1, <1>5, <1>6
  <2>2. CASE /\ slot # index - 1
             /\ activeBalances'[slot] = activeBalances[slot]
             /\ activeBalances[slot] \in Users \ {user, keyToMove}
    <3>1. slot \in 0 .. n - 1
      BY <1>1
    <3>. QED
      BY <2>2, <3>1, <1>6 DEF TrackerInv, TrackerConsistent
  <2>. QED
    BY <2>1, <2>2, <1>9
<1>11. RiskProxBalanceOf(user)' = 0
  BY <1>6 DEF RiskProxBalanceOf, HasValidBalance
<1>. PICK moved \in Users : moved = keyToMove
  BY <1>3
<1>12. ASSUME moved # user
       PROVE  RiskProxBalanceOf(moved)' = RiskProxBalanceOf(moved)
  <2>1. index # n /\ index # 0 /\ index <= n - 1
    BY <1>1, <1>7, <1>12
  <2>2. HasValidBalance(moved, riskProxBalances[moved].index)
    BY <1>2, SlotInUse DEF keyToMove
  <2>3. riskProxBalances'[moved].index = index /\ activeBalances'[index - 1] = moved
    BY <1>5, <1>6, <1>12
  <2>4. HasValidBalance(moved, riskProxBalances[moved].index)'
    BY <2>1, <2>3, <1>2 DEF HasValidBalance
  <2>. QED
    BY <2>2, <2>4, <1>6, <1>12 DEF RiskProxBalanceOf
<1>13. ASSUME NEW u \in Users \ {user, moved}
       PROVE  RiskProxBalanceOf(u)' = RiskProxBalanceOf(u)
  <2> DEFINE i == riskProxBalances[u].index
  <2>1. i \in Nat /\ riskProxBalances'[u] = riskProxBalances[u]
    BY <1>6 DEF TrackerInv, TrackerType, Entry
  <2>2. CASE i \in 1 .. n - 1
    <3>1. i - 1 \in 0 .. n - 1 /\ i # 0 /\ i <= n
      BY <2>2, <1>1
    <3>2. CASE i = index
      BY <3>1, <3>2, <2>1, <2>2, <1>1, <1>2, <1>5 DEF RiskProxBalanceOf, HasValidBalance
    <3>3. CASE i # index
      <4>1. i - 1 # index - 1
        BY <3>3, <2>1, <1>1
      <4>2. activeBalances'[i - 1] = activeBalances[i - 1]
        BY <4>1, <3>1, <1>5
      <4>. QED
        BY <4>2, <3>1, <2>1, <2>2, <1>2 DEF RiskProxBalanceOf, HasValidBalance
    <3>. QED
      BY <3>2, <3>3
  <2>3. CASE i = n
    <3>1. ~HasValidBalance(u, i)
      BY <2>3 DEF HasValidBalance, keyToMove
    <3>2. ~(n <= n - 1)
      BY <1>1
    <3>. QED
      BY <3>1, <3>2, <2>1, <2>3, <1>2 DEF RiskProxBalanceOf, HasValidBalance
  <2>4. CASE i \notin 1 .. n
    BY <2>4, <2>1, <1>1, <1>2 DEF RiskProxBalanceOf, HasValidBalance
  <2>. QED
    BY <2>2, <2>3, <2>4, <1>1
<1>. QED
  BY <1>2, <1>8, <1>10, <1>11, <1>12, <1>13 DEF TrackerInv

LEMMA SetOK ==
    ASSUME TrackerInv, NEW user \in Users, NEW value \in Nat,
           SetRiskProxBalanceOf(user, value)
    PROVE  /\ TrackerInv'
           /\ \A u \in Users : RiskProxBalanceOf(u)' = IF u = user THEN value ELSE RiskProxBalanceOf(u)
<1> DEFINE tracked == HasValidBalance(user, riskProxBalances[user].index)
<1>1. CASE ~tracked /\ value > 0 /\ Append(user, value)
  BY <1>1, AppendOK
<1>2. CASE tracked /\ value = 0 /\ Delete(user)
  BY <1>2, DeleteOK
<1>3. CASE /\ tracked <=> value > 0
           /\ riskProxBalances' = [riskProxBalances EXCEPT ![user].value = value]
           /\ UNCHANGED <<activeBalances, activeBalancesLength>>
  <2>1. /\ riskProxBalances' \in [Users -> Entry]
        /\ riskProxBalances'[user].value = value
        /\ riskProxBalances'[user].index = riskProxBalances[user].index
        /\ \A u \in Users \ {user} : riskProxBalances'[u] = riskProxBalances[u]
    BY <1>3 DEF TrackerInv, TrackerType, Entry
  <2>2. TrackerType'
    BY <1>3, <2>1 DEF TrackerInv, TrackerType
  <2>3. \A u \in Users : HasValidBalance(u, riskProxBalances[u].index)'
                            <=> HasValidBalance(u, riskProxBalances[u].index)
    BY <1>3, <2>1 DEF HasValidBalance
  <2>4. TrackerConsistent'
    <3>. SUFFICES ASSUME NEW slot \in 0 .. activeBalancesLength - 1
                  PROVE  /\ riskProxBalances'[activeBalances[slot]].index = slot + 1
                         /\ riskProxBalances'[activeBalances[slot]].value > 0
      BY <1>3 DEF TrackerConsistent
    <3>1. /\ activeBalances[slot] \in Users
          /\ riskProxBalances[activeBalances[slot]].index = slot + 1
          /\ riskProxBalances[activeBalances[slot]].value > 0
          /\ HasValidBalance(activeBalances[slot], riskProxBalances[activeBalances[slot]].index)
      BY SlotInUse
    <3>. QED
      BY <3>1, <1>3, <2>1
  <2>5. RiskProxBalanceOf(user)' = value
    BY <1>3, <2>1, <2>3 DEF RiskProxBalanceOf
  <2>6. \A u \in Users \ {user} : RiskProxBalanceOf(u)' = RiskProxBalanceOf(u)
    BY <2>1, <2>3 DEF RiskProxBalanceOf
  <2>. QED
    BY <2>2, <2>4, <2>5, <2>6 DEF TrackerInv
<1>. QED
  BY <1>1, <1>2, <1>3 DEF SetRiskProxBalanceOf
(* ---------------------------------------------------------------------- *)
(* The inductive invariant, action by action.                              *)

IInv == TypeOK /\ TrackerConsistent

RestType ==
    /\ nRiskPro \in Nat /\ nReserve \in Nat
    /\ settlement \in {"Ready", "Deleveraging", "Redeeming"}
    /\ riskProxPrice \in Nat

LEMMA IInvParts == IInv <=> TrackerInv /\ RestType
BY DEF IInv, TypeOK, TrackerInv, TrackerType, RestType

LEMMA QuotientIsNat ==
    ASSUME NEW n \in Nat, NEW m \in Nat, NEW d \in Nat \ {0}
    PROVE  (n * m) \div d \in Nat
<1>1. n * m \in Nat
  OBVIOUS
<1>. QED
  BY <1>1

LEMMA PriceIsNat ==
    ASSUME RestType, NEW lb \in Nat
    PROVE  RiskProTecPrice(lb) \in Nat
<1>1. CASE nReserve >= lb /\ nRiskPro # 0
  <2>1. nReserve - lb \in Nat /\ nRiskPro \in Nat \ {0} /\ MocPrecision \in Nat
    BY <1>1, RiskProxAssumption DEF RestType
  <2>. QED
    BY <1>1, <2>1, QuotientIsNat DEF RiskProTecPrice, RestType
<1>2. CASE ~(nReserve >= lb /\ nRiskPro # 0)
  BY <1>2, RiskProxAssumption DEF RiskProTecPrice, RestType
<1>. QED
  BY <1>1, <1>2

\* What a removal leaves, whoever asks for it.
LEMMA RemovedOK ==
    ASSUME TrackerInv, RestType,
           NEW user \in Users, NEW amount \in Nat, NEW totalCost \in Nat,
           Removed(user, amount, totalCost)
    PROVE  /\ TrackerInv'
           /\ nRiskPro' \in Nat /\ nReserve' \in Nat
           /\ nRiskPro' = nRiskPro - amount /\ nReserve' = nReserve - totalCost
           /\ amount <= RiskProxBalanceOf(user)
           /\ \A u \in Users : RiskProxBalanceOf(u)' =
                  IF u = user THEN RiskProxBalanceOf(user) - amount ELSE RiskProxBalanceOf(u)
<1>1. amount <= RiskProxBalanceOf(user) /\ amount <= nRiskPro /\ totalCost <= nReserve
  BY DEF Removed, CanRemove
<1>2. RiskProxBalanceOf(user) - amount \in Nat
  BY <1>1, BalanceIsNat
<1>3. SetRiskProxBalanceOf(user, RiskProxBalanceOf(user) - amount)
  BY DEF Removed
<1>4. /\ TrackerInv'
      /\ \A u \in Users : RiskProxBalanceOf(u)' =
             IF u = user THEN RiskProxBalanceOf(user) - amount ELSE RiskProxBalanceOf(u)
  BY <1>2, <1>3, SetOK
<1>5. nRiskPro' = nRiskPro - amount /\ nReserve' = nReserve - totalCost
  BY DEF Removed
<1>. QED
  BY <1>1, <1>4, <1>5 DEF RestType

\* A step of the deleveraging removes the whole balance of the first address.
LEMMA StepOK ==
    ASSUME TrackerInv, RestType, DeleveragingStep
    PROVE  \E user \in Users, amount, totalCost \in Nat :
              /\ user = activeBalances[0] /\ amount = RiskProxBalanceOf(user) /\ amount > 0
              /\ totalCost = RiskProResTokensValue(amount, riskProxPrice)
              /\ Removed(user, amount, totalCost)
<1> DEFINE user == activeBalances[0]
           amount == RiskProxBalanceOf(user)
<1>1. 0 \in 0 .. activeBalancesLength - 1
  BY DEF DeleveragingStep, TrackerInv, TrackerType
<1>2. user \in Users /\ amount \in Nat \ {0}
  BY <1>1, SlotInUse DEF RiskProxBalanceOf
<1>3. RiskProResTokensValue(amount, riskProxPrice) \in Nat
  BY <1>2, QuotientIsNat, RiskProxAssumption DEF RiskProResTokensValue, RestType
<1>4. Removed(user, amount, RiskProResTokensValue(amount, riskProxPrice))
  BY DEF DeleveragingStep
<1>. HIDE DEF user, amount
<1>5. user = activeBalances[0] /\ amount = RiskProxBalanceOf(user)
  BY DEF user, amount
<1>. QED
  BY <1>2, <1>3, <1>4, <1>5

\* A new position, or more of an old one.
LEMMA AssignedOK ==
    ASSUME TrackerInv, NEW user \in Users, NEW amount \in Nat,
           SetRiskProxBalanceOf(user, RiskProxBalanceOf(user) + amount)
    PROVE  /\ TrackerInv'
           /\ \A u \in Users : RiskProxBalanceOf(u)' =
                  IF u = user THEN RiskProxBalanceOf(user) + amount ELSE RiskProxBalanceOf(u)
<1>1. RiskProxBalanceOf(user) + amount \in Nat
  BY BalanceIsNat
<1>. QED
  BY <1>1, SetOK

LEMMA ClearedOK ==
    ASSUME TrackerInv, LiquidateBucket
    PROVE  TrackerInv' /\ \A u \in Users : RiskProxBalanceOf(u)' = 0
<1>1. /\ activeBalancesLength' = 0
      /\ riskProxBalances' = riskProxBalances /\ activeBalances' = activeBalances
  BY DEF LiquidateBucket
<1>2. TrackerInv'
  BY <1>1 DEF TrackerInv, TrackerType, TrackerConsistent
<1>3. ASSUME NEW u \in Users PROVE RiskProxBalanceOf(u)' = 0
  <2>1. riskProxBalances[u].index \in Nat
    BY DEF TrackerInv, TrackerType, Entry
  <2>. QED
    BY <1>1, <2>1 DEF RiskProxBalanceOf, HasValidBalance
<1>. QED
  BY <1>2, <1>3

LEMMA TrackerUnchanged ==
    ASSUME TrackerInv, UNCHANGED trackerVars
    PROVE  TrackerInv' /\ \A u \in Users : RiskProxBalanceOf(u)' = RiskProxBalanceOf(u)
BY DEF trackerVars, TrackerInv, TrackerType, TrackerConsistent, RiskProxBalanceOf,
       HasValidBalance

LEMMA InitOK == Init => IInv
BY DEF Init, IInv, TypeOK, TrackerConsistent, Entry

LEMMA StepPreserves ==
    ASSUME IInv, [Next]_vars
    PROVE  IInv'
<1>1. TrackerInv /\ RestType
  BY IInvParts
<1>2. ASSUME NEW user \in Users, NEW amount \in RiskProxAmounts, NEW totalCost \in Costs,
             AssignRiskProx(user, amount, totalCost)
      PROVE  IInv'
  <2>1. amount \in Nat /\ totalCost \in Nat
    BY RiskProxAssumption
  <2>2. TrackerInv'
    BY <1>1, <1>2, <2>1, AssignedOK DEF AssignRiskProx
  <2>3. RestType'
    BY <1>1, <1>2, <2>1 DEF AssignRiskProx, RestType
  <2>. QED
    BY <2>2, <2>3, IInvParts, PTL
<1>3. ASSUME NEW user \in Users, NEW amount \in RiskProxAmounts, NEW totalCost \in Costs,
             RemoveRiskProx(user, amount, totalCost)
      PROVE  IInv'
  <2>1. amount \in Nat /\ totalCost \in Nat /\ Removed(user, amount, totalCost)
    BY <1>3, RiskProxAssumption DEF RemoveRiskProx
  <2>2. TrackerInv' /\ nRiskPro' \in Nat /\ nReserve' \in Nat
    BY <1>1, <2>1, RemovedOK
  <2>3. RestType'
    BY <1>1, <1>3, <2>2 DEF RemoveRiskProx, RestType
  <2>. QED
    BY <2>2, <2>3, IInvParts, PTL
<1>4. ASSUME LiquidateBucket PROVE IInv'
  <2>1. RestType'
    BY <1>1, <1>4 DEF LiquidateBucket, RestType
  <2>. QED
    BY <1>1, <1>4, <2>1, ClearedOK, IInvParts, PTL
<1>5. ASSUME NEW lb \in LockedReserves, InitializeSettlement(lb) PROVE IInv'
  <2>1. RestType'
    BY <1>1, <1>5, PriceIsNat, RiskProxAssumption DEF InitializeSettlement, RestType
  <2>2. TrackerInv'
    BY <1>1, <1>5, TrackerUnchanged DEF InitializeSettlement
  <2>. QED
    BY <2>1, <2>2, IInvParts, PTL
<1>6. ASSUME DeleveragingStep PROVE IInv'
  <2>1. PICK user \in Users, amount \in Nat, totalCost \in Nat :
            Removed(user, amount, totalCost)
    BY <1>1, <1>6, StepOK
  <2>2. TrackerInv' /\ nRiskPro' \in Nat /\ nReserve' \in Nat
    BY <1>1, <2>1, RemovedOK
  <2>3. RestType'
    BY <1>1, <1>6, <2>2 DEF DeleveragingStep, RestType
  <2>. QED
    BY <2>2, <2>3, IInvParts, PTL
<1>7. ASSUME FinishDeleveraging PROVE IInv'
  <2>1. RestType'
    BY <1>1, <1>7 DEF FinishDeleveraging, RestType
  <2>2. TrackerInv'
    BY <1>1, <1>7, TrackerUnchanged DEF FinishDeleveraging
  <2>. QED
    BY <2>1, <2>2, IInvParts, PTL
<1>8. ASSUME SettlementReady PROVE IInv'
  <2>1. RestType'
    BY <1>1, <1>8 DEF SettlementReady, RestType
  <2>2. TrackerInv'
    BY <1>1, <1>8, TrackerUnchanged DEF SettlementReady
  <2>. QED
    BY <2>1, <2>2, IInvParts, PTL
<1>9. ASSUME UNCHANGED vars PROVE IInv'
  <2>1. RestType'
    BY <1>1, <1>9 DEF vars, RestType
  <2>2. TrackerInv'
    BY <1>1, <1>9, TrackerUnchanged DEF vars
  <2>. QED
    BY <2>1, <2>2, IInvParts, PTL
<1>. QED
  BY <1>2, <1>3, <1>4, <1>5, <1>6, <1>7, <1>8, <1>9 DEF Next, Position, Settle

LEMMA Inductive == Spec => []IInv
BY InitOK, StepPreserves, PTL DEF Spec

(* ---------------------------------------------------------------------- *)
(* The theorems.                                                           *)

\* Every variable keeps its type, whatever removals, liquidations and new
\* positions setRiskProxBalanceOf and liquidateBucket go through.
THEOREM PositionsTypeCorrect == Spec => []TypeOK
BY Inductive, PTL DEF IInv

\* The swap and delete of setRiskProxBalanceOf, over slots and indices that are
\* never erased, keeps slots and indices in agreement.
THEOREM TrackerStaysConsistent == Spec => []TrackerConsistent
BY Inductive, PTL DEF IInv
\* One transaction of the deleveraging closes one position, whole, and leaves the
\* others alone: the settlement may freeze its number of steps.
THEOREM ClosesOne == Spec => DeleveragingClosesOne
<1> DEFINE One == /\ activeBalancesLength' = activeBalancesLength - 1
                  /\ \E user \in Users :
                        /\ RiskProxBalanceOf(user) > 0
                        /\ RiskProxBalanceOf(user)' = 0
                        /\ \A other \in Users \ {user} :
                              RiskProxBalanceOf(other)' = RiskProxBalanceOf(other)
           Within == settlement = "Deleveraging" /\ settlement' = "Deleveraging"
<1>1. ASSUME IInv, Next, Within PROVE One
  <2>1. DeleveragingStep
    BY <1>1 DEF Next, Position, Settle, AssignRiskProx, RemoveRiskProx, LiquidateBucket,
                InitializeSettlement, FinishDeleveraging, SettlementReady
  <2>2. TrackerInv /\ RestType
    BY <1>1, IInvParts
  <2>3. PICK user \in Users, amount \in Nat, totalCost \in Nat :
            /\ user = activeBalances[0] /\ amount = RiskProxBalanceOf(user) /\ amount > 0
            /\ Removed(user, amount, totalCost)
    BY <2>1, <2>2, StepOK
  <2>4. 0 \in 0 .. activeBalancesLength - 1
    BY <2>1, <2>2 DEF DeleveragingStep, TrackerInv, TrackerType
  <2>5. HasValidBalance(user, riskProxBalances[user].index)
    BY <2>2, <2>3, <2>4, SlotInUse
  <2>6. SetRiskProxBalanceOf(user, 0)
    BY <2>2, <2>3, BalanceIsNat DEF Removed
  <2>7. Delete(user)
    BY <2>5, <2>6 DEF SetRiskProxBalanceOf
  <2>8. /\ activeBalancesLength' = activeBalancesLength - 1
        /\ \A u \in Users : RiskProxBalanceOf(u)' = IF u = user THEN 0 ELSE RiskProxBalanceOf(u)
    BY <2>2, <2>5, <2>7, DeleteOK
  <2>9. /\ RiskProxBalanceOf(user) > 0
        /\ RiskProxBalanceOf(user)' = 0
        /\ \A other \in Users \ {user} : RiskProxBalanceOf(other)' = RiskProxBalanceOf(other)
    BY <2>3, <2>8
  <2>. QED
    BY <2>8, <2>9
<1>2. IInv /\ [Next]_vars => [Within => One]_vars
  BY <1>1
<1>. QED
  BY <1>2, Inductive, PTL DEF Spec, DeleveragingClosesOne

(* The refinement. *)

holdings == [u \in Users |-> RiskProxBalanceOf(u)]

\* A transaction that changes one balance, and the total with it, is the ledger's.
LEMMA OperateOK ==
    ASSUME TrackerInv, TrackerInv', NEW user \in Users, NEW change \in Int,
           nRiskPro \in Nat, nRiskPro' = nRiskPro + change,
           \A u \in Users : RiskProxBalanceOf(u)' =
               IF u = user THEN RiskProxBalanceOf(user) + change ELSE RiskProxBalanceOf(u)
    PROVE  Ledger!Next
<1>1. holdings' = [holdings EXCEPT ![user] = holdings'[user]]
  BY DEF holdings
<1>2. holdings[user] = RiskProxBalanceOf(user) /\ holdings'[user] = RiskProxBalanceOf(user)'
  BY DEF holdings
<1>3. RiskProxBalanceOf(user) \in Nat /\ RiskProxBalanceOf(user)' \in Nat
  BY DEF TrackerInv, TrackerType, RiskProxBalanceOf, Entry
<1>4. RiskProxBalanceOf(user)' = RiskProxBalanceOf(user) + change
  OBVIOUS
<1>5. holdings'[user] >= 0 /\ nRiskPro' - nRiskPro = holdings'[user] - holdings[user]
  BY <1>2, <1>3, <1>4
<1>. QED
  BY <1>1, <1>5 DEF Ledger!Next, Ledger!Operate, holdings

\* Every step of the tracker is a step of the plain ledger, or leaves it alone.
LEMMA StepOfLedger ==
    ASSUME IInv, [Next]_vars
    PROVE  [Ledger!Next]_<<holdings, nRiskPro>>
<1>1. TrackerInv /\ RestType /\ TrackerInv'
  BY IInvParts, StepPreserves, PTL
<1>2. ASSUME NEW user \in Users, NEW amount \in RiskProxAmounts, NEW totalCost \in Costs,
             AssignRiskProx(user, amount, totalCost)
      PROVE  Ledger!Next
  <2>1. amount \in Int /\ amount \in Nat /\ nRiskPro' = nRiskPro + amount
    BY <1>2, RiskProxAssumption DEF AssignRiskProx
  <2>2. \A u \in Users : RiskProxBalanceOf(u)' =
            IF u = user THEN RiskProxBalanceOf(user) + amount ELSE RiskProxBalanceOf(u)
    BY <1>1, <1>2, <2>1, AssignedOK DEF AssignRiskProx
  <2>. QED
    BY <1>1, <2>1, <2>2, OperateOK DEF RestType
<1>3. ASSUME NEW user \in Users, NEW amount \in Nat, NEW totalCost \in Nat,
             Removed(user, amount, totalCost)
      PROVE  Ledger!Next
  <2> DEFINE change == 0 - amount
  <2>1. change \in Int /\ nRiskPro' = nRiskPro + change
    BY <1>1, <1>3, RemovedOK DEF RestType
  <2>2. RiskProxBalanceOf(user) \in Nat /\ RiskProxBalanceOf(user) - amount = RiskProxBalanceOf(user) + change
    BY <1>1, BalanceIsNat
  <2>3. \A u \in Users : RiskProxBalanceOf(u)' =
            IF u = user THEN RiskProxBalanceOf(user) + change ELSE RiskProxBalanceOf(u)
    BY <1>1, <1>3, <2>2, RemovedOK
  <2>. HIDE DEF change
  <2>. QED
    BY <1>1, <2>1, <2>3, OperateOK DEF RestType
<1>4. ASSUME LiquidateBucket PROVE Ledger!Next
  <2>1. holdings' = [u \in Users |-> 0] /\ nRiskPro' = 0
    BY <1>1, <1>4, ClearedOK DEF holdings, LiquidateBucket
  <2>. QED
    BY <2>1 DEF Ledger!Next, Ledger!Clear, holdings
<1>5. ASSUME DeleveragingStep PROVE Ledger!Next
  <2>1. PICK user \in Users, amount \in Nat, totalCost \in Nat :
            Removed(user, amount, totalCost)
    BY <1>1, <1>5, StepOK
  <2>. QED
    BY <2>1, <1>3
<1>6. ASSUME UNCHANGED <<trackerVars, nRiskPro>>
      PROVE  UNCHANGED <<holdings, nRiskPro>>
  <2>1. \A u \in Users : RiskProxBalanceOf(u)' = RiskProxBalanceOf(u)
    BY <1>1, <1>6, TrackerUnchanged
  <2>. QED
    BY <1>6, <2>1 DEF holdings
<1>7. ASSUME NEW user \in Users, NEW amount \in RiskProxAmounts, NEW totalCost \in Costs,
             RemoveRiskProx(user, amount, totalCost)
      PROVE  Ledger!Next
  BY <1>3, <1>7, RiskProxAssumption DEF RemoveRiskProx
<1>8. CASE \/ \E lb \in LockedReserves : InitializeSettlement(lb)
           \/ FinishDeleveraging
           \/ SettlementReady
           \/ UNCHANGED vars
  BY <1>6, <1>8 DEF InitializeSettlement, FinishDeleveraging, SettlementReady, vars
<1>. QED
  BY <1>2, <1>4, <1>5, <1>7, <1>8 DEF Next, Position, Settle

\* The array of addresses, its indices and its stale entries implement a plain
\* ledger of holdings and their total.
THEOREM TrackerIsALedger == Spec => ImplementsLedger
<1>1. Init => Ledger!Init
  <2>. SUFFICES ASSUME Init PROVE Ledger!Init
    OBVIOUS
  <2>1. \A u \in Users : RiskProxBalanceOf(u) = 0
    BY DEF Init, RiskProxBalanceOf, HasValidBalance
  <2>. QED
    BY <2>1 DEF Init, Ledger!Init
<1>2. IInv /\ [Next]_vars => [Ledger!Next]_<<holdings, nRiskPro>>
  BY StepOfLedger
<1>. QED
  BY <1>1, <1>2, Inductive, PTL DEF Spec, ImplementsLedger, Ledger!Spec, holdings

(* ---------------------------------------------------------------------- *)
(* The deleveraging.                                                      *)

\* The total the bucket believes in is what the positions add up to.
TotalIsHeld == nRiskPro = SumFunctionOnSet(holdings, Users)

\* At the frozen price the bucket has enough for all that it believes is left.
EnoughForAll ==
    settlement = "Deleveraging" => nRiskPro * riskProxPrice <= nReserve * MocPrecision

\* What makes DeleveragingNeverReverts inductive.
BucketInv == IInv /\ TotalIsHeld /\ EnoughForAll

HoldingsType == holdings \in [Users -> Nat]

LEMMA HoldingsAreNat == IInv => HoldingsType
  BY IInvParts, BalanceIsNat DEF HoldingsType, holdings

\* A plain ledger keeps its total.
LEMMA LedgerKeepsTotal ==
    ASSUME IInv, IInv', TotalIsHeld, [Ledger!Next]_<<holdings, nRiskPro>>
    PROVE  TotalIsHeld'
<1>1. \A u \in Users : holdings[u] \in Int /\ holdings'[u] \in Int
  <2>1. HoldingsType /\ HoldingsType'
    BY HoldingsAreNat, PTL
  <2>. QED
    BY <2>1 DEF HoldingsType
<1>0. IsFiniteSet(Users) /\ nRiskPro \in Int /\ nRiskPro' \in Int
  BY RiskProxAssumption DEF IInv, TypeOK
<1>2. ASSUME NEW user \in Users, Ledger!Operate(user) PROVE TotalIsHeld'
  <2>1. /\ \A u \in Users \ {user} : holdings[u] = holdings'[u]
        /\ nRiskPro' - nRiskPro = holdings'[user] - holdings[user]
    BY <1>2 DEF Ledger!Operate, holdings
  <2>2. SumFunctionOnSet(holdings', Users)
          = SumFunctionOnSet(holdings, Users) + holdings'[user] - holdings[user]
    BY <1>0, <1>1, <2>1, SumOfChanged
  <2>. QED
    BY <1>0, <1>1, <2>1, <2>2 DEF TotalIsHeld
<1>3. ASSUME Ledger!Clear PROVE TotalIsHeld'
  <2>1. (\A u \in Users : holdings'[u] = 0) /\ nRiskPro' = 0
    BY <1>3 DEF Ledger!Clear, holdings
  <2>2. SumFunctionOnSet(holdings', Users) = 0 * Cardinality(Users)
    BY <1>0, <2>1, SumOfConstant
  <2>. QED
    BY <1>0, <2>1, <2>2, FS_CardinalityType DEF TotalIsHeld
<1>4. ASSUME UNCHANGED <<holdings, nRiskPro>> PROVE TotalIsHeld'
  BY <1>4 DEF TotalIsHeld
<1>. QED
  BY <1>2, <1>3, <1>4 DEF Ledger!Next

\* The price is rounded down, and so is what it makes a position worth.
LEMMA QuotientTimesDivisor ==
    ASSUME NEW n \in Nat, NEW d \in Nat \ {0}
    PROVE  n \div d \in Nat /\ (n \div d) * d <= n
OBVIOUS

LEMMA FrozenPriceIsCovered ==
    ASSUME RestType, NEW lb \in Nat
    PROVE  nRiskPro * RiskProTecPrice(lb) <= nReserve * MocPrecision
<1>. DEFINE price == RiskProTecPrice(lb)
<1>1. MocPrecision \in Nat /\ nReserve * MocPrecision \in Nat
  BY RiskProxAssumption DEF RestType
<1>2. CASE nReserve < lb \/ nRiskPro = 0
  <2>1. nRiskPro * price = 0
    BY <1>2, PriceIsNat DEF RiskProTecPrice, RestType
  <2>. QED
    BY <1>1, <2>1
<1>3. CASE nReserve >= lb /\ nRiskPro # 0
  <2>. DEFINE free == (nReserve - lb) * MocPrecision
  <2>1. free \in Nat /\ free <= nReserve * MocPrecision /\ nRiskPro \in Nat \ {0}
    BY <1>1, <1>3 DEF RestType
  <2>2. price = free \div nRiskPro
    BY <1>3 DEF RiskProTecPrice, RestType
  <2>. HIDE DEF free, price
  <2>3. price \in Nat /\ price * nRiskPro <= free
    BY <2>1, <2>2, QuotientTimesDivisor
  <2>4. nRiskPro * price = price * nRiskPro
    BY <2>1, <2>3
  <2>5. nRiskPro * price <= nReserve * MocPrecision
    BY <1>1, <2>1, <2>3, <2>4
  <2>. QED
    BY <2>5 DEF price
<1>. QED
  BY <1>2, <1>3 DEF RestType

LEMMA CostIsCovered ==
    ASSUME NEW total \in Nat, NEW price \in Nat, NEW reserve \in Nat,
           NEW amount \in Nat, amount <= total,
           total * price <= reserve * MocPrecision
    PROVE  /\ RiskProResTokensValue(amount, price) \in Nat
           /\ RiskProResTokensValue(amount, price) <= reserve
           /\ (total - amount) * price
                 <= (reserve - RiskProResTokensValue(amount, price)) * MocPrecision
<1>. DEFINE cost == RiskProResTokensValue(amount, price)
            P == MocPrecision
<1>1. P \in Nat \ {0} /\ amount * price \in Nat
  BY RiskProxAssumption
<1>2. cost \in Nat /\ cost * P <= amount * price
  BY <1>1, QuotientTimesDivisor DEF RiskProResTokensValue
<1>. HIDE DEF cost, P
<1>3. (total - amount) * price = total * price - amount * price
  OBVIOUS
<1>4. (total - amount) * price \in Nat
  OBVIOUS
<1>5. (reserve - cost) * P = reserve * P - cost * P
  BY <1>1, <1>2
<1>6. total * price \in Nat /\ reserve * P \in Nat /\ cost * P \in Nat
  BY <1>1, <1>2
<1>7. total * price <= reserve * P
  BY DEF P
<1>8. (total - amount) * price <= (reserve - cost) * P
  BY <1>1, <1>2, <1>3, <1>5, <1>6, <1>7
<1>9. cost <= reserve
  <2>1. 0 <= (reserve - cost) * P
    BY <1>1, <1>2, <1>4, <1>5, <1>6, <1>8
  <2>. QED
    BY <1>1, <1>2, <2>1
<1>. QED
  BY <1>2, <1>8, <1>9 DEF cost, P

LEMMA BucketInductive == ASSUME BucketInv, [Next]_vars PROVE BucketInv'
<1>1. IInv' /\ TrackerInv /\ RestType
  BY StepPreserves, IInvParts DEF BucketInv
<1>2. TotalIsHeld'
  BY <1>1, StepOfLedger, LedgerKeepsTotal DEF BucketInv
<1>3. CASE \E lb \in LockedReserves : InitializeSettlement(lb)
  <2>1. PICK lb \in LockedReserves : InitializeSettlement(lb)
    BY <1>3
  <2>2. EnoughForAll'
    BY <1>1, <2>1, FrozenPriceIsCovered, RiskProxAssumption
       DEF InitializeSettlement, EnoughForAll
  <2>. QED
    BY <1>1, <1>2, <2>2 DEF BucketInv
<1>4. CASE DeleveragingStep
  <2>1. PICK user \in Users, amount \in Nat, totalCost \in Nat :
            /\ totalCost = RiskProResTokensValue(amount, riskProxPrice)
            /\ Removed(user, amount, totalCost)
    BY <1>1, <1>4, StepOK
  <2>2. nRiskPro' = nRiskPro - amount /\ nReserve' = nReserve - totalCost
    BY <1>1, <2>1, RemovedOK
  <2>3. amount <= nRiskPro
    BY <2>1 DEF Removed, CanRemove
  <2>4. nRiskPro * riskProxPrice <= nReserve * MocPrecision
    BY <1>4 DEF BucketInv, EnoughForAll, DeleveragingStep
  <2>5. (nRiskPro - amount) * riskProxPrice <= (nReserve - totalCost) * MocPrecision
    BY <1>1, <2>1, <2>3, <2>4, CostIsCovered DEF RestType
  <2>6. EnoughForAll'
    BY <1>4, <2>2, <2>5 DEF EnoughForAll, DeleveragingStep
  <2>. QED
    BY <1>1, <1>2, <2>6 DEF BucketInv
<1>5. CASE UNCHANGED vars
  BY <1>1, <1>2, <1>5 DEF BucketInv, EnoughForAll, vars
<1>6. CASE Position \/ LiquidateBucket \/ FinishDeleveraging \/ SettlementReady
  <2>1. settlement' # "Deleveraging"
    BY <1>6 DEF Position, AssignRiskProx, RemoveRiskProx, LiquidateBucket,
                FinishDeleveraging, SettlementReady
  <2>. QED
    BY <1>1, <1>2, <2>1 DEF BucketInv, EnoughForAll
<1>. QED
  BY <1>3, <1>4, <1>5, <1>6 DEF Next, Settle

\* A settlement that has begun can close all its positions: what a step takes from
\* the bucket, at the price frozen when it began and with every rounding, is there.
THEOREM DeleveragingCanFinish == Spec => []DeleveragingNeverReverts
<1>1. Init => BucketInv
  <2>. SUFFICES ASSUME Init PROVE BucketInv
    OBVIOUS
  <2>1. \A u \in Users : holdings[u] = 0
    BY DEF Init, holdings, RiskProxBalanceOf, HasValidBalance
  <2>2. SumFunctionOnSet(holdings, Users) = 0 * Cardinality(Users)
    BY <2>1, SumOfConstant, RiskProxAssumption
  <2>3. TotalIsHeld
    BY <2>2, FS_CardinalityType, RiskProxAssumption DEF Init, TotalIsHeld
  <2>. QED
    BY <2>3, InitOK DEF BucketInv, EnoughForAll, Init
<1>2. BucketInv /\ [Next]_vars => BucketInv'
  BY BucketInductive
<1>3. BucketInv => DeleveragingNeverReverts
  <2>. SUFFICES ASSUME BucketInv, settlement = "Deleveraging", activeBalancesLength > 0
                PROVE  LET user == activeBalances[0]
                           amount == RiskProxBalanceOf(user)
                       IN  CanRemove(user, amount, RiskProResTokensValue(amount, riskProxPrice))
    BY DEF DeleveragingNeverReverts
  <2>. DEFINE user == activeBalances[0]
              amount == RiskProxBalanceOf(user)
  <2>1. TrackerInv /\ RestType /\ TotalIsHeld
    BY IInvParts DEF BucketInv
  <2>2. user \in Users
    BY <2>1, SlotInUse DEF TrackerInv, TrackerType
  <2>3. amount \in Nat
    BY <2>1, <2>2, BalanceIsNat
  <2>4. amount <= nRiskPro
    <3>1. \A u \in Users : holdings[u] \in Nat
      BY HoldingsAreNat DEF BucketInv, HoldingsType
    <3>2. holdings[user] <= SumFunctionOnSet(holdings, Users)
      BY <2>2, <3>1, SumOfNaturals, RiskProxAssumption
    <3>. QED
      BY <2>1, <2>2, <3>2 DEF TotalIsHeld, holdings
  <2>5. nRiskPro * riskProxPrice <= nReserve * MocPrecision
    BY DEF BucketInv, EnoughForAll
  <2>6. RiskProResTokensValue(amount, riskProxPrice) <= nReserve
    BY <2>1, <2>3, <2>4, <2>5, CostIsCovered DEF RestType
  <2>. QED
    BY <2>3, <2>4, <2>6 DEF CanRemove
<1>. QED
  BY <1>1, <1>2, <1>3, PTL DEF Spec

=============================================================================
