-------------------------- MODULE MoCVendors_proofs --------------------------
(***************************************************************************)
(* Proofs about MoCVendors for any accounts, stakes, markups and rates.    *)
(***************************************************************************)
EXTENDS MoCVendors, Sums_proofs

(* ---------------------------------------------------------------------- *)
(* The list.                                                               *)

LEMMA WithoutOK ==
    ASSUME NEW S, NEW list \in Seq(S), NEW i \in DOMAIN list
    PROVE  /\ Without(list, i) \in Seq(S)
           /\ Len(Without(list, i)) = Len(list) - 1
           /\ \A k \in 1 .. Len(list) - 1 :
                 Without(list, i)[k] = IF k = i THEN list[Len(list)] ELSE list[k]
<1> DEFINE moved == [list EXCEPT ![i] = list[Len(list)]]
<1>1. Len(list) \in Nat /\ i \in 1 .. Len(list) /\ Len(list) \in 1 .. Len(list)
  OBVIOUS
<1>2. moved \in Seq(S) /\ Len(moved) = Len(list)
  BY <1>1
<1>3. \A k \in 1 .. Len(list) : moved[k] = IF k = i THEN list[Len(list)] ELSE list[k]
  BY <1>1
<1>. HIDE DEF moved
<1>4. Len(list) - 1 \in 0 .. Len(moved)
  BY <1>1, <1>2
<1>5. /\ SubSeq(moved, 1, Len(list) - 1) \in Seq(S)
      /\ Len(SubSeq(moved, 1, Len(list) - 1)) = Len(list) - 1
      /\ \A k \in 1 .. Len(list) - 1 : SubSeq(moved, 1, Len(list) - 1)[k] = moved[k]
  BY <1>1, <1>2, <1>4
<1>6. \A k \in 1 .. Len(list) - 1 : k \in 1 .. Len(list)
  BY <1>1
<1>. QED
  BY <1>3, <1>5, <1>6 DEF Without, moved

LEMMA Positions ==
    ASSUME NEW n \in Nat, NEW k \in 1 .. n
    PROVE  /\ n \in 1 .. n
           /\ \A i \in 1 .. n - 1 : i \in 1 .. n /\ i # n
           /\ \A i \in 1 .. n : i # n => i \in 1 .. n - 1
OBVIOUS

(* ---------------------------------------------------------------------- *)
(* The fees.                                                               *)

LEMMA QuotientIsNat ==
    ASSUME NEW n \in Nat, NEW m \in Nat, NEW d \in Nat \ {0}
    PROVE  (n * m) \div d \in Nat
<1>1. n * m \in Nat
  OBVIOUS
<1>. QED
  BY <1>1

LEMMA InMoCIsNat ==
    ASSUME NEW n \in Nat
    PROVE  InMoC(n) \in Nat
BY VendorsAssumption DEF InMoC

\* The fees are naturals, and those in MoC are covered by what the user has and
\* allows.
LEMMA FeesCovered ==
    ASSUME TypeOK, NEW vendor \in Accounts \union {NoVendor}, NEW amount \in Amounts
    PROVE  LET fees == CalculateCommissions(vendor, amount)
           IN  /\ fees.mocCommission \in Nat /\ fees.mocMarkup \in Nat
               /\ fees.reserveTokenMarkup \in Nat
               /\ fees.mocCommission + fees.mocMarkup <= userMoC
               /\ fees.mocCommission + fees.mocMarkup <= allowance
<1> DEFINE markup == CalculateVendorMarkup(vendor, amount)
           mocCommission == CalcCommissionValue(amount, MocRate)
<1>1. amount \in Nat /\ MocPrecision \in Nat \ {0} /\ MocRate \in Nat
  BY VendorsAssumption
<1>2. markup \in Nat
  <2>1. CASE vendor = NoVendor
    BY <2>1 DEF CalculateVendorMarkup
  <2>2. CASE vendor # NoVendor
    <3>1. vendors[vendor].markup \in Nat
      BY <2>2 DEF TypeOK, VendorDetails
    <3>. QED
      BY <2>2, <3>1, <1>1, QuotientIsNat DEF CalculateVendorMarkup
  <2>. QED
    BY <2>1, <2>2
<1>3. mocCommission \in Nat
  BY <1>1, QuotientIsNat DEF CalcCommissionValue
<1>. HIDE DEF markup, mocCommission
<1>4. InMoC(mocCommission) \in Nat /\ InMoC(markup) \in Nat
  BY <1>2, <1>3, InMoCIsNat
<1>5. userMoC \in Nat /\ allowance \in Nat
  BY DEF TypeOK
<1> DEFINE total == InMoC(mocCommission) + InMoC(markup)
           inMoC == /\ allowance # 0 /\ userMoC # 0
                    /\ userMoC >= total /\ allowance >= total
                    /\ mocCommission # 0
<1>6. CalculateCommissions(vendor, amount) =
         IF inMoC
         THEN [mocCommission |-> InMoC(mocCommission), mocMarkup |-> InMoC(markup),
               reserveTokenCommission |-> 0, reserveTokenMarkup |-> 0]
         ELSE [mocCommission |-> 0, mocMarkup |-> 0,
               reserveTokenCommission |-> CalcCommissionValue(amount, ReserveRate),
               reserveTokenMarkup |-> markup]
  BY DEF CalculateCommissions, markup, mocCommission
<1>7. CASE inMoC
  BY <1>4, <1>5, <1>6, <1>7
<1>8. CASE ~inMoC
  BY <1>2, <1>5, <1>6, <1>8
<1>. QED
  BY <1>7, <1>8

(* ---------------------------------------------------------------------- *)
(* The inductive invariant.  Stakes and totals are compared with their     *)
(* histories; an inactive vendor keeps both.                               *)

HistoryInv ==
    \A a \in Accounts :
        /\ vendors[a].staking <= highestStake[a]
        /\ paidInMoC[a] <= vendors[a].totalPaidInMoC
        /\ paidInMoC[a] <= highestStake[a]

IInv == TypeOK /\ ListIsActive /\ HistoryInv

LEMMA InitOK == Init => IInv
<1>. SUFFICES ASSUME Init PROVE IInv
  OBVIOUS
<1>1. TypeOK
  BY VendorsAssumption DEF Init, TypeOK, VendorDetails
<1>2. ListIsActive
  BY VendorsAssumption DEF Init, ListIsActive
<1>3. HistoryInv
  BY DEF Init, HistoryInv
<1>. QED
  BY <1>1, <1>2, <1>3 DEF IInv

\* What does not touch the list nor who is active leaves the list right.
LEMMA ListUntouched ==
    ASSUME ListIsActive, UNCHANGED vendorsList,
           \A a \in Accounts : vendors'[a].isActive <=> vendors[a].isActive
    PROVE  ListIsActive'
BY DEF ListIsActive

LEMMA RegisterOK ==
    ASSUME IInv, NEW a \in Accounts, NEW markup \in Markups, RegisterVendor(a, markup)
    PROVE  IInv'
<1>1. /\ markup \in Nat
      /\ vendors' = [vendors EXCEPT ![a].isActive = TRUE, ![a].markup = markup]
      /\ UNCHANGED <<wallet, vault, feeVars, history>>
  BY VendorsAssumption DEF RegisterVendor
<1>2. /\ vendors' \in [Accounts -> VendorDetails]
      /\ vendors'[a].isActive
      /\ \A b \in Accounts : /\ vendors'[b].staking = vendors[b].staking
                             /\ vendors'[b].totalPaidInMoC = vendors[b].totalPaidInMoC
                             /\ b # a => vendors'[b].isActive = vendors[b].isActive
  BY <1>1 DEF IInv, TypeOK, VendorDetails
<1>3. HistoryInv'
  BY <1>1, <1>2 DEF IInv, HistoryInv, history
<1>4. CASE ~vendors[a].isActive /\ Len(vendorsList) < VENDORS_LIST_ARRAY_MAX_LENGTH
           /\ vendorsList' = Append(vendorsList, a)
  <2> DEFINE n == Len(vendorsList)
  <2>1. /\ n \in Nat /\ vendorsList \in Seq(Accounts) /\ vendorsList' \in Seq(Accounts)
        /\ Len(vendorsList') = n + 1
        /\ vendorsList'[n + 1] = a
        /\ \A i \in 1 .. n : vendorsList'[i] = vendorsList[i]
        /\ DOMAIN vendorsList = 1 .. n /\ DOMAIN vendorsList' = 1 .. n + 1
    BY <1>4 DEF IInv, TypeOK
  <2>2. \A i \in 1 .. n : vendorsList[i] # a
    BY <1>4, <2>1 DEF IInv, ListIsActive
  <2>3. n + 1 <= VENDORS_LIST_ARRAY_MAX_LENGTH
    BY <1>4, <2>1, VendorsAssumption
  <2>4. ASSUME NEW i \in 1 .. n + 1, NEW j \in 1 .. n + 1, vendorsList'[i] = vendorsList'[j]
        PROVE  i = j
    <3>1. CASE i \in 1 .. n /\ j \in 1 .. n
      BY <3>1, <2>1, <2>4 DEF IInv, ListIsActive
    <3>2. CASE i = n + 1 \/ j = n + 1
      BY <3>2, <2>1, <2>2, <2>4
    <3>. QED
      BY <3>1, <3>2, <2>1
  <2>5. ASSUME NEW b \in Accounts
        PROVE  vendors'[b].isActive <=> \E i \in 1 .. n + 1 : vendorsList'[i] = b
    <3>1. CASE b = a
      BY <3>1, <1>2, <2>1
    <3>2. CASE b # a
      <4>1. vendors[b].isActive <=> \E i \in 1 .. n : vendorsList[i] = b
        BY <2>1 DEF IInv, ListIsActive
      <4>. QED
        BY <3>2, <4>1, <1>2, <2>1
    <3>. QED
      BY <3>1, <3>2
  <2>6. ListIsActive'
    BY <2>1, <2>3, <2>4, <2>5 DEF ListIsActive
  <2>7. TypeOK'
    BY <1>1, <1>2, <2>1 DEF IInv, TypeOK, feeVars, history
  <2>. QED
    BY <1>3, <2>6, <2>7 DEF IInv
<1>5. CASE vendors[a].isActive /\ UNCHANGED vendorsList
  <2>1. \A b \in Accounts : vendors'[b].isActive <=> vendors[b].isActive
    BY <1>2, <1>5
  <2>3. ListIsActive'
    BY <1>5, <2>1, ListUntouched DEF IInv
  <2>2. TypeOK'
    BY <1>1, <1>2, <1>5 DEF IInv, TypeOK, feeVars, history
  <2>. QED
    BY <1>3, <2>2, <2>3 DEF IInv
<1>. QED
  BY <1>4, <1>5 DEF RegisterVendor

LEMMA UnregisterOK ==
    ASSUME IInv, NEW a \in Accounts, UnregisterVendor(a)
    PROVE  IInv'
<1> DEFINE n == Len(vendorsList)
<1>1. PICK k \in DOMAIN vendorsList :
          /\ vendorsList[k] = a
          /\ vendors' = [vendors EXCEPT ![a].isActive = FALSE]
          /\ vendorsList' = Without(vendorsList, k)
          /\ UNCHANGED <<wallet, vault, feeVars, history>>
  BY DEF UnregisterVendor
<1>2. /\ vendors' \in [Accounts -> VendorDetails]
      /\ ~vendors'[a].isActive
      /\ \A b \in Accounts : /\ vendors'[b].staking = vendors[b].staking
                             /\ vendors'[b].totalPaidInMoC = vendors[b].totalPaidInMoC
                             /\ b # a => vendors'[b].isActive = vendors[b].isActive
  BY <1>1 DEF IInv, TypeOK, VendorDetails
<1>3. vendorsList \in Seq(Accounts) /\ n \in Nat /\ DOMAIN vendorsList = 1 .. n /\ k \in 1 .. n
  BY DEF IInv, TypeOK
<1>. n \in 1 .. n /\ (\A i \in 1 .. n - 1 : i \in 1 .. n /\ i # n)
      /\ (\A i \in 1 .. n : i # n => i \in 1 .. n - 1)
  BY <1>3, Positions
<1>4. /\ vendorsList' \in Seq(Accounts)
      /\ Len(vendorsList') = n - 1
      /\ \A i \in 1 .. n - 1 :
            vendorsList'[i] = IF i = k THEN vendorsList[n] ELSE vendorsList[i]
  BY <1>1, <1>3, WithoutOK
<1>5. DOMAIN vendorsList' = 1 .. n - 1
  BY <1>4
<1>6. \A i, j \in 1 .. n : vendorsList[i] = vendorsList[j] => i = j
  BY <1>3 DEF IInv, ListIsActive
<1>7. n - 1 <= VENDORS_LIST_ARRAY_MAX_LENGTH
  <2>1. n <= VENDORS_LIST_ARRAY_MAX_LENGTH /\ VENDORS_LIST_ARRAY_MAX_LENGTH \in Nat
    BY VendorsAssumption DEF IInv, ListIsActive
  <2>. HIDE DEF n
  <2>. QED
    BY <2>1, <1>3
<1>8. ASSUME NEW i \in 1 .. n - 1, NEW j \in 1 .. n - 1, vendorsList'[i] = vendorsList'[j]
      PROVE  i = j
  <2>1. i \in 1 .. n /\ j \in 1 .. n /\ i # n /\ j # n
    OBVIOUS
  <2>. QED
    BY <2>1, <1>4, <1>6, <1>8
<1>9. ASSUME NEW b \in Accounts
      PROVE  vendors'[b].isActive <=> \E i \in 1 .. n - 1 : vendorsList'[i] = b
  <2>2. CASE b = a
    <3>1. ASSUME NEW i \in 1 .. n - 1 PROVE vendorsList'[i] # a
      <4>1. CASE i = k
        <5>1. n # k
          BY <4>1
        <5>. QED
          BY <4>1, <5>1, <1>1, <1>3, <1>4, <1>6
      <4>2. CASE i # k
        BY <4>2, <1>1, <1>3, <1>4, <1>6
      <4>. QED
        BY <4>1, <4>2
    <3>. QED
      BY <2>2, <3>1, <1>2
  <2>3. CASE b # a
    <3>1. vendors[b].isActive <=> \E i \in 1 .. n : vendorsList[i] = b
      BY <1>3 DEF IInv, ListIsActive
    <3>2. ASSUME NEW i \in 1 .. n, vendorsList[i] = b
          PROVE  \E j \in 1 .. n - 1 : vendorsList'[j] = b
      <4>1. i # k
        BY <3>2, <2>3, <1>1
      <4>2. CASE i = n
        <5>1. k \in 1 .. n - 1 /\ vendorsList'[k] = vendorsList[n]
          BY <4>1, <4>2, <1>3, <1>4
        <5>. QED
          BY <4>2, <5>1, <3>2
      <4>3. CASE i # n
        <5>1. i \in 1 .. n - 1
          BY <4>3
        <5>. QED
          BY <4>1, <5>1, <3>2, <1>4
      <4>. QED
        BY <4>2, <4>3
    <3>3. ASSUME NEW j \in 1 .. n - 1, vendorsList'[j] = b
          PROVE  \E i \in 1 .. n : vendorsList[i] = b
      <4>1. j \in 1 .. n
        OBVIOUS
      <4>. QED
        BY <4>1, <3>3, <1>4
    <3>. QED
      BY <2>3, <3>1, <3>2, <3>3, <1>2
  <2>. QED
    BY <2>2, <2>3
<1>10. ListIsActive'
  BY <1>4, <1>5, <1>7, <1>8, <1>9 DEF ListIsActive
<1>11. TypeOK'
  BY <1>1, <1>2, <1>4 DEF IInv, TypeOK, feeVars, history
<1>12. HistoryInv'
  BY <1>1, <1>2 DEF IInv, HistoryInv, history
<1>. QED
  BY <1>10, <1>11, <1>12 DEF IInv
LEMMA AddStakeOK ==
    ASSUME IInv, NEW a \in Accounts, NEW staking \in Stakes, AddStake(a, staking)
    PROVE  IInv'
<1>1. /\ staking \in Nat /\ wallet[a] \in Nat /\ staking <= wallet[a]
      /\ vendors[a] \in VendorDetails /\ vault \in Nat
      /\ highestStake[a] \in Nat
  BY VendorsAssumption DEF AddStake, IInv, TypeOK
<1>2. /\ vendors' = [vendors EXCEPT ![a].staking = @ + staking]
      /\ wallet' = [wallet EXCEPT ![a] = @ - staking]
      /\ vault' = vault + staking
      /\ highestStake' = [highestStake EXCEPT ![a] = Larger(@, vendors'[a].staking)]
      /\ UNCHANGED <<vendorsList, feeVars, paidInMoC>>
  BY DEF AddStake
<1>2a. vendors[a].staking + staking \in Nat
  BY <1>1 DEF VendorDetails
<1>3. /\ vendors' \in [Accounts -> VendorDetails]
      /\ vendors'[a].staking = vendors[a].staking + staking
      /\ \A b \in Accounts : /\ vendors'[b].isActive <=> vendors[b].isActive
                             /\ vendors'[b].totalPaidInMoC = vendors[b].totalPaidInMoC
                             /\ b # a => vendors'[b].staking = vendors[b].staking
  BY <1>1, <1>2, <1>2a DEF IInv, TypeOK, VendorDetails
<1>4. vendors'[a].staking \in Nat
  BY <1>3 DEF VendorDetails
<1>5. /\ highestStake'[a] \in Nat
      /\ highestStake'[a] >= highestStake[a] /\ highestStake'[a] >= vendors'[a].staking
      /\ highestStake' \in [Accounts -> Nat]
      /\ \A b \in Accounts : b # a => highestStake'[b] = highestStake[b]
  <2>1. Larger(highestStake[a], vendors'[a].staking) \in Nat
        /\ Larger(highestStake[a], vendors'[a].staking) >= highestStake[a]
        /\ Larger(highestStake[a], vendors'[a].staking) >= vendors'[a].staking
    BY <1>1, <1>4 DEF Larger
  <2>2. highestStake \in [Accounts -> Nat]
    BY DEF IInv, TypeOK
  <2>. QED
    BY <2>1, <2>2, <1>2
<1>6. TypeOK'
  <2>1. wallet[a] - staking \in Nat /\ vault + staking \in Nat
    BY <1>1
  <2>2. wallet' \in [Accounts -> Nat] /\ vault' \in Nat
    BY <1>2, <2>1 DEF IInv, TypeOK
  <2>. QED
    BY <1>2, <1>3, <1>5, <2>2 DEF IInv, TypeOK, feeVars
<1>7. ListIsActive'
  BY <1>2, <1>3, ListUntouched DEF IInv
<1>8. HistoryInv'
  <2>. SUFFICES ASSUME NEW b \in Accounts
                PROVE  /\ vendors'[b].staking <= highestStake'[b]
                       /\ paidInMoC[b] <= vendors'[b].totalPaidInMoC
                       /\ paidInMoC[b] <= highestStake'[b]
    BY <1>2 DEF HistoryInv
  <2>1. /\ vendors[b].staking <= highestStake[b]
        /\ paidInMoC[b] <= vendors[b].totalPaidInMoC
        /\ paidInMoC[b] <= highestStake[b]
        /\ paidInMoC[b] \in Nat
    BY DEF IInv, HistoryInv, TypeOK
  <2>2. CASE b = a
    BY <2>1, <2>2, <1>1, <1>3, <1>5
  <2>3. CASE b # a
    BY <2>1, <2>3, <1>3, <1>5
  <2>. QED
    BY <2>2, <2>3
<1>. QED
  BY <1>6, <1>7, <1>8 DEF IInv

LEMMA RemoveStakeOK ==
    ASSUME IInv, NEW a \in Accounts, NEW staking \in Stakes, RemoveStake(a, staking)
    PROVE  IInv'
<1>1. /\ staking \in Nat /\ wallet[a] \in Nat /\ vault \in Nat /\ vendors[a].staking \in Nat
      /\ staking <= vault /\ staking <= vendors[a].staking
  BY VendorsAssumption DEF RemoveStake, IInv, TypeOK, VendorDetails
<1>2. /\ vendors' = [vendors EXCEPT ![a].staking = @ - staking]
      /\ wallet' = [wallet EXCEPT ![a] = @ + staking]
      /\ vault' = vault - staking
      /\ UNCHANGED <<vendorsList, feeVars, history>>
  BY DEF RemoveStake
<1>3. vendors[a].staking - staking \in Nat /\ vendors[a].staking - staking <= vendors[a].staking
  BY <1>1
<1>4. /\ vendors' \in [Accounts -> VendorDetails]
      /\ vendors'[a].staking = vendors[a].staking - staking
      /\ \A b \in Accounts : /\ vendors'[b].isActive <=> vendors[b].isActive
                             /\ vendors'[b].totalPaidInMoC = vendors[b].totalPaidInMoC
                             /\ b # a => vendors'[b].staking = vendors[b].staking
  BY <1>2, <1>3 DEF IInv, TypeOK, VendorDetails
<1>5. TypeOK'
  <2>1. wallet[a] + staking \in Nat /\ vault - staking \in Nat
    BY <1>1
  <2>2. wallet' \in [Accounts -> Nat] /\ vault' \in Nat
    BY <1>2, <2>1 DEF IInv, TypeOK
  <2>. QED
    BY <1>2, <1>4, <2>2 DEF IInv, TypeOK, feeVars, history
<1>6. ListIsActive'
  BY <1>2, <1>4, ListUntouched DEF IInv
<1>7. HistoryInv'
  <2>. SUFFICES ASSUME NEW b \in Accounts
                PROVE  /\ vendors'[b].staking <= highestStake[b]
                       /\ paidInMoC[b] <= vendors'[b].totalPaidInMoC
                       /\ paidInMoC[b] <= highestStake[b]
    BY <1>2 DEF HistoryInv, history
  <2>1. /\ vendors[b].staking <= highestStake[b]
        /\ paidInMoC[b] <= vendors[b].totalPaidInMoC
        /\ paidInMoC[b] <= highestStake[b]
        /\ highestStake[b] \in Nat
    BY DEF IInv, HistoryInv, TypeOK
  <2>2. CASE b = a
    BY <2>1, <2>2, <1>1, <1>3, <1>4
  <2>3. CASE b # a
    BY <2>1, <2>3, <1>4
  <2>. QED
    BY <2>2, <2>3
<1>. QED
  BY <1>5, <1>6, <1>7 DEF IInv

\* What an operation pays a vendor, in MoC or in reserve tokens.
LEMMA PaidOK ==
    ASSUME IInv, NEW a \in Accounts, NEW mocAmount \in Nat, NEW counted \in Nat,
           PaidMarkupFits(a, mocAmount), mocAmount <= counted,
           vendors' = [vendors EXCEPT ![a].totalPaidInMoC = @ + counted],
           paidInMoC' = [paidInMoC EXCEPT ![a] = @ + mocAmount],
           UNCHANGED <<vendorsList, highestStake>>
    PROVE  /\ vendors' \in [Accounts -> VendorDetails]
           /\ paidInMoC' \in [Accounts -> Nat]
           /\ ListIsActive' /\ HistoryInv'
<1>1. /\ vendors[a].totalPaidInMoC \in Nat /\ vendors[a].staking \in Nat
      /\ paidInMoC[a] \in Nat /\ highestStake[a] \in Nat
      /\ vendors[a].totalPaidInMoC + mocAmount <= vendors[a].staking
      /\ vendors[a].staking <= highestStake[a]
      /\ paidInMoC[a] <= vendors[a].totalPaidInMoC
  BY DEF IInv, TypeOK, VendorDetails, HistoryInv, PaidMarkupFits
<1>2. vendors[a].totalPaidInMoC + counted \in Nat /\ paidInMoC[a] + mocAmount \in Nat
  BY <1>1
<1>3. /\ vendors' \in [Accounts -> VendorDetails]
      /\ vendors'[a].totalPaidInMoC = vendors[a].totalPaidInMoC + counted
      /\ \A b \in Accounts : /\ vendors'[b].isActive <=> vendors[b].isActive
                             /\ vendors'[b].staking = vendors[b].staking
                             /\ b # a => vendors'[b].totalPaidInMoC = vendors[b].totalPaidInMoC
  BY <1>2 DEF IInv, TypeOK, VendorDetails
<1>4. /\ paidInMoC' \in [Accounts -> Nat]
      /\ paidInMoC'[a] = paidInMoC[a] + mocAmount
      /\ \A b \in Accounts : b # a => paidInMoC'[b] = paidInMoC[b]
  BY <1>2 DEF IInv, TypeOK
<1>5. ListIsActive'
  BY <1>3, ListUntouched DEF IInv
<1>6. HistoryInv'
  <2>. SUFFICES ASSUME NEW b \in Accounts
                PROVE  /\ vendors'[b].staking <= highestStake[b]
                       /\ paidInMoC'[b] <= vendors'[b].totalPaidInMoC
                       /\ paidInMoC'[b] <= highestStake[b]
    BY DEF HistoryInv
  <2>1. CASE b = a
    <3>1. /\ paidInMoC[a] + mocAmount <= vendors[a].totalPaidInMoC + counted
          /\ paidInMoC[a] + mocAmount <= highestStake[a]
      BY <1>1
    <3>. QED
      BY <2>1, <3>1, <1>1, <1>3, <1>4
  <2>2. CASE b # a
    BY <2>2, <1>3, <1>4 DEF IInv, HistoryInv
  <2>. QED
    BY <2>1, <2>2
<1>. QED
  BY <1>3, <1>4, <1>5, <1>6

LEMMA OperationOK ==
    ASSUME IInv, NEW vendor \in Accounts \union {NoVendor}, NEW amount \in Amounts,
           Operation(vendor, amount)
    PROVE  IInv'
<1>. DEFINE fees == CalculateCommissions(vendor, amount)
            c == fees.mocCommission
            m == fees.mocMarkup
            r == fees.reserveTokenMarkup
<1>1. /\ c \in Nat /\ m \in Nat /\ r \in Nat
      /\ c + m <= userMoC /\ c + m <= allowance
  BY FeesCovered DEF IInv
<1>2. UNCHANGED <<vendorsList, vault, highestStake>>
  BY DEF Operation
<1>3. TransferMocCommission(vendor, c, m)
      \/ TransferReserveTokenCommission(vendor, fees.reserveTokenCommission, r)
  BY DEF Operation
<1>4. userMoC \in Nat /\ allowance \in Nat /\ commissions \in Nat
  BY DEF IInv, TypeOK
<1>. HIDE DEF fees, c, m, r
<1>5. CASE TransferMocCommission(vendor, c, m)
  <2>1. /\ userMoC' = userMoC - c - m /\ allowance' = allowance - c - m
        /\ commissions' = commissions + c + m \/ commissions' = commissions + c + 0
    BY <1>5 DEF TransferMocCommission
  <2>2. userMoC - c - m \in Nat /\ allowance - c - m \in Nat
        /\ commissions + c + m \in Nat /\ commissions + c + 0 \in Nat
    BY <1>1, <1>4
  <2>3. userMoC' \in Nat /\ allowance' \in Nat /\ commissions' \in Nat
    BY <2>1, <2>2
  <2>4. CASE PaidMarkupFits(vendor, m)
    <3>1. /\ vendors' = [vendors EXCEPT ![vendor].totalPaidInMoC = @ + m]
          /\ wallet' = [wallet EXCEPT ![vendor] = @ + m]
          /\ paidInMoC' = [paidInMoC EXCEPT ![vendor] = @ + m]
      BY <1>5, <2>4 DEF TransferMocCommission
    <3>2. vendor \in Accounts
      BY <2>4 DEF PaidMarkupFits
    <3>3. /\ vendors' \in [Accounts -> VendorDetails] /\ paidInMoC' \in [Accounts -> Nat]
          /\ ListIsActive' /\ HistoryInv'
      <4>1. m <= m /\ m \in Nat
        BY <1>1
      <4>. QED
        BY <4>1, <1>2, <2>4, <3>1, <3>2, PaidOK
    <3>4. wallet' \in [Accounts -> Nat]
      BY <1>1, <3>1, <3>2 DEF IInv, TypeOK
    <3>. QED
      BY <1>2, <2>3, <3>3, <3>4 DEF IInv, TypeOK
  <2>5. CASE ~PaidMarkupFits(vendor, m)
    <3>1. UNCHANGED <<vendors, wallet, paidInMoC>>
      BY <1>5, <2>5 DEF TransferMocCommission
    <3>2. ListIsActive'
      BY <1>2, <3>1, ListUntouched DEF IInv
    <3>. QED
      BY <1>2, <2>3, <3>1, <3>2 DEF IInv, TypeOK, HistoryInv
  <2>. QED
    BY <2>4, <2>5
<1>6. CASE TransferReserveTokenCommission(vendor, fees.reserveTokenCommission, r)
  <2>1. /\ PaidMarkupFits(vendor, 0) /\ vendor \in Accounts
        /\ vendors' = [vendors EXCEPT ![vendor].totalPaidInMoC = @ + InMoC(r)]
        /\ UNCHANGED <<wallet, feeVars, paidInMoC>>
    BY <1>6 DEF TransferReserveTokenCommission, PaidMarkupFits
  <2>2. InMoC(r) \in Nat /\ 0 <= InMoC(r)
    BY <1>1, InMoCIsNat
  <2>3. paidInMoC' = [paidInMoC EXCEPT ![vendor] = @ + 0]
    BY <2>1 DEF IInv, TypeOK
  <2>4. /\ vendors' \in [Accounts -> VendorDetails]
        /\ ListIsActive' /\ HistoryInv'
    BY <1>2, <2>1, <2>2, <2>3, PaidOK
  <2>. QED
    BY <1>2, <2>1, <2>4 DEF IInv, TypeOK, feeVars
<1>. QED
  BY <1>3, <1>5, <1>6

LEMMA ResetOK ==
    ASSUME IInv, ResetTotalPaidInMoC
    PROVE  IInv'
<1>1. PICK reset \in SUBSET Accounts :
          /\ vendors' = [a \in Accounts |->
                 IF a \in reset THEN [vendors[a] EXCEPT !.totalPaidInMoC = 0] ELSE vendors[a]]
          /\ paidInMoC' = [a \in Accounts |-> IF a \in reset THEN 0 ELSE paidInMoC[a]]
          /\ highestStake' = [a \in Accounts |->
                 IF a \in reset THEN vendors[a].staking ELSE highestStake[a]]
          /\ UNCHANGED <<vendorsList, wallet, vault, feeVars>>
  BY DEF ResetTotalPaidInMoC
<1>2. /\ vendors' \in [Accounts -> VendorDetails]
      /\ \A a \in Accounts :
            /\ vendors'[a].isActive <=> vendors[a].isActive
            /\ vendors'[a].staking = vendors[a].staking
            /\ a \notin reset => vendors'[a].totalPaidInMoC = vendors[a].totalPaidInMoC
            /\ a \in reset => vendors'[a].totalPaidInMoC = 0
  BY <1>1 DEF IInv, TypeOK, VendorDetails
<1>3. paidInMoC' \in [Accounts -> Nat] /\ highestStake' \in [Accounts -> Nat]
  BY <1>1 DEF IInv, TypeOK, VendorDetails
<1>4. ListIsActive'
  BY <1>1, <1>2, ListUntouched DEF IInv
<1>5. HistoryInv'
  <2>. SUFFICES ASSUME NEW a \in Accounts
                PROVE  /\ vendors'[a].staking <= highestStake'[a]
                       /\ paidInMoC'[a] <= vendors'[a].totalPaidInMoC
                       /\ paidInMoC'[a] <= highestStake'[a]
    BY DEF HistoryInv
  <2>1. vendors[a].staking \in Nat
    BY DEF IInv, TypeOK, VendorDetails
  <2>2. CASE a \in reset
    <3>1. /\ vendors'[a].staking = vendors[a].staking
          /\ vendors'[a].totalPaidInMoC = 0
      BY <2>2, <1>2
    <3>2. highestStake'[a] = vendors[a].staking /\ paidInMoC'[a] = 0
      BY <2>2, <1>1
    <3>. QED
      BY <2>1, <3>1, <3>2
  <2>3. CASE a \notin reset
    <3>1. /\ vendors[a].staking <= highestStake[a]
          /\ paidInMoC[a] <= vendors[a].totalPaidInMoC
          /\ paidInMoC[a] <= highestStake[a]
      BY DEF IInv, HistoryInv
    <3>2. highestStake'[a] = highestStake[a] /\ paidInMoC'[a] = paidInMoC[a]
      BY <2>3, <1>1
    <3>3. /\ vendors'[a].staking = vendors[a].staking
          /\ vendors'[a].totalPaidInMoC = vendors[a].totalPaidInMoC
      BY <2>3, <1>2
    <3>. QED
      BY <3>1, <3>2, <3>3
  <2>. QED
    BY <2>2, <2>3
<1>. QED
  BY <1>1, <1>2, <1>3, <1>4, <1>5 DEF IInv, TypeOK, feeVars

LEMMA StepPreserves ==
    ASSUME IInv, [Next]_vars
    PROVE  IInv'
<1>1. ASSUME NEW amount \in Allowances, Approve(amount) PROVE IInv'
  <2>1. ListIsActive'
    BY <1>1, ListUntouched DEF IInv, Approve
  <2>. QED
    BY <1>1, <2>1, VendorsAssumption DEF Approve, IInv, TypeOK, HistoryInv, history
<1>2. CASE UNCHANGED vars
  <2>1. ListIsActive'
    BY <1>2, ListUntouched DEF IInv, vars
  <2>. QED
    BY <1>2, <2>1 DEF vars, IInv, TypeOK, HistoryInv, feeVars, history
<1>. QED
  BY <1>1, <1>2, RegisterOK, UnregisterOK, AddStakeOK, RemoveStakeOK, OperationOK, ResetOK
     DEF Next, Guardian, Vendor, Users

LEMMA Inductive == Spec => []IInv
BY InitOK, StepPreserves, PTL DEF Spec

(* ---------------------------------------------------------------------- *)
(* The theorems.                                                           *)

\* Every variable keeps its type: what CalculateCommissions charges in MoC is
\* always covered by the balance and the allowance of the user, and removeStake by
\* the MoC that the contract holds.
THEOREM VendorsTypeCorrect == Spec => []TypeOK
BY Inductive, PTL DEF IInv

\* The swap and delete of unregisterVendor keeps vendorsList the list of the active
\* vendors, each once.
THEOREM ListAlwaysActive == Spec => []ListIsActive
BY Inductive, PTL DEF IInv

\* updatePaidMarkup keeps the MoC paid to a vendor between two resets within the
\* highest stake it had in between.
THEOREM MarkupAlwaysWithinStake == Spec => []MarkupWithinStake
<1>1. IInv => MarkupWithinStake
  BY DEF IInv, HistoryInv, MarkupWithinStake
<1>. QED
  BY <1>1, Inductive, PTL

(* ---------------------------------------------------------------------- *)
(* The MoC.  What a step does to one stake or one wallet it does to the    *)
(* sum, and the rest of the step has to make up for it.                    *)

stakes == [a \in Accounts |-> vendors[a].staking]

StakesType == stakes \in [Accounts -> Nat]

LEMMA StakesAreNat == TypeOK => StakesType
<1>1. ASSUME TypeOK, NEW a \in Accounts PROVE vendors[a].staking \in Nat
  BY <1>1 DEF TypeOK, VendorDetails
<1>. QED
  BY <1>1 DEF StakesType, stakes

LEMMA SumsAreIntegers ==
    ASSUME TypeOK
    PROVE  SumFunction(stakes) \in Int /\ SumFunction(wallet) \in Int
<1>1. /\ \A a \in Accounts : stakes[a] \in Int /\ wallet[a] \in Int
      /\ DOMAIN stakes = Accounts /\ DOMAIN wallet = Accounts
  BY StakesAreNat DEF StakesType, TypeOK
<1>. QED
  BY <1>1, SumIsInteger, VendorsAssumption DEF SumFunction

LEMMA StakeChanges ==
    ASSUME TypeOK, TypeOK', NEW a \in Accounts,
           \A b \in Accounts \ {a} : vendors'[b].staking = vendors[b].staking
    PROVE  SumFunction(stakes') =
             SumFunction(stakes) + vendors'[a].staking - vendors[a].staking
<1>1. /\ \A b \in Accounts : stakes[b] \in Int /\ stakes'[b] \in Int
      /\ DOMAIN stakes = Accounts /\ DOMAIN stakes' = Accounts
  <2>1. StakesType /\ StakesType'
    BY StakesAreNat, PTL
  <2>. QED
    BY <2>1 DEF StakesType
<1>2. \A b \in Accounts \ {a} : stakes[b] = stakes'[b]
  BY DEF stakes
<1>3. SumFunctionOnSet(stakes', Accounts) =
        SumFunctionOnSet(stakes, Accounts) + stakes'[a] - stakes[a]
  BY <1>1, <1>2, SumOfChanged, VendorsAssumption
<1>4. stakes'[a] = vendors'[a].staking /\ stakes[a] = vendors[a].staking
  BY DEF stakes
<1>. QED
  BY <1>1, <1>3, <1>4 DEF SumFunction

LEMMA StakesUntouched ==
    ASSUME \A b \in Accounts : vendors'[b].staking = vendors[b].staking
    PROVE  SumFunction(stakes') = SumFunction(stakes)
BY DEF stakes

LEMMA WalletChanges ==
    ASSUME TypeOK, TypeOK', NEW a \in Accounts,
           \A b \in Accounts \ {a} : wallet'[b] = wallet[b]
    PROVE  SumFunction(wallet') = SumFunction(wallet) + wallet'[a] - wallet[a]
<1>1. /\ \A b \in Accounts : wallet[b] \in Int /\ wallet'[b] \in Int
      /\ DOMAIN wallet = Accounts /\ DOMAIN wallet' = Accounts
  BY DEF TypeOK
<1>2. SumFunctionOnSet(wallet', Accounts) =
        SumFunctionOnSet(wallet, Accounts) + wallet'[a] - wallet[a]
  BY <1>1, SumOfChanged, VendorsAssumption
<1>. QED
  BY <1>1, <1>2 DEF SumFunction

LEMMA ChangedElsewhere ==
    ASSUME NEW w, w \in [Accounts -> VendorDetails], NEW a, NEW b \in Accounts
    PROVE  /\ \A m : [w EXCEPT ![a].totalPaidInMoC = m][b].staking = w[b].staking
           /\ [w EXCEPT ![a].isActive = FALSE][b].staking = w[b].staking
BY DEF VendorDetails

\* The vault changes as the stakes, the MoC elsewhere as the wallets.
Accounted(stakeSum, walletSum) ==
    /\ vault = stakeSum
    /\ userMoC + commissions + vault + walletSum
         = UserSupply + VendorSupply * Cardinality(Accounts)

LEMMA AccountedParts == MoCAccounted <=> Accounted(SumFunction(stakes), SumFunction(wallet))
BY DEF MoCAccounted, Accounted, stakes

LEMMA StakingAccounted ==
    ASSUME TypeOK, TypeOK', MoCAccounted, NEW a \in Accounts, NEW staking \in Stakes,
           AddStake(a, staking) \/ RemoveStake(a, staking)
    PROVE  MoCAccounted'
<1>1. PICK change \in Int :
         /\ vendors' = [vendors EXCEPT ![a].staking = @ + change]
         /\ wallet' = [wallet EXCEPT ![a] = @ - change]
         /\ vault' = vault + change
  <2>1. staking \in Int /\ 0 - staking \in Int
    BY VendorsAssumption
  <2>2. CASE AddStake(a, staking)
    BY <2>1, <2>2 DEF AddStake
  <2>3. CASE RemoveStake(a, staking)
    <3>1. vendors[a].staking - staking = vendors[a].staking + (0 - staking)
      <4>1. vendors[a].staking \in Int
        BY DEF TypeOK, VendorDetails
      <4>. QED
        BY <2>1, <4>1
    <3>2. wallet[a] + staking = wallet[a] - (0 - staking) /\ vault - staking = vault + (0 - staking)
      BY <2>1 DEF TypeOK
    <3>. QED
      BY <2>1, <2>3, <3>1, <3>2 DEF RemoveStake
  <2>. QED
    BY <2>2, <2>3
<1>2. UNCHANGED <<userMoC, commissions>>
  BY DEF AddStake, RemoveStake, feeVars
<1>3. /\ vendors'[a].staking = vendors[a].staking + change
      /\ \A b \in Accounts \ {a} : vendors'[b].staking = vendors[b].staking
      /\ wallet'[a] = wallet[a] - change
      /\ \A b \in Accounts \ {a} : wallet'[b] = wallet[b]
  BY <1>1 DEF TypeOK, VendorDetails
<1>4. /\ SumFunction(stakes') = SumFunction(stakes) + vendors'[a].staking - vendors[a].staking
      /\ SumFunction(wallet') = SumFunction(wallet) + wallet'[a] - wallet[a]
  BY <1>3, StakeChanges, WalletChanges
<1>5. /\ SumFunction(stakes) \in Int /\ SumFunction(wallet) \in Int
      /\ vendors[a].staking \in Int /\ wallet[a] \in Int
      /\ vault \in Int /\ userMoC \in Int /\ commissions \in Int
  <2>1. vendors[a].staking \in Int
    BY DEF TypeOK, VendorDetails
  <2>. QED
    BY <2>1, SumsAreIntegers DEF TypeOK
<1>6. /\ SumFunction(stakes') = SumFunction(stakes) + change
      /\ SumFunction(wallet') = SumFunction(wallet) - change
  BY <1>3, <1>4, <1>5
<1>7. vault' = SumFunction(stakes')
  BY <1>1, <1>6, AccountedParts DEF Accounted
<1>8. userMoC' + commissions' + vault' + SumFunction(wallet')
        = userMoC + commissions + vault + SumFunction(wallet)
  BY <1>1, <1>2, <1>5, <1>6
<1>. QED
  BY <1>7, <1>8 DEF MoCAccounted, stakes

LEMMA OperationAccounted ==
    ASSUME TypeOK, TypeOK', MoCAccounted,
           NEW vendor \in Accounts \union {NoVendor}, NEW amount \in Amounts,
           Operation(vendor, amount)
    PROVE  MoCAccounted'
<1>. DEFINE fees == CalculateCommissions(vendor, amount)
<1>1. fees.mocCommission \in Nat /\ fees.mocMarkup \in Nat
  BY FeesCovered
<1>. HIDE DEF fees
<1>2. vault' = vault /\ (\A b \in Accounts : vendors'[b].staking = vendors[b].staking)
  <2>1. \/ vendors' = vendors
        \/ \E m : vendors' = [vendors EXCEPT ![vendor].totalPaidInMoC = m]
    BY DEF Operation, TransferMocCommission, TransferReserveTokenCommission
  <2>2. ASSUME NEW b \in Accounts PROVE vendors'[b].staking = vendors[b].staking
    <3>1. CASE vendors' = vendors
      BY <3>1
    <3>2. ASSUME NEW m, vendors' = [vendors EXCEPT ![vendor].totalPaidInMoC = m]
          PROVE  vendors'[b].staking = vendors[b].staking
      BY <3>2, ChangedElsewhere DEF TypeOK
    <3>. QED
      BY <2>1, <3>1, <3>2
  <2>3. vault' = vault
    BY DEF Operation
  <2>. QED
    BY <2>2, <2>3
<1>3. SumFunction(stakes') = SumFunction(stakes)
  BY <1>2, StakesUntouched
<1>4. /\ SumFunction(wallet) \in Int
      /\ \A b \in Accounts : wallet[b] \in Int
      /\ vault \in Int /\ userMoC \in Int /\ commissions \in Int
  BY SumsAreIntegers DEF TypeOK
<1>5. userMoC' + commissions' + SumFunction(wallet') = userMoC + commissions + SumFunction(wallet)
  <2>1. CASE TransferReserveTokenCommission(vendor, fees.reserveTokenCommission,
                                            fees.reserveTokenMarkup)
    BY <2>1 DEF TransferReserveTokenCommission, feeVars
  <2>2. CASE TransferMocCommission(vendor, fees.mocCommission, fees.mocMarkup)
    <3>1. CASE PaidMarkupFits(vendor, fees.mocMarkup)
      <4>1. vendor \in Accounts
        BY <3>1 DEF PaidMarkupFits
      <4>2. /\ userMoC' = userMoC - fees.mocCommission - fees.mocMarkup
            /\ commissions' = commissions + fees.mocCommission + 0
            /\ wallet' = [wallet EXCEPT ![vendor] = @ + fees.mocMarkup]
        BY <2>2, <3>1 DEF TransferMocCommission
      <4>3. /\ wallet'[vendor] = wallet[vendor] + fees.mocMarkup
            /\ \A b \in Accounts \ {vendor} : wallet'[b] = wallet[b]
        BY <4>1, <4>2 DEF TypeOK
      <4>4. SumFunction(wallet') = SumFunction(wallet) + wallet'[vendor] - wallet[vendor]
        BY <4>1, <4>3, WalletChanges
      <4>. QED
        BY <1>1, <1>4, <4>1, <4>2, <4>3, <4>4
    <3>2. CASE ~PaidMarkupFits(vendor, fees.mocMarkup)
      <4>1. /\ userMoC' = userMoC - fees.mocCommission - fees.mocMarkup
            /\ commissions' = commissions + fees.mocCommission + fees.mocMarkup
            /\ wallet' = wallet
        BY <2>2, <3>2 DEF TransferMocCommission
      <4>. QED
        BY <1>1, <1>4, <4>1
    <3>. QED
      BY <3>1, <3>2
  <2>. QED
    BY <2>1, <2>2 DEF Operation, fees
<1>6. vault' = SumFunction(stakes')
  BY <1>2, <1>3, AccountedParts DEF Accounted
<1>7. userMoC' \in Int /\ commissions' \in Int /\ SumFunction(wallet') \in Int
  <2>1. SumFunction(wallet') \in Int
    BY SumIsInteger, VendorsAssumption DEF SumFunction, TypeOK
  <2>. QED
    BY <2>1 DEF TypeOK
<1>8. userMoC' + commissions' + vault' + SumFunction(wallet')
        = userMoC + commissions + vault + SumFunction(wallet)
  <2>1. vault' = vault
    BY <1>2
  <2>. QED
    BY <1>4, <1>5, <1>7, <2>1
<1>. QED
  BY <1>6, <1>8 DEF MoCAccounted, stakes

\* Steps that move no MoC.
LEMMA UntouchedAccounted ==
    ASSUME MoCAccounted, UNCHANGED <<wallet, vault, userMoC, commissions>>,
           \A a \in Accounts : vendors'[a].staking = vendors[a].staking
    PROVE  MoCAccounted'
BY StakesUntouched DEF MoCAccounted, stakes

\* The contract holds the stakes, of unregistered vendors too, and no more; a fee is
\* paid once, to the vendor or the commissions address or between them.  So whatever
\* removeStake gives back before it checks the stake is the vendor's own.
THEOREM MoCAlwaysAccounted == Spec => []MoCAccounted
<1>1. Init => MoCAccounted
  <2>. SUFFICES ASSUME Init PROVE MoCAccounted
    OBVIOUS
  <2>1. IsFiniteSet(Accounts) /\ Cardinality(Accounts) \in Nat
           /\ UserSupply \in Nat /\ VendorSupply \in Nat
    BY FS_CardinalityType, VendorsAssumption
  <2>2. /\ \A a \in Accounts : stakes[a] = 0 /\ wallet[a] = VendorSupply
        /\ DOMAIN stakes = Accounts /\ DOMAIN wallet = Accounts
    BY DEF Init, stakes
  <2>3. SumFunctionOnSet(stakes, Accounts) = 0 * Cardinality(Accounts)
    BY <2>1, <2>2, SumOfConstant
  <2>4. SumFunctionOnSet(wallet, Accounts) = VendorSupply * Cardinality(Accounts)
    BY <2>1, <2>2, SumOfConstant
  <2>5. SumFunction(stakes) = 0 /\ SumFunction(wallet) = VendorSupply * Cardinality(Accounts)
    BY <2>1, <2>2, <2>3, <2>4 DEF SumFunction
  <2>6. VendorSupply * Cardinality(Accounts) \in Int
    BY <2>1
  <2>. QED
    BY <2>1, <2>5, <2>6 DEF Init, MoCAccounted, stakes
<1>2. IInv /\ IInv' /\ MoCAccounted /\ [Next]_vars => MoCAccounted'
  <2>. SUFFICES ASSUME IInv, IInv', MoCAccounted, [Next]_vars PROVE MoCAccounted'
    OBVIOUS
  <2>1. TypeOK /\ TypeOK'
    BY DEF IInv
  <2>2. CASE Guardian
    <3>1. /\ UNCHANGED <<wallet, vault, userMoC, commissions>>
          /\ \A a \in Accounts : vendors'[a].staking = vendors[a].staking
      <4>1. UNCHANGED <<wallet, vault, userMoC, commissions>>
        BY <2>2 DEF Guardian, RegisterVendor, UnregisterVendor, feeVars
      <4>2. ASSUME NEW b \in Accounts PROVE vendors'[b].staking = vendors[b].staking
        <5>1. PICK a \in Accounts : (\E m \in Markups : RegisterVendor(a, m)) \/ UnregisterVendor(a)
          BY <2>2 DEF Guardian
        <5>2. CASE UnregisterVendor(a)
          <6>1. vendors' = [vendors EXCEPT ![a].isActive = FALSE]
            BY <5>2 DEF UnregisterVendor
          <6>. QED
            BY <2>1, <6>1, ChangedElsewhere DEF TypeOK
        <5>3. ASSUME NEW m \in Markups, RegisterVendor(a, m)
              PROVE  vendors'[b].staking = vendors[b].staking
          <6>1. vendors' = [vendors EXCEPT ![a].isActive = TRUE, ![a].markup = m]
            BY <5>3 DEF RegisterVendor
          <6>2. vendors \in [Accounts -> VendorDetails]
            BY <2>1 DEF TypeOK
          <6>3. [vendors EXCEPT ![a].isActive = TRUE, ![a].markup = m][b].staking
                  = vendors[b].staking
            BY <6>2 DEF VendorDetails
          <6>. QED
            BY <6>1, <6>3, Zenon
        <5>. QED
          BY <5>1, <5>2, <5>3
      <4>. QED
        BY <4>1, <4>2
    <3>. QED
      BY <3>1, UntouchedAccounted
  <2>3. CASE Vendor
    BY <2>1, <2>3, StakingAccounted DEF Vendor
  <2>4. CASE \E vendor \in Accounts \union {NoVendor}, amount \in Amounts :
               Operation(vendor, amount)
    BY <2>1, <2>4, OperationAccounted
  <2>5. CASE \E amount \in Allowances : Approve(amount)
    BY <2>5, UntouchedAccounted DEF Approve
  <2>6. CASE ResetTotalPaidInMoC
    <3>1. /\ UNCHANGED <<wallet, vault, userMoC, commissions>>
          /\ \A a \in Accounts : vendors'[a].staking = vendors[a].staking
      BY <2>1, <2>6 DEF ResetTotalPaidInMoC, feeVars, TypeOK, VendorDetails
    <3>. QED
      BY <3>1, UntouchedAccounted
  <2>7. CASE UNCHANGED vars
    BY <2>7, UntouchedAccounted DEF vars, feeVars
  <2>. QED
    BY <2>2, <2>3, <2>4, <2>5, <2>6, <2>7 DEF Next, Users
<1>. QED
  BY <1>1, <1>2, Inductive, PTL DEF Spec

=============================================================================
