----------------------------- MODULE MoCVendors -----------------------------
(***************************************************************************)
(* The vendors (contracts/MoCVendors.sol) and the fees of a mint or a      *)
(* redemption: how they are calculated (contracts/MoCExchange.sol) and     *)
(* whom they are paid to (contracts/MoC.sol).                              *)
(*                                                                         *)
(* A registered vendor stakes MoC tokens.  What it may be paid between two *)
(* settlements is limited by its stake, which it may withdraw at any time, *)
(* and which it cannot touch while it is not registered.                   *)
(***************************************************************************)
EXTENDS Integers, Sequences, FiniteSets, Functions

CONSTANTS
    Accounts,           \* addresses that may be vendors
    NoVendor,           \* the zero address: an operation without a vendor
    Markups,            \* the markups a vendor may be registered with
    Amounts,            \* what an operation moves, in reserve tokens
    Stakes, Allowances, \* MoC amounts of a stake or an approval
    MocRate, ReserveRate,       \* commission rates: fees in MoC, in reserve tokens
    Price,              \* the reserve token in MoC
    MocPrecision,
    VENDOR_MAX_MARKUP, VENDORS_LIST_ARRAY_MAX_LENGTH,
    UserSupply, VendorSupply,   \* the MoC that the users and each vendor begin with
    MaxPaid             \* bound of the model on totalPaidInMoC

ASSUME VendorsAssumption ==
    /\ IsFiniteSet(Accounts)
    /\ Markups \subseteq Nat /\ Amounts \subseteq Nat
    /\ Stakes \subseteq Nat /\ Allowances \subseteq Nat
    /\ MocRate \in Nat /\ ReserveRate \in Nat /\ Price \in Nat \ {0}
    /\ MocPrecision \in Nat \ {0}
    /\ VENDORS_LIST_ARRAY_MAX_LENGTH \in Nat
    /\ UserSupply \in Nat /\ VendorSupply \in Nat
    /\ NoVendor \notin Accounts

VARIABLES
    vendors,        \* account -> its VendorDetails
    vendorsList,
    wallet,         \* account -> the MoC it has
    vault,          \* the MoC that MoCVendors has
    userMoC, allowance,     \* the MoC of the users, and what MoC.sol may take of it
    commissions,    \* the MoC of the commissions address
    paidInMoC,      \* history: MoC paid to a vendor since its total was last reset
    highestStake    \* history: its highest stake since then

feeVars == <<userMoC, allowance, commissions>>
history == <<paidInMoC, highestStake>>
vars == <<vendors, vendorsList, wallet, vault, feeVars, history>>

VendorDetails == [isActive : BOOLEAN, markup : Nat, totalPaidInMoC : Nat, staking : Nat]

-----------------------------------------------------------------------------
Init ==
    /\ vendors = [a \in Accounts |->
           [isActive |-> FALSE, markup |-> 0, totalPaidInMoC |-> 0, staking |-> 0]]
    /\ vendorsList = <<>>
    /\ wallet = [a \in Accounts |-> VendorSupply]
    /\ vault = 0
    /\ userMoC = UserSupply /\ allowance = 0 /\ commissions = 0
    /\ paidInMoC = [a \in Accounts |-> 0]
    /\ highestStake = [a \in Accounts |-> 0]

-----------------------------------------------------------------------------
(* The guardian's operations. *)

RegisterVendor(a, markup) ==
    /\ markup <= VENDOR_MAX_MARKUP
    /\ \/ /\ ~vendors[a].isActive
          /\ Len(vendorsList) < VENDORS_LIST_ARRAY_MAX_LENGTH
          /\ vendorsList' = Append(vendorsList, a)
       \/ /\ vendors[a].isActive
          /\ UNCHANGED vendorsList
    /\ vendors' = [vendors EXCEPT ![a].isActive = TRUE, ![a].markup = markup]
    /\ UNCHANGED <<wallet, vault, feeVars, history>>

\* Mutant: the last one is dropped, and the one that leaves stays.
WithoutLast(list, i) == SubSeq(list, 1, Len(list) - 1)

\* The last one takes the place of the one that leaves.
Without(list, i) ==
    SubSeq([list EXCEPT ![i] = list[Len(list)]], 1, Len(list) - 1)

UnregisterVendor(a) ==
    \E i \in DOMAIN vendorsList :
        /\ vendorsList[i] = a
        /\ \A j \in 1 .. i - 1 : vendorsList[j] # a
        /\ vendors' = [vendors EXCEPT ![a].isActive = FALSE]
        /\ vendorsList' = Without(vendorsList, i)
        /\ UNCHANGED <<wallet, vault, feeVars, history>>

-----------------------------------------------------------------------------
(* The vendor's. *)

Larger(m, n) == IF m >= n THEN m ELSE n

\* A vendor approves MoCVendors for what it stakes.
AddStake(a, staking) ==
    /\ vendors[a].isActive
    /\ staking > 0 /\ staking <= wallet[a]
    /\ wallet' = [wallet EXCEPT ![a] = @ - staking]
    /\ vault' = vault + staking
    /\ vendors' = [vendors EXCEPT ![a].staking = @ + staking]
    /\ highestStake' = [highestStake EXCEPT ![a] = Larger(@, vendors'[a].staking)]
    /\ UNCHANGED <<vendorsList, feeVars, paidInMoC>>

\* Mutant: the stake is not reduced by what was given back.
RemoveStakeTwice(a, staking) ==
    /\ vendors[a].isActive
    /\ staking > 0 /\ staking <= vault /\ staking <= vendors[a].staking
    /\ wallet' = [wallet EXCEPT ![a] = @ + staking]
    /\ vault' = vault - staking
    /\ UNCHANGED <<vendors, vendorsList, feeVars, history>>

\* A vendor may take back all of it, whatever it was paid on account of it.
RemoveStake(a, staking) ==
    /\ vendors[a].isActive
    /\ staking > 0 /\ staking <= vault /\ staking <= vendors[a].staking
    /\ wallet' = [wallet EXCEPT ![a] = @ + staking]
    /\ vault' = vault - staking
    /\ vendors' = [vendors EXCEPT ![a].staking = @ - staking]
    /\ UNCHANGED <<vendorsList, feeVars, history>>

-----------------------------------------------------------------------------
(* Fees. *)

CalcCommissionValue(amount, rate) == (amount * rate) \div MocPrecision

\* Also charged when the vendor is no longer active.
CalculateVendorMarkup(vendor, amount) ==
    IF vendor = NoVendor THEN 0
    ELSE (amount * vendors[vendor].markup) \div MocPrecision

\* The oracles' ratio of prices, taken to be integral.
InMoC(reserveTokens) == Price * reserveTokens

\* Mutant: the allowance of the user is only asked to be positive.
CalculateCommissionsOnAnyAllowance(vendor, amount) ==
    LET markup == CalculateVendorMarkup(vendor, amount)
        mocCommission == CalcCommissionValue(amount, MocRate)
        totalMoCFee == InMoC(mocCommission) + InMoC(markup)
    IN  IF allowance # 0 /\ userMoC >= totalMoCFee /\ mocCommission # 0
        THEN [mocCommission |-> InMoC(mocCommission), mocMarkup |-> InMoC(markup),
              reserveTokenCommission |-> 0, reserveTokenMarkup |-> 0]
        ELSE [mocCommission |-> 0, mocMarkup |-> 0,
              reserveTokenCommission |-> CalcCommissionValue(amount, ReserveRate),
              reserveTokenMarkup |-> markup]

\* In MoC if there is any commission in MoC and the user has and allows enough for
\* it and the markup; in reserve tokens otherwise.
CalculateCommissions(vendor, amount) ==
    LET markup == CalculateVendorMarkup(vendor, amount)
        mocCommission == CalcCommissionValue(amount, MocRate)
        totalMoCFee == InMoC(mocCommission) + InMoC(markup)
    IN  IF /\ allowance # 0 /\ userMoC # 0
           /\ userMoC >= totalMoCFee /\ allowance >= totalMoCFee
           /\ mocCommission # 0
        THEN [mocCommission |-> InMoC(mocCommission), mocMarkup |-> InMoC(markup),
              reserveTokenCommission |-> 0, reserveTokenMarkup |-> 0]
        ELSE [mocCommission |-> 0, mocMarkup |-> 0,
              reserveTokenCommission |-> CalcCommissionValue(amount, ReserveRate),
              reserveTokenMarkup |-> markup]

\* Mutant: what was paid before is not counted.
PaidMarkupFitsEachTime(vendor, mocAmount) ==
    /\ vendor # NoVendor
    /\ vendors[vendor].isActive
    /\ mocAmount <= vendors[vendor].staking

\* updatePaidMarkup: a markup in reserve tokens is counted but not tested.
PaidMarkupFits(vendor, mocAmount) ==
    /\ vendor # NoVendor
    /\ vendors[vendor].isActive
    /\ vendors[vendor].totalPaidInMoC + mocAmount <= vendors[vendor].staking

\* transferMocCommission: to the vendor and the commissions address, or all to the
\* latter.
TransferMocCommission(vendor, mocCommission, mocMarkup) ==
    LET fits == PaidMarkupFits(vendor, mocMarkup)
    IN  /\ mocCommission + mocMarkup > 0
        /\ userMoC' = userMoC - mocCommission - mocMarkup
        /\ allowance' = allowance - mocCommission - mocMarkup
        /\ commissions' = commissions + mocCommission + (IF fits THEN 0 ELSE mocMarkup)
        /\ IF fits
           THEN /\ vendors' = [vendors EXCEPT ![vendor].totalPaidInMoC = @ + mocMarkup]
                /\ wallet' = [wallet EXCEPT ![vendor] = @ + mocMarkup]
                /\ paidInMoC' = [paidInMoC EXCEPT ![vendor] = @ + mocMarkup]
           ELSE UNCHANGED <<vendors, wallet, paidInMoC>>

\* transferReserveTokenCommission; the reserve tokens themselves are not followed.
TransferReserveTokenCommission(vendor, reserveTokenCommission, reserveTokenMarkup) ==
    /\ reserveTokenCommission + reserveTokenMarkup > 0
    /\ PaidMarkupFits(vendor, 0)
    /\ vendors' = [vendors EXCEPT ![vendor].totalPaidInMoC = @ + InMoC(reserveTokenMarkup)]
    /\ UNCHANGED <<wallet, feeVars, paidInMoC>>

\* A mint or a redemption; the cases that change nothing here are left out.
Operation(vendor, amount) ==
    LET fees == CalculateCommissions(vendor, amount)
    IN  /\ \/ TransferMocCommission(vendor, fees.mocCommission, fees.mocMarkup)
           \/ TransferReserveTokenCommission(vendor, fees.reserveTokenCommission,
                                                     fees.reserveTokenMarkup)
        /\ \A a \in Accounts : vendors'[a].totalPaidInMoC <= MaxPaid
        /\ UNCHANGED <<vendorsList, vault, highestStake>>

\* The users approve MoC.sol to take MoC from them.
Approve(amount) ==
    /\ allowance' = amount
    /\ UNCHANGED <<vendors, vendorsList, wallet, vault, userMoC, commissions, history>>

\* When a settlement begins.
ResetTotalPaidInMoC ==
    LET reset == {a \in Accounts : vendors[a].isActive /\
                     \E i \in DOMAIN vendorsList : vendorsList[i] = a}
    IN  /\ vendors' = [a \in Accounts |->
               IF a \in reset THEN [vendors[a] EXCEPT !.totalPaidInMoC = 0] ELSE vendors[a]]
        /\ paidInMoC' = [a \in Accounts |-> IF a \in reset THEN 0 ELSE paidInMoC[a]]
        /\ highestStake' = [a \in Accounts |->
               IF a \in reset THEN vendors[a].staking ELSE highestStake[a]]
        /\ UNCHANGED <<vendorsList, wallet, vault, feeVars>>

-----------------------------------------------------------------------------
Guardian ==
    \E a \in Accounts :
        \/ \E markup \in Markups : RegisterVendor(a, markup)
        \/ UnregisterVendor(a)

Vendor ==
    \E a \in Accounts, staking \in Stakes : AddStake(a, staking) \/ RemoveStake(a, staking)

Users ==
    \/ \E vendor \in Accounts \union {NoVendor}, amount \in Amounts : Operation(vendor, amount)
    \/ \E amount \in Allowances : Approve(amount)

Next == Guardian \/ Vendor \/ Users \/ ResetTotalPaidInMoC

Spec == Init /\ [][Next]_vars

-----------------------------------------------------------------------------
\* Every variable keeps its type; no balance and no allowance goes negative.
TypeOK ==
    /\ vendors \in [Accounts -> VendorDetails]
    /\ vendorsList \in Seq(Accounts)
    /\ wallet \in [Accounts -> Nat]
    /\ vault \in Nat /\ userMoC \in Nat /\ allowance \in Nat /\ commissions \in Nat
    /\ paidInMoC \in [Accounts -> Nat] /\ highestStake \in [Accounts -> Nat]

\* vendorsList lists the active vendors, each once, and no more than its limit, in
\* whatever order they are registered again and unregistered.  So a settlement
\* resets each of them, and no other.
ListIsActive ==
    /\ Len(vendorsList) <= VENDORS_LIST_ARRAY_MAX_LENGTH
    /\ \A i, j \in DOMAIN vendorsList : vendorsList[i] = vendorsList[j] => i = j
    /\ \A a \in Accounts :
          vendors[a].isActive <=> \E i \in DOMAIN vendorsList : vendorsList[i] = a

\* The contract holds exactly the stakes, those of vendors no longer registered
\* included: each can be withdrawn, once, and removeStake's transfer, made before
\* the stake is checked, never pays one vendor with the stake of another.  And MoC only
\* moves between users, vendors, stakes and the commissions address: each fee is paid
\* once, whichever way it is shared.
MoCAccounted ==
    /\ vault = SumFunction([a \in Accounts |-> vendors[a].staking])
    /\ userMoC + commissions + vault + SumFunction(wallet)
         = UserSupply + VendorSupply * Cardinality(Accounts)

\* Between two resets a vendor is paid no more MoC than the highest stake it had in
\* between, however it adds and removes stake and is unregistered and registered.
MarkupWithinStake == \A a \in Accounts : paidInMoC[a] <= highestStake[a]

=============================================================================
