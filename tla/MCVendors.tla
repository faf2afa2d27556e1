----------------------------- MODULE MCVendors -----------------------------
(***************************************************************************)
(* Instance of MoCVendors for TLC: three accounts, of which the list has   *)
(* room for two.                                                           *)
(***************************************************************************)
EXTENDS MoCVendors, TLC

MCSymmetry == Permutations(Accounts)

=============================================================================
