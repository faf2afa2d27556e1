------------------------- MODULE MCRiskProxManager -------------------------
(***************************************************************************)
(* Instance of RiskProxManager for TLC.  Three users are enough for a slot *)
(* to be given to the last one while a third stays between them.           *)
(***************************************************************************)
EXTENDS RiskProxManager, TLC

MCAmounts == 0 .. 2

MCSymmetry == Permutations(Users)

=============================================================================
