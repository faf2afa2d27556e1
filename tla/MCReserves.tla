----------------------------- MODULE MCReserves -----------------------------
(***************************************************************************)
(* Instance of MoCReserves for TLC, and a claim of the documentation.      *)
(***************************************************************************)
EXTENDS MoCReserves

MCStableAmounts == 1 .. 2

\* A liquidation pays the holders of stable tokens whether or not interest is paid
\* to those of RiskPro after it.
LiquidationPaysHoldersFirst == lapses \subseteq {"interest"} => Owed <= reserves

=============================================================================
