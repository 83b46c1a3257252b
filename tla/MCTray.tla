------------------------------- MODULE MCTray -------------------------------
(***************************************************************************)
(* Instances of TrayManager for TLC.                                       *)
(***************************************************************************)
EXTENDS TrayManager

CONSTANTS r1, r2, k1, k2, k3
=============================================================================
