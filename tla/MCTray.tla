------------------------------- MODULE MCTray -------------------------------
(***************************************************************************)
(* Instances of Tray for TLC.                                              *)
(***************************************************************************)
EXTENDS Tray, TLC

=============================================================================
