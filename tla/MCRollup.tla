------------------------------ MODULE MCRollup ------------------------------
(***************************************************************************)
(* Instances of Rollup for TLC: the constants are all plain values.        *)
(***************************************************************************)
EXTENDS Rollup

=============================================================================
