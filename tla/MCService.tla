----------------------------- MODULE MCService -----------------------------
(***************************************************************************)
(* Instances of Service for TLC.                                           *)
(***************************************************************************)
EXTENDS Service, TLC

ServiceSymmetry == Permutations(Scripts) \cup Permutations(Exes)

=============================================================================
