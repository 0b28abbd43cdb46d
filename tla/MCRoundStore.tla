---------------------------- MODULE MCRoundStore ----------------------------
(***************************************************************************)
(* Instances of RoundStore for TLC.                                        *)
(***************************************************************************)
EXTENDS RoundStore, TLC

\* Any loop may be the older or the newer one.
LoopSymmetry == Permutations(Loops)

=============================================================================
