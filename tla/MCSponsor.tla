----------------------------- MODULE MCSponsor -----------------------------
(***************************************************************************)
(* Instances of Sponsor for TLC.                                           *)
(***************************************************************************)
EXTENDS Sponsor, TLC

SponsorSymmetry == Permutations(Slides)

=============================================================================
