----------------------------- MODULE MCAccounts -----------------------------
(***************************************************************************)
(* Instances of Accounts for TLC.  Names, passwords, tokens and requests   *)
(* are each as good as the others.                                         *)
(***************************************************************************)
EXTENDS Accounts, TLC

AccountSymmetry ==
  Permutations(Names) \cup Permutations(Passwords) \cup Permutations(Tokens)
    \cup Permutations(Requests)

=============================================================================
