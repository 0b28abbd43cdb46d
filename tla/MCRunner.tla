------------------------------ MODULE MCRunner ------------------------------
(***************************************************************************)
(* Instances of Runner for TLC, and of the import plan it is given.        *)
(***************************************************************************)
EXTENDS Runner, ImportPlan, TLC

\* Slots of the loop pool are interchangeable, and so are requests.  Names
\* and addresses are not: the demo target has one of each.
ActorSymmetry == Permutations(LoopIds) \cup Permutations(Admins)

-----------------------------------------------------------------------------
Files == UNION {[1..k -> FileRow] : k \in 0..3}
Tables == {t \in UNION {[1..k -> Row] : k \in 0..2} : WellFormed(t)}

\* planImport sorts the rows of every file as its result is defined, whatever
\* the table has.
ASSUME PlansAreSorted == \A f \in Files, t \in Tables : Sorted(f, t)

=============================================================================
