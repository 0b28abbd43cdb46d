----------------------------- MODULE ImportPlan -----------------------------
(***************************************************************************)
(* What becomes of each row of a file of targets (targetsio.go:            *)
(* planImport), against the names the table has: the one pass over the     *)
(* rows as it is written, and what it comes to for each row.  A row of a   *)
(* file is a name and whether the rest of it is valid; a file whose head   *)
(* is refused has no plan.                                                 *)
(***************************************************************************)
EXTENDS TargetTable

FileRow == [valid : BOOLEAN, name : Names]

\* Every name of the table, and whether it is active.
TargetNames(t) == [n \in {t[i].name : i \in DOMAIN t} |-> ActiveName(t, n)]

NoPlan == [seen |-> {}, add |-> {}, restore |-> {}, duplicate |-> {}, exists |-> {}, invalid |-> {}]

\* The plan with row i sorted in.
SortRow(plan, row, i, existing) ==
  IF ~row.valid THEN [plan EXCEPT !.invalid = @ \cup {i}]
  ELSE IF row.name \in plan.seen THEN [plan EXCEPT !.duplicate = @ \cup {i}]
  ELSE LET noted == [plan EXCEPT !.seen = @ \cup {row.name}]
           known == row.name \in DOMAIN existing
       IN  IF known /\ existing[row.name] THEN [noted EXCEPT !.exists = @ \cup {i}]
           ELSE IF known THEN [noted EXCEPT !.restore = @ \cup {i}]
           ELSE [noted EXCEPT !.add = @ \cup {i}]

planImport(file, existing) ==
  LET after[i \in 0..Len(file)] ==
        IF i = 0 THEN NoPlan ELSE SortRow(after[i - 1], file[i], i, existing)
  IN  after[Len(file)]

-----------------------------------------------------------------------------
(* What a plan is, row by row.                                             *)
First(file, i) ==
  file[i].valid /\ \A j \in DOMAIN file : j < i /\ file[j].valid => file[j].name # file[i].name

\* The rows that ImportTargets is given: those the preview calls "add", of
\* which some bring their history back.
Added(file, t) == {i \in DOMAIN file : First(file, i) /\ ~ActiveName(t, file[i].name)}
Restored(file, t) == {i \in Added(file, t) : HasRow(t, file[i].name)}

Duplicate(file) == {i \in DOMAIN file : file[i].valid /\ ~First(file, i)}

\* The pass and the definition agree.
Sorted(file, t) ==
  LET plan == planImport(file, TargetNames(t))
  IN  /\ plan.add \cup plan.restore = Added(file, t)
      /\ plan.restore = Restored(file, t)
      /\ plan.duplicate = Duplicate(file)
      /\ plan.exists = {i \in DOMAIN file : First(file, i)} \ Added(file, t)
      /\ plan.invalid = {i \in DOMAIN file : ~file[i].valid}

=============================================================================
