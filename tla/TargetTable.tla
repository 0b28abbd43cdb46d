---------------------------- MODULE TargetTable ----------------------------
(***************************************************************************)
(* The `targets` table of the SQLite database (targets.go, store.go).      *)
(*                                                                         *)
(* A row is what the console lets an administrator edit: a name, an        *)
(* address (type, host, port, pace and interval are one value here, only   *)
(* ever compared for equality) and whether it is active.  Deleting a       *)
(* target only clears `active`: the row stays, because the recorded rounds *)
(* are keyed by its id and re-adding the name must bring them back.  Ids   *)
(* come from AUTOINCREMENT, so the row with id i is rows[i].               *)
(*                                                                         *)
(* Every operation is one SQL statement or one transaction, hence one      *)
(* atomic step.  A refused operation (409, 404) changes nothing and is     *)
(* modelled by the step not being enabled.                                 *)
(***************************************************************************)
EXTENDS Naturals, Sequences

CONSTANTS Names,     \* target names
          Addrs,     \* what is probed and how: everything else in TargetCfg
          NoAddr,    \* the column defaults of a row nobody configured
          MaxRows    \* bound on the number of rows ever inserted

ASSUME TableAssumption == MaxRows \in Nat /\ NoAddr \notin Addrs

VARIABLE rows

Ids == 1..MaxRows
AnyAddr == Addrs \cup {NoAddr}
Row == [name : Names, addr : AnyAddr, active : BOOLEAN]
TargetCfg == [id : Ids, name : Names, addr : AnyAddr]

\* What the schema guarantees: typed rows, and UNIQUE(name).
WellFormed(t) ==
  /\ t \in Seq(Row)
  /\ Len(t) <= MaxRows
  /\ \A i, j \in DOMAIN t : t[i].name = t[j].name => i = j

TableTypeOK == WellFormed(rows)

HasRow(t, n) == \E i \in DOMAIN t : t[i].name = n
IdOf(t, n) == CHOOSE i \in DOMAIN t : t[i].name = n
ActiveName(t, n) == \E i \in DOMAIN t : t[i].name = n /\ t[i].active

\* INSERT ... ON CONFLICT(name) DO UPDATE: a deleted name keeps its id.
Upsert(t, n, a) ==
  LET row == [name |-> n, addr |-> a, active |-> TRUE] IN
  IF HasRow(t, n) THEN [t EXCEPT ![IdOf(t, n)] = row] ELSE Append(t, row)

\* The WHERE targets.active=0 of the upsert, and the bound on rows.
MayAdd(t, n) ==
  /\ ~ActiveName(t, n)
  /\ HasRow(t, n) \/ Len(t) < MaxRows

CreateTarget(n, a) ==
  /\ MayAdd(rows, n)
  /\ rows' = Upsert(rows, n, a)

\* A file of two rows, in one transaction: any refused row rolls both back.
\* A file of one row is CreateTarget's step.
ImportTargets(n1, a1, n2, a2) ==
  /\ MayAdd(rows, n1)
  /\ MayAdd(Upsert(rows, n1, a1), n2)
  /\ rows' = Upsert(Upsert(rows, n1, a1), n2, a2)

\* Mutant: the UNIQUE constraint is missing.
UpdateTargetAnyName(i, n, a) ==
  /\ i \in DOMAIN rows
  /\ rows[i].active
  /\ rows' = [rows EXCEPT ![i].name = n, ![i].addr = a]

\* UPDATE ... WHERE id=? AND active=1; a name that another row holds, active
\* or deleted, is refused.
UpdateTarget(i, n, a) ==
  /\ i \in DOMAIN rows
  /\ rows[i].active
  /\ \A j \in DOMAIN rows \ {i} : rows[j].name # n
  /\ rows' = [rows EXCEPT ![i].name = n, ![i].addr = a]

DeactivateTarget(i) ==
  /\ i \in DOMAIN rows
  /\ rows[i].active
  /\ rows' = [rows EXCEPT ![i].active = FALSE]

\* SELECT ... WHERE active=1: what the Runner should be probing.
ActiveTargets ==
  {[id |-> i, name |-> rows[i].name, addr |-> rows[i].addr] :
     i \in {j \in DOMAIN rows : rows[j].active}}

\* The bare row that EnsureTarget inserts for a name it does not find.
BareRow(n) == [name |-> n, addr |-> NoAddr, active |-> FALSE]

=============================================================================
