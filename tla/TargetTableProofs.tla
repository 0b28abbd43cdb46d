------------------------- MODULE TargetTableProofs -------------------------
(***************************************************************************)
(* Every statement that writes the targets table keeps it well formed, and *)
(* what ActiveTargets returns is a set of targets with distinct ids and    *)
(* names; a plan that is carried out against the table it was made for is  *)
(* never refused, whatever order its rows are written in, and brings back  *)
(* the history of every row it said it would.                              *)
(***************************************************************************)
EXTENDS ImportPlan, SequenceTheorems, WellFoundedInduction, TLAPS

\* The row an upsert finds by name is a row of the table and has that name.
LEMMA IdOfRow ==
  ASSUME NEW t, NEW n, HasRow(t, n)
  PROVE  IdOf(t, n) \in DOMAIN t /\ t[IdOf(t, n)].name = n
  BY DEF HasRow, IdOf

\* Replacing a row by one whose name no other row has keeps the table well
\* formed.
LEMMA ReplaceRow ==
  ASSUME NEW t, WellFormed(t), NEW i \in DOMAIN t, NEW r \in Row,
         \A j \in DOMAIN t \ {i} : t[j].name # r.name
  PROVE  WellFormed([t EXCEPT ![i] = r])
  <1> DEFINE u == [t EXCEPT ![i] = r]
  <1>1. u \in Seq(Row) /\ Len(u) = Len(t)
    BY DEF WellFormed
  <1>2. DOMAIN u = DOMAIN t /\ \A j \in DOMAIN t : u[j] = IF j = i THEN r ELSE t[j]
    BY DEF WellFormed
  <1>3. \A j, k \in DOMAIN u : u[j].name = u[k].name => j = k
    BY <1>2 DEF WellFormed
  <1> QED BY <1>1, <1>3 DEF WellFormed

\* So does inserting a row whose name is new, while there is room.
LEMMA InsertRow ==
  ASSUME NEW t, WellFormed(t), NEW r \in Row,
         ~HasRow(t, r.name), Len(t) < MaxRows
  PROVE  WellFormed(Append(t, r))
  <1> DEFINE u == Append(t, r)
  <1>0. t \in Seq(Row) /\ Len(t) \in Nat /\ MaxRows \in Nat
    BY TableAssumption DEF WellFormed
  <1>1. u \in Seq(Row) /\ Len(u) = Len(t) + 1 /\ Len(u) <= MaxRows
    BY <1>0
  <1>2. \A j \in DOMAIN u : (j \in DOMAIN t /\ u[j] = t[j]) \/ (j = Len(t) + 1 /\ u[j] = r)
    BY <1>0
  <1>3. \A j, k \in DOMAIN u : u[j].name = u[k].name => j = k
    BY <1>2 DEF WellFormed, HasRow
  <1> QED BY <1>1, <1>3 DEF WellFormed

\* The upsert of CreateTarget keeps the schema: typed rows, unique names.
LEMMA UpsertWellFormed ==
  ASSUME NEW t, WellFormed(t), NEW n \in Names, NEW a \in AnyAddr, MayAdd(t, n)
  PROVE  WellFormed(Upsert(t, n, a))
  <1> DEFINE r == [name |-> n, addr |-> a, active |-> TRUE]
  <1>1. r \in Row /\ r.name = n
    BY DEF Row
  <1>2. CASE HasRow(t, n)
    <2>1. IdOf(t, n) \in DOMAIN t /\ t[IdOf(t, n)].name = n
      BY <1>2, IdOfRow
    <2>2. \A j \in DOMAIN t \ {IdOf(t, n)} : t[j].name # r.name
      BY <1>1, <2>1 DEF WellFormed
    <2> QED BY <1>1, <1>2, <2>1, <2>2, ReplaceRow DEF Upsert
  <1>3. CASE ~HasRow(t, n)
    <2>1. Len(t) < MaxRows
      BY <1>3 DEF MayAdd
    <2> QED BY <1>1, <1>3, <2>1, InsertRow DEF Upsert
  <1> QED BY <1>2, <1>3

\* CREATE, IMPORT, UPDATE and DELETE of targets.go.
LEMMA WritesWellFormed ==
  ASSUME TableTypeOK, NEW n \in Names, NEW m \in Names,
         NEW a \in Addrs, NEW b \in Addrs, NEW i \in Ids
  PROVE  /\ CreateTarget(n, a) => TableTypeOK'
         /\ ImportTargets(n, a, m, b) => TableTypeOK'
         /\ UpdateTarget(i, n, a) => TableTypeOK'
         /\ DeactivateTarget(i) => TableTypeOK'
  <1>0. a \in AnyAddr /\ b \in AnyAddr /\ WellFormed(rows)
    BY DEF AnyAddr, TableTypeOK
  <1>1. CreateTarget(n, a) => TableTypeOK'
    BY <1>0, UpsertWellFormed DEF CreateTarget, TableTypeOK
  <1>2. ASSUME ImportTargets(n, a, m, b) PROVE TableTypeOK'
    <2>1. WellFormed(Upsert(rows, n, a))
      BY <1>0, <1>2, UpsertWellFormed DEF ImportTargets
    <2>2. WellFormed(Upsert(Upsert(rows, n, a), m, b))
      BY <1>0, <1>2, <2>1, UpsertWellFormed DEF ImportTargets
    <2> QED BY <1>2, <2>2 DEF ImportTargets, TableTypeOK
  <1>3. ASSUME UpdateTarget(i, n, a) PROVE TableTypeOK'
    <2> DEFINE r == [rows[i] EXCEPT !.name = n, !.addr = a]
    <2>1. i \in DOMAIN rows /\ rows[i] \in Row
      BY <1>0, <1>3 DEF UpdateTarget, WellFormed
    <2>2. r \in Row /\ r.name = n
      BY <1>0, <2>1 DEF Row
    <2>3. rows' = [rows EXCEPT ![i] = r]
      BY <1>0, <1>3, <2>1 DEF UpdateTarget, Row
    <2>4. \A j \in DOMAIN rows \ {i} : rows[j].name # r.name
      BY <1>3, <2>2 DEF UpdateTarget
    <2>5. WellFormed([rows EXCEPT ![i] = r])
      BY <1>0, <2>1, <2>2, <2>4, ReplaceRow
    <2> QED BY <2>3, <2>5 DEF TableTypeOK
  <1>4. ASSUME DeactivateTarget(i) PROVE TableTypeOK'
    <2> DEFINE r == [rows[i] EXCEPT !.active = FALSE]
    <2>1. i \in DOMAIN rows /\ rows[i] \in Row
      BY <1>0, <1>4 DEF DeactivateTarget, WellFormed
    <2>2. r \in Row /\ r.name = rows[i].name
      BY <2>1 DEF Row
    <2>3. \A j \in DOMAIN rows \ {i} : rows[j].name # r.name
      BY <1>0, <2>1, <2>2 DEF WellFormed
    <2>4. rows' = [rows EXCEPT ![i] = r]
      BY <1>4 DEF DeactivateTarget
    <2> QED BY <1>0, <2>1, <2>2, <2>3, <2>4, ReplaceRow DEF TableTypeOK
  <1> QED BY <1>1, <1>2, <1>3, <1>4

\* EnsureTarget's INSERT of a name it did not find.
LEMMA BareRowWellFormed ==
  ASSUME TableTypeOK, NEW n \in Names, ~HasRow(rows, n), Len(rows) < MaxRows
  PROVE  WellFormed(Append(rows, BareRow(n))) /\ Len(rows) + 1 \in Ids
  <1>1. BareRow(n) \in Row /\ BareRow(n).name = n
    BY DEF BareRow, Row, AnyAddr
  <1>2. Len(rows) \in Nat /\ MaxRows \in Nat
    BY TableAssumption DEF TableTypeOK, WellFormed
  <1> QED BY <1>1, <1>2, InsertRow DEF TableTypeOK, Ids

\* A snapshot of the active rows has distinct ids and distinct names.
LEMMA SnapshotDistinct ==
  ASSUME TableTypeOK
  PROVE  /\ ActiveTargets \subseteq TargetCfg
         /\ \A t, u \in ActiveTargets : t.id = u.id \/ t.name = u.name => t = u
  <1>1. DOMAIN rows \subseteq Ids /\ \A i \in DOMAIN rows : rows[i] \in Row
    BY TableAssumption DEF TableTypeOK, WellFormed, Ids
  <1>2. ActiveTargets \subseteq TargetCfg
    BY <1>1 DEF ActiveTargets, TargetCfg, Row
  <1>3. ASSUME NEW t \in ActiveTargets, NEW u \in ActiveTargets,
               t.id = u.id \/ t.name = u.name
        PROVE  t = u
    <2>1. PICK i \in DOMAIN rows : t = [id |-> i, name |-> rows[i].name, addr |-> rows[i].addr]
      BY DEF ActiveTargets
    <2>2. PICK j \in DOMAIN rows : u = [id |-> j, name |-> rows[j].name, addr |-> rows[j].addr]
      BY DEF ActiveTargets
    <2>3. i = j
      BY <1>3, <2>1, <2>2 DEF TableTypeOK, WellFormed
    <2> QED BY <2>1, <2>2, <2>3
  <1> QED BY <1>2, <1>3

-----------------------------------------------------------------------------
(* What becomes of the rows of a file of targets.                          *)

\* An upsert makes no other name active.
LEMMA UpsertOthers ==
  ASSUME NEW t, WellFormed(t), NEW n \in Names, NEW a \in AnyAddr,
         NEW m \in Names, m # n, ~ActiveName(t, m)
  PROVE  ~ActiveName(Upsert(t, n, a), m)
  <1> DEFINE r == [name |-> n, addr |-> a, active |-> TRUE]
  <1>0. t \in Seq(Row) /\ Len(t) \in Nat /\ r \in Row
    BY TableAssumption DEF WellFormed, Row
  <1>1. CASE HasRow(t, n)
    <2> DEFINE u == [t EXCEPT ![IdOf(t, n)] = r]
    <2>1. DOMAIN u = DOMAIN t /\ \A j \in DOMAIN t : u[j] = IF j = IdOf(t, n) THEN r ELSE t[j]
      BY <1>0
    <2>2. \A j \in DOMAIN u : u[j].name = m => ~u[j].active
      BY <2>1 DEF ActiveName
    <2> QED BY <1>1, <2>2 DEF Upsert, ActiveName
  <1>2. CASE ~HasRow(t, n)
    <2> DEFINE u == Append(t, r)
    <2>1. \A j \in DOMAIN u : (j \in DOMAIN t /\ u[j] = t[j]) \/ u[j] = r
      BY <1>0
    <2>2. \A j \in DOMAIN u : u[j].name = m => ~u[j].active
      BY <2>1 DEF ActiveName
    <2> QED BY <1>2, <2>2 DEF Upsert, ActiveName
  <1> QED BY <1>1, <1>2

\* Two rows of a plan never have the same name: of a name given twice the
\* second is a duplicate.
LEMMA AddedDistinct ==
  ASSUME NEW file \in Seq(FileRow), NEW t,
         NEW i \in Added(file, t), NEW j \in Added(file, t), i # j
  PROVE  file[i].name # file[j].name
  <1>1. i \in Nat /\ j \in Nat
    BY DEF Added
  <1>2. i < j \/ j < i
    BY <1>1
  <1> QED BY <1>2 DEF Added, First

\* Each row of a plan may be added, alone or after any other row of it: what
\* refuses an import ("the target list changed while importing",
\* targetsio.go:280-285) is only ever a table that is not the one the plan was
\* made against.
THEOREM PlanApplies ==
  ASSUME NEW file \in Seq(FileRow), NEW t, WellFormed(t), NEW i \in Added(file, t)
  PROVE  /\ ~ActiveName(t, file[i].name)
         /\ \A j \in Added(file, t) \ {i}, a \in AnyAddr :
              ~ActiveName(Upsert(t, file[j].name, a), file[i].name)
  <1>1. ~ActiveName(t, file[i].name)
    BY DEF Added
  <1>2. ASSUME NEW j \in Added(file, t) \ {i}, NEW a \in AnyAddr
        PROVE  ~ActiveName(Upsert(t, file[j].name, a), file[i].name)
    <2>1. file[i].name \in Names /\ file[j].name \in Names
      <3>1. i \in DOMAIN file /\ j \in DOMAIN file
        BY DEF Added
      <3>2. file[i] \in FileRow /\ file[j] \in FileRow
        BY <3>1
      <3> QED BY <3>2 DEF FileRow
    <2>2. file[i].name # file[j].name
      BY AddedDistinct
    <2> QED BY <1>1, <2>1, <2>2, UpsertOthers
  <1> QED BY <1>1, <1>2

\* A row the preview marks as bringing its history back is written under the
\* id its history is recorded under, and no other row of the table changes
\* (targetsio.go:205, targets.go:9-12).
THEOREM RestoreKeepsId ==
  ASSUME NEW file \in Seq(FileRow), NEW t, WellFormed(t), NEW i \in Restored(file, t),
         NEW a \in AnyAddr
  PROVE  LET u == Upsert(t, file[i].name, a)
         IN  /\ DOMAIN u = DOMAIN t
             /\ \A k \in DOMAIN t : u[k].name = t[k].name
             /\ \A k \in DOMAIN t : t[k].name # file[i].name => u[k] = t[k]
  <1> DEFINE n == file[i].name
             r == [name |-> n, addr |-> a, active |-> TRUE]
  <1>1. HasRow(t, n)
    BY DEF Restored
  <1>2. IdOf(t, n) \in DOMAIN t /\ t[IdOf(t, n)].name = n
    BY <1>1, IdOfRow
  <1>3. Upsert(t, n, a) = [t EXCEPT ![IdOf(t, n)] = r]
    BY <1>1 DEF Upsert
  <1>4. \A k \in DOMAIN t : [t EXCEPT ![IdOf(t, n)] = r][k] = IF k = IdOf(t, n) THEN r ELSE t[k]
    BY DEF WellFormed
  <1>5. DOMAIN [t EXCEPT ![IdOf(t, n)] = r] = DOMAIN t
    BY DEF WellFormed
  <1> QED BY <1>2, <1>3, <1>4, <1>5

-----------------------------------------------------------------------------
(* The pass over the rows of a file.                                       *)

\* The naturals are well founded.
LEMMA RowsWellFounded == IsWellFoundedOn({p \in Nat \X Nat : p[1] < p[2]}, Nat)
  BY NatLessThanWellFounded DEF OpToRel

\* A set of naturals has a least element.
LEMMA LeastRow ==
  ASSUME NEW T, T \subseteq Nat, T # {}
  PROVE  \E x \in T : \A y \in T : x <= y
  <1>1. PICK x \in T : \A y \in T : ~ (<<y, x>> \in {p \in Nat \X Nat : p[1] < p[2]})
    BY RowsWellFounded, WFMin
  <1>2. \A y \in T : ~(y < x)
    BY <1>1
  <1> QED BY <1>2

Pass(file, existing, n, g) ==
  g = [i \in 0..n |-> IF i = 0 THEN NoPlan ELSE SortRow(g[i - 1], file[i], i, existing)]

\* The pass reaches the end of every file, and planImport is what it ends with.
LEMMA PassExists ==
  ASSUME NEW file, Len(file) \in Nat, NEW existing
  PROVE  \E g : Pass(file, existing, Len(file), g) /\ planImport(file, existing) = g[Len(file)]
  <1> DEFINE T == {n \in Nat : ~ \E g : Pass(file, existing, n, g)}
  <1>1. T = {}
    <2> SUFFICES ASSUME T # {} PROVE FALSE
      OBVIOUS
    <2>1. PICK n \in T : \A m \in T : n <= m
      <3>1. T \subseteq Nat
        OBVIOUS
      <3> HIDE DEF T
      <3> QED BY <3>1, LeastRow
    <2>2. n \in Nat /\ ~ \E g : Pass(file, existing, n, g)
      BY <2>1
    <2>3. CASE n = 0
      <3> DEFINE h == [i \in 0..0 |-> NoPlan]
      <3>1. h = [i \in 0..0 |-> IF i = 0 THEN NoPlan ELSE SortRow(h[i - 1], file[i], i, existing)]
        OBVIOUS
      <3>2. Pass(file, existing, 0, h)
        BY <3>1 DEF Pass
      <3> QED BY <2>2, <2>3, <3>2
    <2>4. CASE n # 0
      <3>1. n - 1 \in Nat /\ n - 1 \notin T
        BY <2>1, <2>2, <2>4
      <3>2. PICK g : Pass(file, existing, n - 1, g)
        BY <3>1
      <3> DEFINE h == [i \in 0..n |-> IF i = n THEN SortRow(g[n - 1], file[n], n, existing) ELSE g[i]]
      <3>3. \A i \in 0..n : h[i] = IF i = 0 THEN NoPlan ELSE SortRow(h[i - 1], file[i], i, existing)
        <4> TAKE i \in 0..n
        <4>1. CASE i = n
          <5>1. n - 1 \in 0..n /\ n - 1 # n /\ h[n - 1] = g[n - 1]
            BY <2>2, <2>4
          <5> QED BY <4>1, <5>1, <2>4
        <4>2. CASE i # n
          <5>1. i \in 0..n - 1 /\ h[i] = g[i]
            BY <4>2, <2>2
          <5>2. g[i] = IF i = 0 THEN NoPlan ELSE SortRow(g[i - 1], file[i], i, existing)
            <6> HIDE DEF h
            <6> QED BY <3>2, <5>1 DEF Pass
          <5>3. CASE i = 0
            BY <5>1, <5>2, <5>3
          <5>4. CASE i # 0
            <6>1. i - 1 \in 0..n /\ i - 1 # n
              BY <5>1, <5>4, <2>2
            <6>2. h[i - 1] = g[i - 1]
              BY <6>1
            <6> HIDE DEF h
            <6> QED BY <5>1, <5>2, <5>4, <6>2
          <5> QED BY <5>3, <5>4
        <4> QED BY <4>1, <4>2
      <3>4. Pass(file, existing, n, h)
        <4>1. h = [i \in 0..n |-> h[i]]
          OBVIOUS
        <4> HIDE DEF h
        <4> QED BY <3>3, <4>1 DEF Pass
      <3> QED BY <2>2, <3>4
    <2> QED BY <2>3, <2>4
  <1>2. \E g : Pass(file, existing, Len(file), g)
    BY <1>1
  <1> QED BY <1>2 DEF planImport, Pass

\* What the pass has after i rows.
SortedSoFar(file, t, i) ==
  [seen      |-> {file[j].name : j \in {k \in 1..i : file[k].valid}},
   add       |-> {j \in 1..i : First(file, j) /\ ~HasRow(t, file[j].name)},
   restore   |-> {j \in 1..i : First(file, j) /\ HasRow(t, file[j].name) /\ ~ActiveName(t, file[j].name)},
   duplicate |-> {j \in 1..i : file[j].valid /\ ~First(file, j)},
   exists    |-> {j \in 1..i : First(file, j) /\ ActiveName(t, file[j].name)},
   invalid   |-> {j \in 1..i : ~file[j].valid}]

\* Each row is sorted in where it belongs.
LEMMA RowSorted ==
  ASSUME NEW file, DOMAIN file = 1..Len(file), Len(file) \in Nat, NEW t, NEW i \in 1..Len(file)
  PROVE  SortRow(SortedSoFar(file, t, i - 1), file[i], i, TargetNames(t)) = SortedSoFar(file, t, i)
  <1> DEFINE p == SortedSoFar(file, t, i - 1)
             q == SortedSoFar(file, t, i)
             row == file[i]
             e == TargetNames(t)
  <1>1. \A j : j \in 1..i <=> j \in 1..i - 1 \/ j = i
    OBVIOUS
  <1>2. i \notin 1..i - 1 /\ \A j \in 1..i - 1 : j \in DOMAIN file /\ j < i
    OBVIOUS
  <1>3. \A j \in DOMAIN file : j < i => j \in 1..i - 1
    OBVIOUS
  <1>4. \A m : m \in DOMAIN e <=> HasRow(t, m)
    BY DEF TargetNames, HasRow
  <1>5. \A m \in DOMAIN e : e[m] = ActiveName(t, m)
    BY DEF TargetNames
  <1>6. \A m : ActiveName(t, m) => HasRow(t, m)
    BY DEF ActiveName, HasRow
  <1>7. row.valid => (row.name \in p.seen <=> ~First(file, i))
    BY <1>2, <1>3 DEF First, SortedSoFar
  <1>8. q.seen = IF row.valid THEN p.seen \cup {row.name} ELSE p.seen
    BY <1>1 DEF SortedSoFar
  <1>9. q.add = IF First(file, i) /\ ~HasRow(t, row.name) THEN p.add \cup {i} ELSE p.add
    BY <1>1 DEF SortedSoFar
  <1>10. q.restore = IF First(file, i) /\ HasRow(t, row.name) /\ ~ActiveName(t, row.name)
                     THEN p.restore \cup {i} ELSE p.restore
    BY <1>1 DEF SortedSoFar
  <1>11. q.duplicate = IF row.valid /\ ~First(file, i) THEN p.duplicate \cup {i} ELSE p.duplicate
    BY <1>1 DEF SortedSoFar
  <1>12. q.exists = IF First(file, i) /\ ActiveName(t, row.name) THEN p.exists \cup {i} ELSE p.exists
    BY <1>1 DEF SortedSoFar
  <1>13. q.invalid = IF ~row.valid THEN p.invalid \cup {i} ELSE p.invalid
    BY <1>1 DEF SortedSoFar
  <1>14. /\ p = [seen |-> p.seen, add |-> p.add, restore |-> p.restore, duplicate |-> p.duplicate,
                 exists |-> p.exists, invalid |-> p.invalid]
         /\ q = [seen |-> q.seen, add |-> q.add, restore |-> q.restore, duplicate |-> q.duplicate,
                 exists |-> q.exists, invalid |-> q.invalid]
    BY DEF SortedSoFar
  <1>15. First(file, i) => row.valid
    BY DEF First
  <1> HIDE DEF p, q, row, e
  <1>20. CASE ~row.valid
    <2>1. SortRow(p, row, i, e) = [p EXCEPT !.invalid = @ \cup {i}]
      BY <1>20 DEF SortRow
    <2>2. q = [seen |-> p.seen, add |-> p.add, restore |-> p.restore, duplicate |-> p.duplicate,
               exists |-> p.exists, invalid |-> p.invalid \cup {i}]
      BY <1>20, <1>8, <1>9, <1>10, <1>11, <1>12, <1>13, <1>14, <1>15
    <2>3. SortRow(p, row, i, e) = q
      BY <2>1, <2>2, <1>14
    <2> QED BY <2>3 DEF p, q, row, e
  <1>21. CASE row.valid /\ ~First(file, i)
    <2>1. SortRow(p, row, i, e) = [p EXCEPT !.duplicate = @ \cup {i}]
      BY <1>21, <1>7 DEF SortRow
    <2>2. row.name \in p.seen
      BY <1>21, <1>7
    <2>3. q = [seen |-> p.seen, add |-> p.add, restore |-> p.restore, duplicate |-> p.duplicate \cup {i},
               exists |-> p.exists, invalid |-> p.invalid]
      BY <2>2, <1>21, <1>8, <1>9, <1>10, <1>11, <1>12, <1>13, <1>14
    <2>4. SortRow(p, row, i, e) = q
      BY <2>1, <2>3, <1>14
    <2> QED BY <2>4 DEF p, q, row, e
  <1>22. CASE First(file, i)
    <2> DEFINE noted == [p EXCEPT !.seen = @ \cup {row.name}]
    <2>0. row.valid /\ row.name \notin p.seen
      BY <1>22, <1>7, <1>15
    <2>1. noted = [seen |-> p.seen \cup {row.name}, add |-> p.add, restore |-> p.restore,
                   duplicate |-> p.duplicate, exists |-> p.exists, invalid |-> p.invalid]
      <3> DEFINE more == p.seen \cup {row.name}
                 after == [seen |-> more, add |-> p.add, restore |-> p.restore,
                           duplicate |-> p.duplicate, exists |-> p.exists, invalid |-> p.invalid]
      <3>1. noted = [p EXCEPT !.seen = more]
        OBVIOUS
      <3> HIDE DEF more
      <3>2. [p EXCEPT !.seen = more] = after
        BY <1>14
      <3> HIDE DEF noted, after
      <3>3. noted = after
        BY <3>1, <3>2
      <3> QED BY <3>3 DEF more, after
    <2> HIDE DEF noted
    <2>2. SortRow(p, row, i, e) =
            IF row.name \in DOMAIN e /\ e[row.name] THEN [noted EXCEPT !.exists = @ \cup {i}]
            ELSE IF row.name \in DOMAIN e THEN [noted EXCEPT !.restore = @ \cup {i}]
            ELSE [noted EXCEPT !.add = @ \cup {i}]
      BY <2>0 DEF SortRow, noted
    <2>3. CASE ActiveName(t, row.name)
      <3>1. SortRow(p, row, i, e) = [noted EXCEPT !.exists = @ \cup {i}]
        BY <2>2, <2>3, <1>4, <1>5, <1>6
      <3>2. q = [seen |-> p.seen \cup {row.name}, add |-> p.add, restore |-> p.restore,
                 duplicate |-> p.duplicate, exists |-> p.exists \cup {i}, invalid |-> p.invalid]
        BY <2>0, <2>3, <1>22, <1>6, <1>8, <1>9, <1>10, <1>11, <1>12, <1>13, <1>14
      <3>3. SortRow(p, row, i, e) = q
        BY <3>1, <3>2, <2>1
      <3> QED BY <3>3 DEF p, q, row, e
    <2>4. CASE HasRow(t, row.name) /\ ~ActiveName(t, row.name)
      <3>1. SortRow(p, row, i, e) = [noted EXCEPT !.restore = @ \cup {i}]
        BY <2>2, <2>4, <1>4, <1>5
      <3>2. q = [seen |-> p.seen \cup {row.name}, add |-> p.add, restore |-> p.restore \cup {i},
                 duplicate |-> p.duplicate, exists |-> p.exists, invalid |-> p.invalid]
        BY <2>0, <2>4, <1>22, <1>8, <1>9, <1>10, <1>11, <1>12, <1>13, <1>14
      <3>3. SortRow(p, row, i, e) = q
        BY <3>1, <3>2, <2>1
      <3> QED BY <3>3 DEF p, q, row, e
    <2>5. CASE ~HasRow(t, row.name)
      <3>1. SortRow(p, row, i, e) = [noted EXCEPT !.add = @ \cup {i}]
        BY <2>2, <2>5, <1>4
      <3>2. q = [seen |-> p.seen \cup {row.name}, add |-> p.add \cup {i}, restore |-> p.restore,
                 duplicate |-> p.duplicate, exists |-> p.exists, invalid |-> p.invalid]
        BY <2>0, <2>5, <1>22, <1>6, <1>8, <1>9, <1>10, <1>11, <1>12, <1>13, <1>14
      <3>3. SortRow(p, row, i, e) = q
        BY <3>1, <3>2, <2>1
      <3> QED BY <3>3 DEF p, q, row, e
    <2> QED BY <2>3, <2>4, <2>5
  <1> QED BY <1>20, <1>21, <1>22, <1>15

\* planImport sorts every row of every file as its result is defined.
THEOREM PlanIsSorted ==
  ASSUME NEW file \in Seq(FileRow), NEW t
  PROVE  Sorted(file, t)
  <1> DEFINE e == TargetNames(t)
  <1>1. Len(file) \in Nat /\ DOMAIN file = 1..Len(file)
    OBVIOUS
  <1>2. PICK g : Pass(file, e, Len(file), g) /\ planImport(file, e) = g[Len(file)]
    BY <1>1, PassExists
  <1> HIDE DEF e
  <1>3. \A i \in 0..Len(file) : g[i] = IF i = 0 THEN NoPlan ELSE SortRow(g[i - 1], file[i], i, e)
    BY <1>2, <1>1 DEF Pass
  <1> DEFINE T == {n \in 0..Len(file) : g[n] # SortedSoFar(file, t, n)}
  <1>4. T = {}
    <2> SUFFICES ASSUME T # {} PROVE FALSE
      OBVIOUS
    <2>1. PICK n \in T : \A m \in T : n <= m
      <3>1. T \subseteq Nat
        BY <1>1
      <3> HIDE DEF T
      <3> QED BY <3>1, LeastRow
    <2>2. n \in 0..Len(file) /\ g[n] # SortedSoFar(file, t, n)
      BY <2>1
    <2>3. CASE n = 0
      <3>1. SortedSoFar(file, t, 0) = NoPlan
        <4>1. 1..0 = {}
          OBVIOUS
        <4> QED BY <4>1 DEF SortedSoFar, NoPlan
      <3> QED BY <2>2, <2>3, <3>1, <1>3
    <2>4. CASE n # 0
      <3>1. n - 1 \in 0..Len(file) /\ n - 1 \notin T /\ n \in 1..Len(file)
        BY <1>1, <2>1, <2>2, <2>4
      <3>2. g[n - 1] = SortedSoFar(file, t, n - 1)
        BY <3>1
      <3>3. g[n] = SortRow(g[n - 1], file[n], n, e)
        BY <1>3, <2>2, <2>4
      <3> HIDE DEF T
      <3> QED BY <1>1, <2>2, <3>1, <3>2, <3>3, RowSorted DEF e
    <2> QED BY <2>3, <2>4
  <1>5. planImport(file, e) = SortedSoFar(file, t, Len(file))
    <2>1. Len(file) \notin T /\ Len(file) \in 0..Len(file)
      BY <1>1, <1>4
    <2> QED BY <2>1, <1>2
  <1>6. \A m : ActiveName(t, m) => HasRow(t, m)
    BY DEF ActiveName, HasRow
  <1> HIDE DEF T
  <1>7. planImport(file, TargetNames(t)) = SortedSoFar(file, t, Len(file))
    BY <1>5 DEF e
  <1> QED BY <1>1, <1>6, <1>7 DEF Sorted, SortedSoFar, Added, Restored, Duplicate, First

=============================================================================
