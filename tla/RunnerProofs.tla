---------------------------- MODULE RunnerProofs ----------------------------
(***************************************************************************)
(* What TLAPS proves of Runner, for any number of concurrent requests,     *)
(* names, rows and loops, with or without database faults, and whether or  *)
(* not requests outlive the shutdown's grace period.                       *)
(***************************************************************************)
EXTENDS Runner, TargetTableProofs, TLAPS

Phases == {"boot", "up", "drain", "join", "stopped", "down"}
Labels == {"idle", "read", "lock", "retire", "ensure", "register"}

\* Two running targets never have the same name: RemoveTarget and
\* RenameTarget, which know a target by its name only, cannot hit another
\* running target.
DistinctLive ==
  \A i, j \in Ids :
    live[i] # NoLoop /\ live[j] # NoLoop /\ LoopOf(i).name = LoopOf(j).name => i = j

\* A snapshot of the active rows inherits the uniqueness of ids and names.
FreshDistinct ==
  \A p \in Procs : \A t, u \in fresh[p] :
    t.id = u.id \/ t.name = u.name => t = u

\* apply runs under Runner.mu.
Locked == \A p \in Procs : pc[p] \in {"retire", "ensure", "register"} => mu = p

\* After the first loop of apply, whatever still runs is what the snapshot
\* wants.
EnsureKeeps ==
  \A p \in Procs : pc[p] \in {"ensure", "register"} =>
    \A i \in Ids : live[i] # NoLoop => LoopOf(i) \in fresh[p]

\* EnsureTarget registers a target that the snapshot wants and nobody runs.
RegisterMissing ==
  \A p \in Procs : pc[p] = "register" =>
    found \in Found /\ found.cfg \in fresh[p] /\ live[found.cfg.id] = NoLoop

\* Only running loops are being stopped, and a running loop has its target.
SlotsOK == stopC \subseteq Running /\ \A l \in Running : loopCfg[l] # NoCfg

IInv ==
  /\ TypeOK
  /\ LoopsMatchLive
  /\ LiveRegistered
  /\ DistinctLive
  /\ FreshDistinct
  /\ Locked
  /\ EnsureKeeps
  /\ RegisterMissing
  /\ SlotsOK

-----------------------------------------------------------------------------
\* A new database with nothing running satisfies the invariant (store.go:
\* NewStore; app.go: startApp).
LEMMA InitInv == Init => IInv
  <1> SUFFICES ASSUME Init PROVE IInv
    OBVIOUS
  <1> USE RunnerAssumption DEF Init, TypeOK
  <1>1. TypeOK
    <2>1. TableTypeOK
      <3> DEFINE r == [name |-> DemoName, addr |-> DemoAddr, active |-> TRUE]
      <3>1. r \in Row /\ rows = <<r>>
        BY DEF Row, AnyAddr
      <3> QED BY <3>1, TableAssumption DEF TableTypeOK, WellFormed
    <2>2. ids \in [Names -> Ids \cup {0}]
      BY DEF Unregistered
    <2> QED BY <2>1, <2>2 DEF Procs
  <1>2. LoopsMatchLive /\ LiveRegistered /\ DistinctLive /\ SlotsOK
    BY DEF LoopsMatchLive, LiveRegistered, DistinctLive, SlotsOK, Running
  <1>3. FreshDistinct /\ Locked /\ EnsureKeeps /\ RegisterMissing
    BY DEF FreshDistinct, Locked, EnsureKeeps, RegisterMissing
  <1> QED BY <1>1, <1>2, <1>3 DEF IInv

\* The handlers touch the table and their own label only.
LEMMA RequestInv ==
  ASSUME IInv, NEW h \in Admins, Request(h)
  PROVE  IInv'
  <1> USE DEF IInv, TypeOK, history, Accept
  <1>1. TableTypeOK'
    <2>1. CASE Create(h) \/ CreateLosesId(h)
      <3>1. PICK n \in Names, a \in Addrs : CreateTarget(n, a)
        BY <2>1 DEF Create, CreateLosesId
      <3>2. 1 \in Ids
        BY RunnerAssumption, TableAssumption DEF Ids
      <3> QED BY <3>1, <3>2, WritesWellFormed
    <2>2. CASE Import(h)
      <3>1. PICK n \in Names, m \in Names, a \in Addrs, b \in Addrs : ImportTargets(n, a, m, b)
        BY <2>2 DEF Import
      <3>2. 1 \in Ids
        BY RunnerAssumption, TableAssumption DEF Ids
      <3> QED BY <3>1, <3>2, WritesWellFormed
    <2>3. CASE Update(h)
      <3>1. PICK i \in Ids, n \in Names, a \in Addrs : UpdateTarget(i, n, a)
        BY <2>3 DEF Update
      <3> QED BY <3>1, WritesWellFormed
    <2>4. CASE Delete(h)
      <3>1. PICK i \in Ids : DeactivateTarget(i)
        BY <2>4 DEF Delete
      <3> QED BY <3>1, RunnerAssumption, WritesWellFormed
    <2> QED BY <2>1, <2>2, <2>3, <2>4 DEF Request
  <1>2. /\ UNCHANGED <<phase, fresh, mu, found, live, ids, loopVars, filed>>
        /\ newest' \in {newest, Stale} /\ mixed' \in BOOLEAN
        /\ pc[h] = "idle"
        /\ pc' = [pc EXCEPT ![h] = "read"] \/ pc' = pc
    BY DEF Request, Create, CreateLosesId, Import, Update, Delete, WriteDone,
           Failed, Goto, handlerVars
  <1>3. h \in Procs
    BY DEF Procs
  <1>4. TypeOK'
    BY <1>1, <1>2, <1>3 DEF loopVars
  <1>5. \A p \in Procs : pc'[p] \in {"retire", "ensure", "register"} => pc'[p] = pc[p]
    BY <1>2, <1>3
  <1>6. LoopsMatchLive' /\ LiveRegistered' /\ DistinctLive' /\ SlotsOK'
    BY <1>2 DEF LoopsMatchLive, LiveRegistered, DistinctLive, SlotsOK,
                Running, LoopOf, loopVars
  <1>7. FreshDistinct' /\ Locked' /\ EnsureKeeps' /\ RegisterMissing'
    BY <1>2, <1>5 DEF FreshDistinct, Locked, EnsureKeeps, RegisterMissing, LoopOf, loopVars
  <1> QED BY <1>4, <1>6, <1>7

\* Reading the active rows keeps it: the snapshot holds one target per id.
LEMMA ReadActiveInv ==
  ASSUME IInv, NEW p \in Procs, ReadActive(p)
  PROVE  IInv'
  <1> USE DEF IInv, TypeOK, history, ReadActive, Goto, loopVars
  <1>1. TypeOK'
    BY SnapshotDistinct DEF TableTypeOK
  <1>2. LoopsMatchLive' /\ LiveRegistered' /\ DistinctLive' /\ SlotsOK'
    BY DEF LoopsMatchLive, LiveRegistered, DistinctLive, SlotsOK, Running, LoopOf
  <1>3. FreshDistinct'
    BY SnapshotDistinct DEF FreshDistinct
  <1>4. \A q \in Procs : pc'[q] \in {"retire", "ensure", "register"} =>
          q # p /\ pc'[q] = pc[q] /\ fresh'[q] = fresh[q]
    OBVIOUS
  <1>5. Locked' /\ EnsureKeeps' /\ RegisterMissing'
    BY <1>4 DEF Locked, EnsureKeeps, RegisterMissing, LoopOf
  <1> QED BY <1>1, <1>2, <1>3, <1>5

\* A failed read keeps it: the table and the loops are as they were.
LEMMA ReadFailsInv ==
  ASSUME IInv, NEW p \in Procs, ReadFails(p)
  PROVE  IInv'
  <1> USE DEF IInv, TypeOK, history, ReadFails, Failed, Goto, loopVars
  <1>1. TypeOK'
    BY DEF TableTypeOK
  <1>2. LoopsMatchLive' /\ LiveRegistered' /\ DistinctLive' /\ SlotsOK'
    BY DEF LoopsMatchLive, LiveRegistered, DistinctLive, SlotsOK, Running, LoopOf
  <1>3. \A q \in Procs : pc'[q] \in {"retire", "ensure", "register"} => pc'[q] = pc[q]
    OBVIOUS
  <1>4. FreshDistinct' /\ Locked' /\ EnsureKeeps' /\ RegisterMissing'
    BY <1>3 DEF FreshDistinct, Locked, EnsureKeeps, RegisterMissing, LoopOf
  <1> QED BY <1>1, <1>2, <1>4

\* Taking Runner.mu keeps it: nothing is half applied while it is free.
LEMMA LockInv ==
  ASSUME IInv, NEW p \in Procs, Lock(p)
  PROVE  IInv'
  <1> USE DEF IInv, TypeOK, history, Lock, TakenUp, Goto, loopVars
  <1>1. TypeOK'
    BY DEF TableTypeOK
  <1>2. LoopsMatchLive' /\ LiveRegistered' /\ DistinctLive' /\ SlotsOK'
    BY DEF LoopsMatchLive, LiveRegistered, DistinctLive, SlotsOK, Running, LoopOf
  <1>3. \A q \in Procs : pc[q] \notin {"retire", "ensure", "register"}
    BY RunnerAssumption DEF Locked
  <1>4. FreshDistinct' /\ Locked' /\ EnsureKeeps' /\ RegisterMissing'
    BY <1>3 DEF FreshDistinct, Locked, EnsureKeeps, RegisterMissing
  <1> QED BY <1>1, <1>2, <1>4

\* Going on to the second loop of apply keeps it: what is left live is wanted.
LEMMA RetireDoneInv ==
  ASSUME IInv, NEW p \in Procs, RetireDone(p)
  PROVE  IInv'
  <1> USE DEF IInv, TypeOK, history, RetireDone, Goto, loopVars
  <1>1. TypeOK'
    BY DEF TableTypeOK
  <1>2. LoopsMatchLive' /\ LiveRegistered' /\ DistinctLive' /\ SlotsOK'
    BY DEF LoopsMatchLive, LiveRegistered, DistinctLive, SlotsOK, Running, LoopOf
  <1>3. FreshDistinct' /\ Locked' /\ RegisterMissing'
    BY DEF FreshDistinct, Locked, RegisterMissing
  <1>4. EnsureKeeps'
    BY DEF EnsureKeeps, LoopOf, Changed, Unchanged
  <1> QED BY <1>1, <1>2, <1>3, <1>4

\* The heart of apply: a retired target takes only its own name along.
LEMMA RetireInv ==
  ASSUME IInv, NEW p \in Procs, NEW i \in Ids, Retire(p, i)
  PROVE  IInv'
  <1> USE DEF IInv, TypeOK, history
  <1>1. /\ pc[p] = "retire" /\ live[i] # NoLoop
        /\ stopC' = stopC \cup {live[i]}
        /\ live' = [live EXCEPT ![i] = NoLoop]
        /\ UNCHANGED <<rows, phase, pc, fresh, mu, found, loopState, loopCfg, filed, history>>
    BY DEF Retire, Changed, handlerVars
  <1>2. LoopOf(i) \in TargetCfg /\ LoopOf(i).name \in Names /\ live[i] \in Running \ stopC
    BY <1>1 DEF LoopsMatchLive, LoopOf, Running, TargetCfg
  <1>3. /\ ids' \in [Names -> Ids \cup {0}]
        /\ \A n \in Names : n # LoopOf(i).name /\ ids[n] # 0 => ids'[n] # 0
    <2>1. CASE RemoveTarget(LoopOf(i).name)
      BY <1>2, <2>1 DEF RemoveTarget
    <2>2. CASE \E t \in fresh[p] : RenameTarget(LoopOf(i).name, t.name)
      <3>1. PICK t \in fresh[p] : RenameTarget(LoopOf(i).name, t.name)
        BY <2>2
      <3>2. t.name \in Names
        BY DEF TargetCfg
      <3> QED BY <1>2, <3>1, <3>2 DEF RenameTarget
    <2>3. CASE ids' = ids
      BY <2>3
    <2> QED BY <2>1, <2>2, <2>3 DEF Retire
  <1>4. TypeOK'
    BY <1>1, <1>2, <1>3 DEF TableTypeOK, Running
  <1>5. LoopsMatchLive' /\ DistinctLive' /\ SlotsOK'
    BY <1>1, <1>2, RunnerAssumption
    DEF LoopsMatchLive, DistinctLive, SlotsOK, Running, LoopOf
  <1>6. LiveRegistered'
    <2> SUFFICES ASSUME NEW j \in Ids, live'[j] # NoLoop
                 PROVE  ids'[loopCfg[live[j]].name] # 0 /\ live'[j] = live[j]
      BY <1>1 DEF LiveRegistered, LoopOf
    <2>1. j # i /\ live'[j] = live[j] /\ live[j] # NoLoop
      BY <1>1
    <2>2. LoopOf(j).name # LoopOf(i).name /\ LoopOf(j).name \in Names
      BY <1>1, <2>1 DEF DistinctLive, LoopsMatchLive, LoopOf, TargetCfg, Running
    <2> QED BY <1>3, <2>1, <2>2 DEF LiveRegistered, LoopOf
  <1>7. FreshDistinct' /\ Locked' /\ EnsureKeeps' /\ RegisterMissing'
    BY <1>1 DEF FreshDistinct, Locked, EnsureKeeps, RegisterMissing, LoopOf
  <1> QED BY <1>4, <1>5, <1>6, <1>7

\* A started loop is the only one of its target, and no other running target
\* has its name.
LEMMA StartLoopInv ==
  ASSUME IInv, NEW p \in Procs, pc[p] \in {"ensure", "register"},
         NEW t \in Missing(p), StartLoop(t),
         ids' \in [Names -> Ids \cup {0}],
         \A n \in Names : ids[n] # 0 => ids'[n] # 0,
         ids'[t.name] # 0,
         UNCHANGED <<rows, phase, fresh, mu, filed, history>>,
         pc' = [pc EXCEPT ![p] = "ensure"],
         found' \in Found \cup {NotFound}
  PROVE  IInv'
  <1> USE DEF IInv, TypeOK, history
  <1>1. t \in fresh[p] /\ t \in TargetCfg /\ live[t.id] = NoLoop /\ t.id \in Ids /\ t.name \in Names
    BY DEF Missing, TargetCfg
  <1>2. PICK l \in LoopIds :
          /\ loopState[l] = "free"
          /\ live' = [live EXCEPT ![t.id] = l]
          /\ loopState' = [loopState EXCEPT ![l] = "probing"]
          /\ loopCfg' = [loopCfg EXCEPT ![l] = t]
          /\ stopC' = stopC
    BY DEF StartLoop
  <1>3. TypeOK'
    BY <1>1, <1>2 DEF TableTypeOK
  <1>4. l # NoLoop /\ t # NoCfg /\ l \notin stopC /\ \A j \in Ids : live[j] # l
    BY <1>1, <1>2, RunnerAssumption DEF LoopsMatchLive, SlotsOK, Running
  <1>5. Running' = Running \cup {l}
    BY <1>2 DEF Running
  <1>6. /\ LoopOf(t.id)' = t
        /\ \A j \in Ids \ {t.id} : live'[j] = live[j] /\ LoopOf(j)' = LoopOf(j)
    <2>1. \A j \in Ids \ {t.id} : live'[j] = live[j] /\ live[j] # l
      BY <1>2, <1>4
    <2>2. \A j \in Ids : live[j] \in LoopIds \cup {NoLoop}
      OBVIOUS
    <2>3. loopCfg'[l] = t /\ \A k : k # l => loopCfg'[k] = loopCfg[k]
      BY <1>2
    <2> QED BY <1>1, <1>2, <2>1, <2>2, <2>3 DEF LoopOf
  <1>7. LoopsMatchLive'
    <2>1. \A j \in Ids : live'[j] # NoLoop =>
            /\ live'[j] \in Running' \ stopC'
            /\ LoopOf(j)' # NoCfg
            /\ LoopOf(j)'.id = j
      BY <1>1, <1>2, <1>4, <1>5, <1>6 DEF LoopsMatchLive
    <2>2. ASSUME NEW k \in Running' \ stopC'
          PROVE  loopCfg'[k] # NoCfg /\ live'[loopCfg'[k].id] = k
      <3>1. CASE k = l
        BY <1>1, <1>2, <1>4, <3>1
      <3>2. CASE k # l
        <4>1. k \in Running \ stopC /\ loopCfg'[k] = loopCfg[k]
          BY <1>2, <1>5, <2>2, <3>2
        <4>2. loopCfg[k] # NoCfg /\ live[loopCfg[k].id] = k /\ k # NoLoop
          BY <4>1, RunnerAssumption DEF LoopsMatchLive, Running
        <4>3. loopCfg[k].id # t.id
          BY <1>1, <4>2
        <4> QED BY <1>2, <4>1, <4>2, <4>3
      <3> QED BY <3>1, <3>2
    <2> QED BY <2>1, <2>2 DEF LoopsMatchLive
  <1>8. LiveRegistered'
    <2>1. \A j \in Ids \ {t.id} : live[j] # NoLoop => LoopOf(j).name \in Names
      BY DEF LoopsMatchLive, LoopOf, Running, TargetCfg
    <2> QED BY <1>1, <1>6, <2>1 DEF LiveRegistered
  <1>9. \A j \in Ids \ {t.id} : live[j] # NoLoop => LoopOf(j).name # t.name
    <2> SUFFICES ASSUME NEW j \in Ids, j # t.id, live[j] # NoLoop
                 PROVE  LoopOf(j).name # t.name
      OBVIOUS
    <2>1. LoopOf(j) \in fresh[p] /\ LoopOf(j).id = j
      BY DEF EnsureKeeps, LoopsMatchLive
    <2> QED BY <1>1, <2>1 DEF FreshDistinct
  <1>10. DistinctLive'
    BY <1>6, <1>9 DEF DistinctLive
  <1>11. SlotsOK'
    <2>1. stopC' \subseteq Running'
      BY <1>2, <1>5 DEF SlotsOK
    <2>2. \A k \in Running' : loopCfg'[k] # NoCfg
      BY <1>2, <1>4, <1>5 DEF SlotsOK, Running
    <2> QED BY <2>1, <2>2 DEF SlotsOK
  <1>12. \A q \in Procs \ {p} : pc'[q] \notin {"retire", "ensure", "register"}
    BY <1>3 DEF Locked
  <1>13. FreshDistinct' /\ Locked' /\ RegisterMissing'
    BY <1>12 DEF FreshDistinct, Locked, RegisterMissing
  <1>14. EnsureKeeps'
    BY <1>1, <1>6, <1>12 DEF EnsureKeeps
  <1> QED BY <1>3, <1>7, <1>8, <1>10, <1>11, <1>13, <1>14

\* Starting the loop of a registered name keeps it (EnsureTarget's early
\* return).
LEMMA EnsureKnownInv ==
  ASSUME IInv, NEW p \in Procs, NEW t \in fresh[p], EnsureKnown(p, t)
  PROVE  IInv'
  <1>1. pc' = [pc EXCEPT ![p] = "ensure"]
    BY DEF EnsureKnown, handlerVars, IInv, TypeOK
  <1> QED BY <1>1, StartLoopInv DEF EnsureKnown, handlerVars, IInv, TypeOK

\* Finding or inserting the row of a name keeps it (EnsureTarget's query).
LEMMA EnsureQueryInv ==
  ASSUME IInv, NEW p \in Procs, NEW t \in fresh[p], EnsureQuery(p, t)
  PROVE  IInv'
  <1> USE DEF IInv, TypeOK, history
  <1>1. t \in TargetCfg /\ t.name \in Names /\ live[t.id] = NoLoop
    BY DEF EnsureQuery, Missing, TargetCfg
  <1>2. TableTypeOK' /\ found' \in Found /\ found'.cfg = t
    <2>1. CASE HasRow(rows, t.name) /\ rows' = rows
                 /\ found' = [cfg |-> t, row |-> IdOf(rows, t.name)]
      <3>1. IdOf(rows, t.name) \in Ids
        BY <2>1, IdOfRow, TableAssumption DEF TableTypeOK, WellFormed, Ids
      <3> QED BY <1>1, <2>1, <3>1 DEF Found, TableTypeOK
    <2>2. CASE ~HasRow(rows, t.name) /\ Len(rows) < MaxRows
                 /\ rows' = Append(rows, BareRow(t.name))
                 /\ found' = [cfg |-> t, row |-> Len(rows) + 1]
      BY <1>1, <2>2, BareRowWellFormed DEF Found, TableTypeOK
    <2> QED BY <2>1, <2>2 DEF EnsureQuery
  <1>3. /\ pc[p] = "ensure"
        /\ pc' = [pc EXCEPT ![p] = "register"]
        /\ UNCHANGED <<phase, fresh, mu, live, ids, loopState, loopCfg, stopC, filed, history>>
    BY DEF EnsureQuery, Goto, loopVars
  <1>4. TypeOK'
    BY <1>2, <1>3
  <1>5. LoopsMatchLive' /\ LiveRegistered' /\ DistinctLive' /\ SlotsOK'
    BY <1>3 DEF LoopsMatchLive, LiveRegistered, DistinctLive, SlotsOK, Running, LoopOf
  <1>6. FreshDistinct' /\ Locked' /\ EnsureKeeps'
    BY <1>3 DEF FreshDistinct, Locked, EnsureKeeps, LoopOf
  <1>7. RegisterMissing'
    BY <1>1, <1>2, <1>3 DEF RegisterMissing, Locked
  <1> QED BY <1>4, <1>5, <1>6, <1>7

\* Skipping a target whose EnsureTarget failed keeps it (apply's continue).
LEMMA EnsureFailsInv ==
  ASSUME IInv, NEW p \in Procs, NEW t \in fresh[p], EnsureFails(p, t)
  PROVE  IInv'
  <1> USE DEF IInv, TypeOK, history, EnsureFails, Failed, loopVars
  <1>1. TypeOK'
    BY DEF TableTypeOK
  <1>2. LoopsMatchLive' /\ LiveRegistered' /\ DistinctLive' /\ SlotsOK'
    BY DEF LoopsMatchLive, LiveRegistered, DistinctLive, SlotsOK, Running, LoopOf
  <1>3. FreshDistinct' /\ Locked'
    BY DEF FreshDistinct, Locked
  <1>4. \A q \in Procs : q # p => pc[q] \notin {"retire", "ensure", "register"}
    BY DEF Locked
  <1>5. \A i \in Ids : live[i] # NoLoop => LoopOf(i) # t
    BY DEF LoopsMatchLive, Missing
  <1>6. EnsureKeeps' /\ RegisterMissing'
    BY <1>4, <1>5 DEF EnsureKeeps, RegisterMissing, LoopOf
  <1> QED BY <1>1, <1>2, <1>3, <1>6

\* Registering a name and starting its loop keeps it.
LEMMA RegisterInv ==
  ASSUME IInv, NEW p \in Procs, Register(p)
  PROVE  IInv'
  <1> USE DEF IInv, TypeOK, history
  <1>1. found \in Found /\ found.cfg \in Missing(p)
    BY DEF Register, RegisterMissing, Missing
  <1>2. found.cfg.name \in Names /\ found.row \in Ids /\ found.row # 0
    BY <1>1, TableAssumption DEF Found, TargetCfg, Ids
  <1>3. ids' = [ids EXCEPT ![found.cfg.name] = found.row]
    BY DEF Register
  <1>4. /\ ids' \in [Names -> Ids \cup {0}]
        /\ \A n \in Names : ids[n] # 0 => ids'[n] # 0
        /\ ids'[found.cfg.name] # 0
    BY <1>2, <1>3
  <1>5. /\ pc[p] \in {"ensure", "register"}
        /\ StartLoop(found.cfg)
        /\ UNCHANGED <<rows, phase, fresh, mu, filed, history>>
        /\ pc' = [pc EXCEPT ![p] = "ensure"]
        /\ found' \in Found \cup {NotFound}
    BY DEF Register, Goto
  <1> QED BY <1>1, <1>4, <1>5, StartLoopInv

\* The end of apply keeps it: everything wanted has its loop.
LEMMA UnlockInv ==
  ASSUME IInv, NEW p \in Procs, Unlock(p)
  PROVE  IInv'
  <1> USE DEF IInv, TypeOK, history, Unlock, Goto, loopVars
  <1>1. TypeOK'
    BY DEF TableTypeOK
  <1>2. LoopsMatchLive' /\ LiveRegistered' /\ DistinctLive' /\ SlotsOK'
    BY DEF LoopsMatchLive, LiveRegistered, DistinctLive, SlotsOK, Running, LoopOf
  <1>3. \A q \in Procs : pc'[q] \notin {"retire", "ensure", "register"}
    BY DEF Locked
  <1>4. FreshDistinct' /\ Locked' /\ EnsureKeeps' /\ RegisterMissing'
    BY <1>3 DEF FreshDistinct, Locked, EnsureKeeps, RegisterMissing
  <1> QED BY <1>1, <1>2, <1>4

-----------------------------------------------------------------------------
\* A probe loop changes its own slot, and frees it only when it was stopped.
LEMMA ProbeLoopInv ==
  ASSUME IInv, NEW l \in LoopIds, ProbeLoop(l)
  PROVE  IInv'
  <1> USE DEF IInv, TypeOK, history
  <1>1. UNCHANGED <<rows, phase, pc, fresh, mu, found, live, ids, history>>
    BY DEF ProbeLoop, FileRound, NextRound, ExitLoop, handlerVars
  <1>2. CASE FileRound(l) \/ NextRound(l)
    <2>1. /\ loopState' \in [LoopIds -> {"free", "probing", "waiting"}]
          /\ Running' = Running
          /\ UNCHANGED <<loopCfg, stopC>>
      BY <1>2 DEF FileRound, NextRound, Running
    <2>2. filed' \subseteq [row : Ids, of : Ids]
      <3>1. CASE NextRound(l)
        BY <3>1 DEF NextRound
      <3>2. CASE FileRound(l) /\ filed' = filed
        BY <3>2
      <3>3. CASE FileRound(l) /\ filed' # filed
        <4>1. l \in Running
          BY <3>3 DEF FileRound, Running
        <4>2. loopCfg[l] \in TargetCfg
          BY <4>1 DEF SlotsOK
        <4> QED BY <3>3, <4>2 DEF FileRound, TargetCfg
      <3> QED BY <1>2, <3>1, <3>2, <3>3
    <2>3. TypeOK'
      BY <1>1, <2>1, <2>2 DEF TableTypeOK
    <2>4. LoopsMatchLive' /\ LiveRegistered' /\ DistinctLive' /\ SlotsOK'
      BY <1>1, <2>1 DEF LoopsMatchLive, LiveRegistered, DistinctLive, SlotsOK, LoopOf
    <2>5. FreshDistinct' /\ Locked' /\ EnsureKeeps' /\ RegisterMissing'
      BY <1>1, <2>1 DEF FreshDistinct, Locked, EnsureKeeps, RegisterMissing, LoopOf
    <2> QED BY <2>3, <2>4, <2>5
  <1>3. CASE ExitLoop(l)
    <2>1. /\ l \in stopC
          /\ loopState' = [loopState EXCEPT ![l] = "free"]
          /\ loopCfg' = [loopCfg EXCEPT ![l] = NoCfg]
          /\ stopC' = stopC \ {l}
          /\ filed' = filed
      BY <1>3 DEF ExitLoop
    <2>2. TypeOK'
      BY <1>1, <2>1 DEF TableTypeOK
    <2>3. Running' = Running \ {l}
      BY <2>1 DEF Running
    <2>4. \A i \in Ids : live[i] # NoLoop => live[i] # l /\ LoopOf(i)' = LoopOf(i)
      BY <1>1, <2>1 DEF LoopsMatchLive, LoopOf
    <2>5. LoopsMatchLive' /\ LiveRegistered' /\ DistinctLive' /\ SlotsOK'
      BY <1>1, <2>1, <2>3, <2>4
      DEF LoopsMatchLive, LiveRegistered, DistinctLive, SlotsOK, Running
    <2>6. FreshDistinct' /\ Locked' /\ EnsureKeeps' /\ RegisterMissing'
      BY <1>1, <2>4 DEF FreshDistinct, Locked, EnsureKeeps, RegisterMissing
    <2> QED BY <2>2, <2>5, <2>6
  <1> QED BY <1>2, <1>3 DEF ProbeLoop

-----------------------------------------------------------------------------
\* Runner.Stop keeps it: every live loop is told to stop and none is live.
LEMMA StopLoopsInv ==
  ASSUME IInv, StopLoops
  PROVE  IInv'
  <1> USE DEF IInv, TypeOK, history, StopLoops, handlerVars
  <1>1. \A i \in Ids : live[i] # NoLoop => live[i] \in Running
    BY DEF LoopsMatchLive
  <1>2. stopC' \subseteq Running
    BY <1>1 DEF SlotsOK
  <1>3. TypeOK'
    BY <1>2 DEF TableTypeOK, Running
  <1>4. Running' = Running
    BY DEF Running
  <1>5. LoopsMatchLive' /\ LiveRegistered' /\ DistinctLive' /\ SlotsOK'
    <2>1. \A k \in Running \ stopC : k \in stopC'
      BY RunnerAssumption DEF LoopsMatchLive, Running, TargetCfg
    <2> QED BY <1>2, <1>4, <2>1
        DEF LoopsMatchLive, LiveRegistered, DistinctLive, SlotsOK
  <1>6. \A q \in Procs : pc'[q] \notin {"retire", "ensure", "register"}
    BY RunnerAssumption DEF Locked
  <1>7. FreshDistinct' /\ Locked' /\ EnsureKeeps' /\ RegisterMissing'
    BY <1>6 DEF FreshDistinct, Locked, EnsureKeeps, RegisterMissing
  <1> QED BY <1>3, <1>5, <1>7

\* CloseConsole and StopReturns only move the process on.
LEMMA PhaseInv ==
  ASSUME IInv, CloseConsole \/ StopReturns \/ UNCHANGED vars
  PROVE  IInv'
  <1> USE DEF IInv, TypeOK, history, vars, handlerVars, loopVars
  <1>1. UNCHANGED <<rows, handlerVars, live, ids, loopVars, filed, history>> /\ phase' \in Phases
    BY DEF CloseConsole, StopReturns, Phases
  <1>2. TypeOK'
    BY <1>1 DEF TableTypeOK, Phases
  <1>3. LoopsMatchLive' /\ LiveRegistered' /\ DistinctLive' /\ SlotsOK'
    BY <1>1 DEF LoopsMatchLive, LiveRegistered, DistinctLive, SlotsOK, Running, LoopOf
  <1>4. FreshDistinct' /\ Locked' /\ EnsureKeeps' /\ RegisterMissing'
    BY <1>1 DEF FreshDistinct, Locked, EnsureKeeps, RegisterMissing, LoopOf
  <1> QED BY <1>2, <1>3, <1>4

\* A crash or restart keeps it: the table is all that survives.
LEMMA RestartInv ==
  ASSUME IInv, Restart
  PROVE  IInv'
  <1> USE RunnerAssumption DEF IInv, TypeOK, history, Restart, Fresh
  <1>1. TypeOK'
    BY DEF TableTypeOK, Procs, Unregistered
  <1>2. LoopsMatchLive' /\ LiveRegistered' /\ DistinctLive' /\ SlotsOK'
    BY DEF LoopsMatchLive, LiveRegistered, DistinctLive, SlotsOK, Running
  <1>3. FreshDistinct' /\ Locked' /\ EnsureKeeps' /\ RegisterMissing'
    BY DEF FreshDistinct, Locked, EnsureKeeps, RegisterMissing
  <1> QED BY <1>1, <1>2, <1>3

\* Every step of the system keeps the invariant.
LEMMA NextInv == IInv /\ [Next]_vars => IInv'
  <1> SUFFICES ASSUME IInv, [Next]_vars PROVE IInv'
    OBVIOUS
  <1>1. CASE \E h \in Admins : Request(h)
    BY <1>1, RequestInv
  <1>2. ASSUME NEW p \in Procs, Reload(p) PROVE IInv'
    BY <1>2, ReadActiveInv, LockInv, RetireInv, RetireDoneInv, EnsureKnownInv,
       EnsureQueryInv, RegisterInv, UnlockInv DEF Reload
  <1>3. ASSUME NEW p \in Procs, Fail(p) PROVE IInv'
    BY <1>3, ReadFailsInv, EnsureFailsInv DEF Fail
  <1>4. CASE \E l \in LoopIds : ProbeLoop(l)
    BY <1>4, ProbeLoopInv
  <1>5. CASE StopLoops
    BY <1>5, StopLoopsInv
  <1>6. CASE CloseConsole \/ StopReturns \/ UNCHANGED vars
    BY <1>6, PhaseInv
  <1>7. CASE Restart
    BY <1>7, RestartInv
  <1> QED BY <1>1, <1>2, <1>3, <1>4, <1>5, <1>6, <1>7 DEF Next, Shutdown

-----------------------------------------------------------------------------
\* The inductive invariant holds in every state: of Runner.mu, the reload that
\* holds it and the loops (runner.go: apply, Stop).
THEOREM Invariance == Spec => []IInv
  BY InitInv, NextInv, PTL DEF Spec

\* Every variable keeps its type, and the table its UNIQUE names, under any
\* interleaving of requests, loops, failures, restarts and shutdown.
THEOREM TypeCorrect == Spec => []TypeOK
  BY Invariance, PTL DEF IInv

\* At any moment Runner.live and the loops nobody has told to stop are the
\* same: no orphan loop, no entry without a loop, no target probed twice.
THEOREM NoOrphanLoop == Spec => []LoopsMatchLive
  BY Invariance, PTL DEF IInv

\* The rounds of a running target always have a row to go to.
THEOREM NoDroppedRounds == Spec => []LiveRegistered
  BY Invariance, PTL DEF IInv

-----------------------------------------------------------------------------

(***************************************************************************)
(* The name registry.                                                      *)
(***************************************************************************)
\* The process is booting as long as startApp is at its Reload.
MainBoots == pc[Main] # "idle" => phase = "boot"

LiveName(n) == \E i \in Ids : live[i] # NoLoop /\ LoopOf(i).name = n

Applying(p) == pc[p] \in {"retire", "ensure", "register"}

\* A name is registered for a loop, or for a target that the Reload under way
\* has retired and is about to start again.
NamesInUse ==
  phase \in {"boot", "up", "drain"} =>
    \A n \in Names : ids[n] # 0 =>
      \/ LiveName(n)
      \/ \E p \in Procs : /\ Applying(p)
                          /\ \E t \in fresh[p] : t.name = n /\ live[t.id] = NoLoop

-----------------------------------------------------------------------------

(***************************************************************************)
(* Requests that have come one at a time, and a database that has answered. *)
(***************************************************************************)
Serving == phase \in {"boot", "up"}

\* What is probed is what the table says.
Agree == {LoopOf(i) : i \in {j \in Ids : live[j] # NoLoop}} = ActiveTargets

\* startApp's Reload is over before the first request.
Alone == \A p, q \in Procs : pc[p] # "idle" /\ pc[q] # "idle" => p = q

\* Nothing changes the rows between a Reload's read and its end.
UpToDate ==
  \A p \in Procs : pc[p] \in {"lock", "retire", "ensure", "register"} =>
    fresh[p] = ActiveTargets

\* EnsureTarget finds the row of the target itself.
FindsOwn == \A p \in Procs : pc[p] = "register" => found.row = found.cfg.id

\* A running loop's name belongs to no other row: one edit renames one row,
\* and to a name no row has.
NoClash ==
  \A i \in Ids : live[i] # NoLoop =>
    \A j \in DOMAIN rows : rows[j].name = LoopOf(i).name => j = i

\* Each name stands for the row of the target it is registered for.
OwnNames ==
  /\ \A i \in Ids : live[i] # NoLoop => ids[LoopOf(i).name] = i
  /\ \A n \in Names : ids[n] # 0 =>
       \/ LiveName(n)
       \/ \E p \in Procs :
            /\ Applying(p)
            /\ \E t \in fresh[p] : t.name = n /\ live[t.id] = NoLoop /\ ids[n] = t.id

OneInv ==
  Serving /\ ~mixed => /\ Alone /\ UpToDate /\ FindsOwn /\ NoClash /\ OwnNames
                       /\ Quiet => Agree

\* What overlapping requests rely on.  The Reload that has read the table last
\* waits for Runner.mu, applies what the table says, or has applied it, as long
\* as no request has written to the table since.
NewestInv ==
  /\ mu \in Procs => Applying(mu)
  /\ newest \in Procs => pc[newest] = "lock"
  /\ Serving /\ newest # Stale /\ (\A p \in Procs : pc[p] # "read") =>
       /\ newest \in Procs => fresh[newest] = ActiveTargets
       /\ newest = Free /\ mu \in Procs => fresh[mu] = ActiveTargets
       /\ newest = Free /\ mu = Free => Agree

\* At the start the process boots, and no name is registered.
LEMMA InitNames == Init => MainBoots /\ NamesInUse /\ OneInv /\ NewestInv
<1> SUFFICES ASSUME Init PROVE MainBoots /\ NamesInUse /\ OneInv /\ NewestInv
  OBVIOUS
<1>1. MainBoots /\ NamesInUse
  BY DEF Init, MainBoots, NamesInUse, Unregistered
<1>2. Alone /\ UpToDate /\ FindsOwn
  BY DEF Init, Alone, UpToDate, FindsOwn
<1>3. NoClash /\ OwnNames
  BY DEF Init, NoClash, OwnNames, Unregistered
<1>4. Quiet => Agree
  BY DEF Init, Quiet
<1>5. NewestInv
  <2>1. newest = Free /\ mu = Free /\ Main \in Procs /\ pc[Main] = "read"
    BY DEF Init, Procs
  <2> QED BY <2>1, RunnerAssumption DEF NewestInv
<1> QED BY <1>1, <1>2, <1>3, <1>4, <1>5 DEF OneInv

\* Only startApp's own steps end the boot.
LEMMA MainBootsNext == IInv /\ MainBoots /\ [Next]_vars => MainBoots'
<1> SUFFICES ASSUME IInv, MainBoots, [Next]_vars PROVE MainBoots'
  OBVIOUS
<1> USE RunnerAssumption DEF IInv, TypeOK, MainBoots, Goto
<1>1. Main \in Procs
  BY DEF Procs
<1>2. ASSUME NEW h \in Admins, Request(h) PROVE MainBoots'
  <2>1. h # Main /\ phase' = phase
    BY <1>2 DEF Request, Create, CreateLosesId, Import, Update, Delete, WriteDone
  <2>2. \A q \in Procs : q # h => pc'[q] = pc[q]
    BY <1>2 DEF Request, Create, CreateLosesId, Import, Update, Delete, WriteDone, handlerVars
  <2> QED BY <1>1, <2>1, <2>2
<1>3. ASSUME NEW p \in Procs, Reload(p) PROVE MainBoots'
  <2>1. CASE Unlock(p)
    BY <1>1, <1>3, <2>1 DEF Unlock
  <2>2. CASE ~Unlock(p)
    <3>1. phase' = phase
      BY <1>3, <2>2 DEF Reload, ReadActive, Lock, Retire, RetireDone, EnsureKnown, EnsureQuery,
                        Register
    <3>2. pc[p] # "idle" /\ \A q \in Procs : q # p => pc'[q] = pc[q]
      BY <1>3, <2>2 DEF Reload, ReadActive, Lock, Retire, RetireDone, EnsureKnown, EnsureQuery,
                        Register, handlerVars
    <3> QED BY <1>1, <3>1, <3>2
  <2> QED BY <2>1, <2>2
<1>4. ASSUME NEW p \in Procs, Fail(p) PROVE MainBoots'
  BY <1>1, <1>4 DEF Fail, ReadFails, EnsureFails
<1>5. ASSUME NEW l \in LoopIds, ProbeLoop(l) PROVE MainBoots'
  BY <1>5 DEF ProbeLoop, FileRound, NextRound, ExitLoop, handlerVars
<1>6. CASE CloseConsole \/ Shutdown \/ Restart
  <2>1. CASE CloseConsole \/ Shutdown
    BY <2>1 DEF CloseConsole, Shutdown, StopLoops, StopReturns, handlerVars
  <2>2. CASE Restart
    BY <2>2 DEF Restart, Fresh
  <2> QED BY <1>6, <2>1, <2>2
<1>7. CASE UNCHANGED vars
  BY <1>7 DEF vars, handlerVars
<1> QED BY <1>2, <1>3, <1>4, <1>5, <1>6, <1>7 DEF Next

\* A step that leaves the registry, the loops' targets and what a Reload
\* wants alone.
LEMMA NamesKept ==
  ASSUME NamesInUse, UNCHANGED <<live, ids>>,
         phase' \in {"boot", "up", "drain"} => phase \in {"boot", "up", "drain"},
         \A i \in Ids : live[i] # NoLoop => LoopOf(i)' = LoopOf(i),
         \A p \in Procs : Applying(p) => Applying(p)' /\ fresh'[p] = fresh[p]
  PROVE  NamesInUse'
<1>1. \A n : LiveName(n) => LiveName(n)'
  BY DEF LiveName
<1>2. ASSUME NEW n \in Names, NEW p \in Procs, Applying(p),
             \E t \in fresh[p] : t.name = n /\ live[t.id] = NoLoop
      PROVE  Applying(p)' /\ \E t \in fresh'[p] : t.name = n /\ live'[t.id] = NoLoop
  BY <1>2
<1> QED BY <1>1, <1>2 DEF NamesInUse

\* Stopping a loop takes its name along, or leaves it to the target that the
\* Reload will start in its place (runner.go:130-144).
LEMMA NamesRetire ==
  ASSUME IInv, NamesInUse, NEW p \in Procs, NEW i \in Ids, Retire(p, i)
  PROVE  NamesInUse'
<1> USE DEF IInv, TypeOK
<1>1. /\ pc[p] = "retire" /\ live[i] # NoLoop
      /\ live' = [live EXCEPT ![i] = NoLoop]
      /\ UNCHANGED <<phase, pc, fresh, loopCfg>>
  BY DEF Retire, Changed, handlerVars
<1> DEFINE old == LoopOf(i).name
<1>2. old \in Names /\ LoopOf(i) \in TargetCfg
  BY <1>1 DEF LoopsMatchLive, LoopOf, Running, TargetCfg
<1>3. \A j \in Ids \ {i} : live'[j] = live[j] /\ LoopOf(j)' = LoopOf(j)
  BY <1>1 DEF LoopOf
<1>4. \A n : n # old /\ LiveName(n) => LiveName(n)'
  BY <1>3 DEF LiveName
<1>5. \A t \in TargetCfg : live[t.id] = NoLoop => live'[t.id] = NoLoop
  BY <1>1 DEF TargetCfg
<1>6. ASSUME NEW n \in Names, n # old, ids[n] # 0, phase \in {"boot", "up", "drain"}
      PROVE  LiveName(n)' \/ \E q \in Procs : Applying(q)' /\ \E t \in fresh'[q] :
                                                t.name = n /\ live'[t.id] = NoLoop
  <2>1. CASE LiveName(n)
    BY <1>4, <1>6, <2>1
  <2>2. CASE ~LiveName(n)
    <3>1. PICK q \in Procs : Applying(q) /\ \E t \in fresh[q] : t.name = n /\ live[t.id] = NoLoop
      BY <1>6, <2>2 DEF NamesInUse
    <3>2. PICK t \in fresh[q] : t.name = n /\ live[t.id] = NoLoop
      BY <3>1
    <3>3. t \in TargetCfg /\ t \in fresh'[q] /\ live'[t.id] = NoLoop
      BY <1>1, <1>5, <3>2
    <3>4. Applying(q)'
      BY <1>1, <3>1 DEF Applying
    <3> QED BY <3>2, <3>3, <3>4
  <2> QED BY <2>1, <2>2
<1>7. CASE RemoveTarget(old)
  <2>1. \A n \in Names : ids'[n] # 0 => n # old /\ ids[n] # 0
    BY <1>2, <1>7 DEF RemoveTarget
  <2> QED BY <1>1, <1>6, <2>1 DEF NamesInUse
<1>8. ASSUME NEW t \in fresh[p], t.id = i, \/ t.name # old /\ RenameTarget(old, t.name)
                                           \/ t.name = old /\ ids' = ids
      PROVE  NamesInUse'
  <2>1. \A n \in Names : ids'[n] # 0 => n = t.name \/ (n # old /\ ids[n] # 0)
    BY <1>2, <1>8 DEF RenameTarget, TargetCfg
  <2>2. Applying(p)' /\ t \in fresh'[p] /\ live'[t.id] = NoLoop
    BY <1>1, <1>8 DEF Applying
  <2> QED BY <1>1, <1>6, <2>1, <2>2 DEF NamesInUse
<1> QED BY <1>7, <1>8 DEF Retire

\* A loop that is started uses its name, and takes no other one's.
LEMMA NamesStart ==
  ASSUME IInv, IInv', NamesInUse, NEW p \in Procs, NEW t \in Missing(p), StartLoop(t),
         Applying(p), Applying(p)', UNCHANGED <<phase, fresh>>,
         \A n \in Names : ids'[n] # 0 => ids[n] # 0 \/ n = t.name
  PROVE  NamesInUse'
<1> USE DEF IInv, TypeOK
<1>1. t \in fresh[p] /\ t \in TargetCfg /\ live[t.id] = NoLoop /\ t.id \in Ids
  BY DEF Missing, TargetCfg
<1>2. PICK l \in LoopIds : /\ loopState[l] = "free"
                           /\ live' = [live EXCEPT ![t.id] = l]
                           /\ loopCfg' = [loopCfg EXCEPT ![l] = t]
  BY DEF StartLoop
<1>3. l # NoLoop /\ \A j \in Ids : live[j] # l
  BY <1>2, RunnerAssumption DEF LoopsMatchLive, Running
<1>4. live'[t.id] = l /\ LoopOf(t.id)' = t
  BY <1>1, <1>2 DEF LoopOf
<1>5. \A j \in Ids \ {t.id} : live'[j] = live[j] /\ (live[j] # NoLoop => LoopOf(j)' = LoopOf(j))
  <2>1. \A j \in Ids \ {t.id} : live'[j] = live[j] /\ live[j] # l
    BY <1>2, <1>3
  <2>2. \A k \in LoopIds \ {l} : loopCfg'[k] = loopCfg[k]
    BY <1>2
  <2> QED BY <2>1, <2>2 DEF LoopOf
<1>6. \A n : LiveName(n) => LiveName(n)'
  BY <1>1, <1>5 DEF LiveName
<1>7. LiveName(t.name)'
  BY <1>1, <1>3, <1>4 DEF LiveName
<1>8. ASSUME NEW n \in Names, n # t.name, ids[n] # 0, ~LiveName(n),
             phase \in {"boot", "up", "drain"}
      PROVE  \E q \in Procs : Applying(q)' /\ \E u \in fresh'[q] : u.name = n /\ live'[u.id] = NoLoop
  <2>1. PICK q \in Procs : Applying(q) /\ \E u \in fresh[q] : u.name = n /\ live[u.id] = NoLoop
    BY <1>8 DEF NamesInUse
  <2>2. q = p
    BY <2>1 DEF Locked, Applying
  <2>3. PICK u \in fresh[p] : u.name = n /\ live[u.id] = NoLoop
    BY <2>1, <2>2
  <2>4. u.id # t.id /\ u.id \in Ids
    BY <1>1, <1>8, <2>3 DEF FreshDistinct, TargetCfg
  <2> QED BY <1>5, <2>3, <2>4
<1> QED BY <1>6, <1>7, <1>8 DEF NamesInUse

\* When a Reload is over, each of its targets runs or was given up before its
\* name was registered.
LEMMA NamesReload ==
  ASSUME IInv, IInv', NamesInUse, MainBoots, NEW p \in Procs, Reload(p) \/ Fail(p)
  PROVE  NamesInUse'
<1> USE DEF IInv, TypeOK, Goto
<1>1. CASE ReadActive(p) \/ Lock(p) \/ ReadFails(p) \/ RetireDone(p)
  <2>1. /\ UNCHANGED <<live, ids, loopCfg>> /\ \A q \in Procs : Applying(q) => Applying(q)'
        /\ \A q \in Procs : Applying(q) => fresh'[q] = fresh[q]
    BY <1>1 DEF ReadActive, Lock, ReadFails, RetireDone, Applying, loopVars
  <2>2. phase' = phase \/ phase' = "down"
    BY <1>1 DEF ReadActive, Lock, ReadFails, RetireDone
  <2> QED BY <2>1, <2>2, NamesKept DEF LoopOf
<1>2. ASSUME NEW i \in Ids, Retire(p, i) PROVE NamesInUse'
  BY <1>2, NamesRetire
<1>3. ASSUME NEW t \in fresh[p], EnsureKnown(p, t) PROVE NamesInUse'
  BY <1>3, NamesStart DEF EnsureKnown, handlerVars, Applying
<1>4. ASSUME NEW t \in fresh[p], EnsureQuery(p, t) PROVE NamesInUse'
  <2>1. /\ UNCHANGED <<live, ids, loopCfg, phase, fresh>>
        /\ \A q \in Procs : Applying(q) => Applying(q)'
    BY <1>4 DEF EnsureQuery, Applying, loopVars
  <2> QED BY <2>1, NamesKept DEF LoopOf
<1>5. ASSUME NEW t \in fresh[p], EnsureFails(p, t) PROVE NamesInUse'
  <2>1. /\ UNCHANGED <<live, ids, loopCfg, phase, pc>> /\ ids[t.name] = 0
        /\ \A q \in Procs : \A u \in fresh[q] : u \in fresh'[q] \/ u = t
    BY <1>5 DEF EnsureFails, loopVars
  <2>2. ASSUME NEW n \in Names, ids[n] # 0, NEW q \in Procs, Applying(q),
               \E u \in fresh[q] : u.name = n /\ live[u.id] = NoLoop
        PROVE  Applying(q)' /\ \E u \in fresh'[q] : u.name = n /\ live'[u.id] = NoLoop
    BY <2>1, <2>2 DEF Applying
  <2>3. \A n : LiveName(n) => LiveName(n)'
    BY <2>1 DEF LiveName, LoopOf
  <2> QED BY <2>1, <2>2, <2>3 DEF NamesInUse
<1>6. CASE Register(p)
  <2>1. found.cfg \in Missing(p) /\ found.cfg \in TargetCfg /\ found.cfg.name \in Names
    BY <1>6 DEF Register, RegisterMissing, Missing, TargetCfg
  <2>2. \A n \in Names : ids'[n] # 0 => ids[n] # 0 \/ n = found.cfg.name
    BY <1>6, <2>1 DEF Register
  <2>3. StartLoop(found.cfg) /\ UNCHANGED <<phase, fresh>> /\ Applying(p) /\ Applying(p)'
    BY <1>6 DEF Register, Applying
  <2> QED BY <2>1, <2>2, <2>3, NamesStart
<1>7. CASE Unlock(p)
  <2>1. /\ pc[p] = "ensure" /\ Missing(p) = {} /\ UNCHANGED <<live, ids, loopCfg>>
        /\ phase' = (IF p = Main THEN "up" ELSE phase)
    BY <1>7 DEF Unlock, loopVars
  <2>2. phase' \in {"boot", "up", "drain"} => phase \in {"boot", "up", "drain"}
    BY <2>1 DEF MainBoots
  <2>3. \A q \in Procs : Applying(q) => q = p
    BY <2>1 DEF Locked, Applying
  <2>4. \A t \in fresh[p] : live[t.id] # NoLoop
    BY <2>1 DEF Missing
  <2>5. \A n \in Names : ids[n] # 0 /\ phase \in {"boot", "up", "drain"} => LiveName(n)
    BY <2>3, <2>4 DEF NamesInUse
  <2>6. \A n : LiveName(n) => LiveName(n)'
    BY <2>1 DEF LiveName, LoopOf
  <2> QED BY <2>1, <2>2, <2>5, <2>6 DEF NamesInUse
<1> QED BY <1>1, <1>2, <1>3, <1>4, <1>5, <1>6, <1>7 DEF Reload, Fail

\* No step leaves a name behind.
LEMMA NamesNext == IInv /\ IInv' /\ MainBoots /\ NamesInUse /\ [Next]_vars => NamesInUse'
<1> SUFFICES ASSUME IInv, IInv', MainBoots, NamesInUse, [Next]_vars PROVE NamesInUse'
  OBVIOUS
<1> USE DEF IInv, TypeOK
<1>1. ASSUME NEW h \in Admins, Request(h) PROVE NamesInUse'
  <2>1. /\ UNCHANGED <<live, ids, loopCfg, phase, fresh>> /\ pc[h] = "idle"
        /\ \A q \in Procs : q # h => pc'[q] = pc[q]
    BY <1>1 DEF Request, Create, CreateLosesId, Import, Update, Delete, WriteDone, Goto, Accept,
                handlerVars, loopVars
  <2> QED BY <2>1, NamesKept DEF LoopOf, Applying
<1>2. ASSUME NEW l \in LoopIds, ProbeLoop(l) PROVE NamesInUse'
  <2>1. UNCHANGED <<live, ids, phase, fresh, pc>>
    BY <1>2 DEF ProbeLoop, FileRound, NextRound, ExitLoop, handlerVars
  <2>2. \A i \in Ids : live[i] # NoLoop => LoopOf(i)' = LoopOf(i)
    BY <1>2 DEF ProbeLoop, FileRound, NextRound, ExitLoop, LoopsMatchLive, LoopOf
  <2> QED BY <2>1, <2>2, NamesKept DEF Applying
<1>3. CASE CloseConsole \/ UNCHANGED vars
  <2>1. UNCHANGED <<live, ids, loopCfg, fresh, pc>>
        /\ (phase' \in {"boot", "up", "drain"} => phase \in {"boot", "up", "drain"})
    BY <1>3 DEF CloseConsole, vars, handlerVars, loopVars
  <2> QED BY <2>1, NamesKept DEF LoopOf, Applying
<1>4. CASE Shutdown \/ Restart
  BY <1>4 DEF Shutdown, StopLoops, StopReturns, Restart, Fresh, NamesInUse, Unregistered
<1> QED BY <1>1, <1>2, <1>3, <1>4, NamesReload DEF Next

\* Removed and renamed targets leave nothing behind in the registry, whatever
\* requests, failures and shutdowns meet (NoGhostNames; store.go:
\* RemoveTarget, RenameTarget).
THEOREM NothingLeftBehind == Spec => []NoGhostNames
<1>1. IInv /\ NamesInUse => NoGhostNames
  <2> SUFFICES ASSUME IInv, NamesInUse, mu = Free PROVE NoGhostNames
    BY DEF NoGhostNames
  <2>1. \A p \in Procs : ~Applying(p)
    BY RunnerAssumption DEF IInv, Locked, Applying
  <2> QED BY <2>1 DEF NamesInUse, NoGhostNames, LiveName
<1> QED BY <1>1, InitInv, NextInv, InitNames, MainBootsNext, NamesNext, PTL DEF Spec

-----------------------------------------------------------------------------
\* An upsert keeps the names of the rows there are.
LEMMA UpsertNames ==
  ASSUME NEW t, WellFormed(t), NEW n, NEW a
  PROVE  /\ DOMAIN t \subseteq DOMAIN Upsert(t, n, a)
         /\ \A k \in DOMAIN t : Upsert(t, n, a)[k].name = t[k].name
<1> DEFINE r == [name |-> n, addr |-> a, active |-> TRUE]
<1>1. CASE HasRow(t, n)
  <2>1. IdOf(t, n) \in DOMAIN t /\ t[IdOf(t, n)].name = n
    BY <1>1, IdOfRow
  <2>2. Upsert(t, n, a) = [t EXCEPT ![IdOf(t, n)] = r]
    BY <1>1 DEF Upsert
  <2>3. \A k \in DOMAIN t : [t EXCEPT ![IdOf(t, n)] = r][k] = IF k = IdOf(t, n) THEN r ELSE t[k]
    BY DEF WellFormed
  <2> QED BY <2>1, <2>2, <2>3 DEF WellFormed
<1>2. CASE ~HasRow(t, n)
  <2>1. Upsert(t, n, a) = Append(t, r)
    BY <1>2 DEF Upsert
  <2> QED BY <2>1 DEF WellFormed
<1> QED BY <1>1, <1>2

\* A row gets no name that was another row's when the edit began.
LEMMA EditNames ==
  ASSUME TableTypeOK, TableTypeOK', NEW h \in Admins, Request(h)
  PROVE  \A j \in DOMAIN rows' : \A k \in DOMAIN rows : rows'[j].name = rows[k].name => j = k
<1> USE DEF TableTypeOK, WellFormed
<1>1. ASSUME DOMAIN rows \subseteq DOMAIN rows',
             \A k \in DOMAIN rows : rows'[k].name = rows[k].name
      PROVE  \A j \in DOMAIN rows' : \A k \in DOMAIN rows : rows'[j].name = rows[k].name => j = k
  BY <1>1
<1>2. CASE Create(h) \/ CreateLosesId(h)
  <2>1. PICK n \in Names, a \in Addrs : CreateTarget(n, a)
    BY <1>2 DEF Create, CreateLosesId
  <2>2. rows' = Upsert(rows, n, a) /\ WellFormed(rows)
    BY <2>1 DEF CreateTarget
  <2>3. DOMAIN rows \subseteq DOMAIN rows' /\ \A k \in DOMAIN rows : rows'[k].name = rows[k].name
    BY <2>2, UpsertNames
  <2> QED BY <1>1, <2>3
<1>3. CASE Import(h)
  <2>1. PICK n \in Names, m \in Names, a \in Addrs, b \in Addrs : ImportTargets(n, a, m, b)
    BY <1>3 DEF Import
  <2> DEFINE u == Upsert(rows, n, a)
  <2>2. rows' = Upsert(u, m, b) /\ WellFormed(rows) /\ MayAdd(rows, n)
    BY <2>1 DEF ImportTargets
  <2>3. WellFormed(u)
    BY <2>2, UpsertWellFormed DEF AnyAddr
  <2>4. DOMAIN rows \subseteq DOMAIN u /\ \A k \in DOMAIN rows : u[k].name = rows[k].name
    BY <2>2, UpsertNames
  <2>5. DOMAIN u \subseteq DOMAIN rows' /\ \A k \in DOMAIN u : rows'[k].name = u[k].name
    BY <2>2, <2>3, UpsertNames
  <2> HIDE DEF u
  <2>6. DOMAIN rows \subseteq DOMAIN rows' /\ \A k \in DOMAIN rows : rows'[k].name = rows[k].name
    BY <2>4, <2>5
  <2> QED BY <1>1, <2>6
<1>4. CASE Update(h)
  <2>1. PICK i \in Ids, n \in Names, a \in Addrs : UpdateTarget(i, n, a)
    BY <1>4 DEF Update
  <2>2. /\ i \in DOMAIN rows /\ \A j \in DOMAIN rows \ {i} : rows[j].name # n
        /\ DOMAIN rows' = DOMAIN rows
        /\ rows'[i].name = n /\ \A j \in DOMAIN rows \ {i} : rows'[j] = rows[j]
    <3>1. i \in DOMAIN rows /\ rows[i] \in Row
      BY <2>1 DEF UpdateTarget
    <3> QED BY <2>1, <3>1 DEF UpdateTarget, Row
  <2> QED BY <2>2
<1>5. CASE Delete(h)
  <2>1. PICK i \in Ids : DeactivateTarget(i)
    BY <1>5 DEF Delete
  <2>2. DOMAIN rows' = DOMAIN rows /\ \A k \in DOMAIN rows : rows'[k].name = rows[k].name
    <3>1. i \in DOMAIN rows /\ rows[i] \in Row
      BY <2>1 DEF DeactivateTarget
    <3> QED BY <2>1, <3>1 DEF DeactivateTarget, Row
  <2> QED BY <1>1, <2>2
<1> QED BY <1>2, <1>3, <1>4, <1>5 DEF Request

\* What ActiveTargets has for a row.
LEMMA ActiveRow ==
  ASSUME TableTypeOK, NEW t \in ActiveTargets
  PROVE  t.id \in DOMAIN rows /\ rows[t.id].name = t.name /\ t.id \in Ids /\ t.name \in Names
<1>1. PICK i \in DOMAIN rows : t = [id |-> i, name |-> rows[i].name, addr |-> rows[i].addr]
  BY DEF ActiveTargets
<1>2. t \in TargetCfg
  BY SnapshotDistinct
<1> QED BY <1>1, <1>2 DEF TargetCfg

\* A step that leaves the rows, the registry and the running loops alone, and
\* in which no Reload is under way or the one that is goes on.
LEMMA OneKept ==
  ASSUME NoClash, OwnNames, UNCHANGED <<rows, live, ids>>,
         \A i \in Ids : live[i] # NoLoop => LoopOf(i)' = LoopOf(i),
         \A p \in Procs : Applying(p) => Applying(p)' /\ fresh'[p] = fresh[p]
  PROVE  NoClash' /\ OwnNames'
<1>1. NoClash'
  BY DEF NoClash
<1>2. \A n : LiveName(n) => LiveName(n)'
  BY DEF LiveName
<1>3. ASSUME NEW n \in Names, NEW p \in Procs, Applying(p),
             \E t \in fresh[p] : t.name = n /\ live[t.id] = NoLoop /\ ids[n] = t.id
      PROVE  Applying(p)' /\ \E t \in fresh'[p] : t.name = n /\ live'[t.id] = NoLoop /\ ids'[n] = t.id
  BY <1>3
<1>4. \A i \in Ids : live'[i] # NoLoop => ids'[LoopOf(i)'.name] = i
  BY DEF OwnNames
<1> QED BY <1>1, <1>2, <1>3, <1>4 DEF OwnNames

\* One edit renames one row, to a name that no row has.
LEMMA OneRequestStep ==
  ASSUME ~mixed', IInv, IInv', OneInv, NEW h \in Admins, Request(h)
  PROVE  OneInv'
<1> USE DEF IInv, TypeOK
<1>1. /\ UNCHANGED <<live, ids, loopCfg, phase, fresh, mu>> /\ pc[h] = "idle" /\ phase = "up"
      /\ pc' = [pc EXCEPT ![h] = "read"]
      /\ ~mixed /\ \A q \in Procs : pc[q] = "idle"
  BY DEF Request, Create, CreateLosesId, Import, Update, Delete, WriteDone, Failed, Goto, Accept,
         loopVars
<1>2. \A q \in Procs : pc[q] = "idle"
  BY <1>1
<1>3. h \in Procs
  BY DEF Procs
<1>4. {LoopOf(i) : i \in {j \in Ids : live[j] # NoLoop}} = ActiveTargets
  BY <1>1, <1>2 DEF OneInv, Serving, Agree, Quiet
<1>5. \A i \in Ids : live[i] # NoLoop => i \in DOMAIN rows /\ rows[i].name = LoopOf(i).name
  <2> SUFFICES ASSUME NEW i \in Ids, live[i] # NoLoop
               PROVE  i \in DOMAIN rows /\ rows[i].name = LoopOf(i).name
    OBVIOUS
  <2>1. LoopOf(i) \in ActiveTargets /\ LoopOf(i).id = i
    BY <1>4 DEF LoopsMatchLive
  <2> QED BY <2>1, ActiveRow
<1>6. NoClash'
  <2>1. \A j \in DOMAIN rows' : \A k \in DOMAIN rows : rows'[j].name = rows[k].name => j = k
    BY EditNames
  <2>2. \A i \in Ids : LoopOf(i)' = LoopOf(i)
    BY <1>1 DEF LoopOf
  <2> QED BY <1>1, <1>5, <2>1, <2>2 DEF NoClash
<1>7. OwnNames'
  <2>1. \A n : LiveName(n) => LiveName(n)'
    BY <1>1 DEF LiveName, LoopOf
  <2>2. \A n \in Names : ids[n] # 0 => LiveName(n)
    BY <1>1, <1>2 DEF OneInv, Serving, OwnNames, Applying
  <2> QED BY <1>1, <2>1, <2>2 DEF OneInv, Serving, OwnNames, LoopOf
<1>8. Alone' /\ UpToDate' /\ FindsOwn'
  BY <1>1, <1>2 DEF Alone, UpToDate, FindsOwn
<1>9. ~Quiet'
  BY <1>1, <1>3 DEF Quiet
<1> QED BY <1>6, <1>7, <1>8, <1>9 DEF OneInv

\* Retiring a loop takes its registration to the target's own new name.
LEMMA OneRetire ==
  ASSUME IInv, IInv', Serving, ~mixed, OneInv, NEW p \in Procs, NEW i \in Ids, Retire(p, i)
  PROVE  NoClash' /\ OwnNames'
<1> USE DEF IInv, TypeOK
<1>1. /\ pc[p] = "retire" /\ live[i] # NoLoop
      /\ live' = [live EXCEPT ![i] = NoLoop]
      /\ UNCHANGED <<rows, phase, pc, fresh, loopCfg>>
  BY DEF Retire, Changed, handlerVars
<1>2. fresh[p] = ActiveTargets /\ NoClash /\ OwnNames
  BY <1>1 DEF OneInv, UpToDate
<1>3. \A j \in Ids \ {i} : live'[j] = live[j] /\ LoopOf(j)' = LoopOf(j)
  BY <1>1 DEF LoopOf
<1>4. live'[i] = NoLoop
  BY <1>1
<1>5. NoClash'
  <2>1. ASSUME NEW j \in Ids, live'[j] # NoLoop, NEW k \in DOMAIN rows', rows'[k].name = LoopOf(j)'.name
        PROVE  k = j
    <3>1. j # i
      BY <1>4, <2>1
    <3>2. live[j] # NoLoop /\ LoopOf(j)' = LoopOf(j) /\ k \in DOMAIN rows /\ rows[k].name = LoopOf(j).name
      BY <1>1, <1>3, <2>1, <3>1
    <3> QED BY <1>2, <3>2 DEF NoClash
  <2> QED BY <2>1 DEF NoClash
<1> DEFINE old == LoopOf(i).name
<1>6. old \in Names /\ ids[old] = i /\ i # 0
  <2>1. i # 0
    BY TableAssumption DEF Ids
  <2> QED BY <1>1, <1>2, <2>1 DEF OwnNames, LoopsMatchLive, LoopOf, Running, TargetCfg
<1>7. \A j \in Ids \ {i} : live[j] # NoLoop => LoopOf(j).name # old /\ LoopOf(j).name \in Names
  BY <1>1 DEF DistinctLive, LoopsMatchLive, LoopOf, Running, TargetCfg
<1>8. \A n : n # old /\ LiveName(n) => LiveName(n)'
  BY <1>3 DEF LiveName
<1>9. Applying(p) /\ Applying(p)'
  BY <1>1 DEF Applying
<1>10. ASSUME NEW n \in Names, n # old, ids[n] # 0, ids'[n] = ids[n]
       PROVE  \/ LiveName(n)'
              \/ \E q \in Procs : Applying(q)' /\ \E t \in fresh'[q] :
                   t.name = n /\ live'[t.id] = NoLoop /\ ids'[n] = t.id
  <2>1. CASE LiveName(n)
    BY <1>8, <1>10, <2>1
  <2>2. CASE ~LiveName(n)
    <3>1. PICK q \in Procs : /\ Applying(q)
                             /\ \E t \in fresh[q] : t.name = n /\ live[t.id] = NoLoop /\ ids[n] = t.id
      BY <1>2, <1>10, <2>2 DEF OwnNames
    <3>2. PICK t \in fresh[q] : t.name = n /\ live[t.id] = NoLoop /\ ids[n] = t.id
      BY <3>1
    <3>3. t \in TargetCfg /\ t \in fresh'[q] /\ live'[t.id] = NoLoop /\ ids'[n] = t.id
      BY <1>1, <1>10, <3>2 DEF TargetCfg
    <3>4. Applying(q)'
      BY <1>1, <3>1 DEF Applying
    <3> QED BY <3>2, <3>3, <3>4
  <2> QED BY <2>1, <2>2
<1>11. CASE RemoveTarget(old)
  <2>1. \A n \in Names : ids'[n] = IF n = old THEN 0 ELSE ids[n]
    BY <1>6, <1>11 DEF RemoveTarget
  <2>2. \A j \in Ids : live'[j] # NoLoop => ids'[LoopOf(j)'.name] = j
    <3> SUFFICES ASSUME NEW j \in Ids, live'[j] # NoLoop PROVE ids'[LoopOf(j)'.name] = j
      OBVIOUS
    <3>1. j # i /\ live[j] # NoLoop /\ LoopOf(j)' = LoopOf(j)
      BY <1>3, <1>4
    <3> QED BY <1>2, <1>7, <2>1, <3>1 DEF OwnNames
  <2>3. \A n \in Names : ids'[n] # 0 => n # old /\ ids[n] # 0 /\ ids'[n] = ids[n]
    BY <2>1
  <2> QED BY <1>5, <1>10, <2>2, <2>3 DEF OwnNames
<1>12. ASSUME NEW t \in fresh[p], t.id = i, \/ t.name # old /\ RenameTarget(old, t.name)
                                            \/ t.name = old /\ ids' = ids
       PROVE  OwnNames'
  <2>1. i \in DOMAIN rows /\ rows[i].name = t.name /\ t.name \in Names
    BY <1>2, <1>12, ActiveRow
  <2>2. \A n \in Names : ids'[n] = IF n = t.name THEN i ELSE IF n = old THEN 0 ELSE ids[n]
    BY <1>6, <1>12, <2>1 DEF RenameTarget
  <2>3. \A j \in Ids \ {i} : live[j] # NoLoop => LoopOf(j).name # t.name
    BY <1>2, <2>1 DEF NoClash
  <2>4. \A j \in Ids : live'[j] # NoLoop => ids'[LoopOf(j)'.name] = j
    <3> SUFFICES ASSUME NEW j \in Ids, live'[j] # NoLoop PROVE ids'[LoopOf(j)'.name] = j
      OBVIOUS
    <3>1. j # i /\ live[j] # NoLoop /\ LoopOf(j)' = LoopOf(j)
      BY <1>3, <1>4
    <3> QED BY <1>2, <1>7, <2>2, <2>3, <3>1 DEF OwnNames
  <2>5. t \in fresh'[p] /\ live'[t.id] = NoLoop /\ ids'[t.name] = t.id
    BY <1>1, <1>12, <2>1, <2>2
  <2>6. \A n \in Names : ids'[n] # 0 => n = t.name \/ (n # old /\ ids[n] # 0 /\ ids'[n] = ids[n])
    BY <2>2
  <2>7. ASSUME NEW n \in Names, ids'[n] # 0
        PROVE  \/ LiveName(n)'
               \/ \E q \in Procs : Applying(q)' /\ \E u \in fresh'[q] :
                    u.name = n /\ live'[u.id] = NoLoop /\ ids'[n] = u.id
    <3>1. CASE n = t.name
      BY <1>9, <2>5, <3>1
    <3>2. CASE n # t.name
      BY <1>10, <2>6, <2>7, <3>2
    <3> QED BY <3>1, <3>2
  <2> QED BY <2>4, <2>7 DEF OwnNames
<1> QED BY <1>5, <1>11, <1>12 DEF Retire

\* A loop is started under its own name, which is registered for its own row.
LEMMA OneStart ==
  ASSUME IInv, IInv', Serving, ~mixed, OneInv, NEW p \in Procs, NEW t \in Missing(p), StartLoop(t),
         pc[p] \in {"ensure", "register"}, Applying(p)', UNCHANGED <<rows, fresh>>,
         \A n \in Names : n # t.name => ids'[n] = ids[n],
         ids'[t.name] = t.id
  PROVE  NoClash' /\ OwnNames'
<1> USE DEF IInv, TypeOK
<1>1. t \in fresh[p] /\ t \in TargetCfg /\ live[t.id] = NoLoop /\ t.id \in Ids /\ t.name \in Names
  BY DEF Missing, TargetCfg
<1>2. PICK l \in LoopIds : /\ loopState[l] = "free"
                           /\ live' = [live EXCEPT ![t.id] = l]
                           /\ loopCfg' = [loopCfg EXCEPT ![l] = t]
  BY DEF StartLoop
<1>3. l # NoLoop /\ \A j \in Ids : live[j] # l
  BY <1>2, RunnerAssumption DEF LoopsMatchLive, Running
<1>4. live'[t.id] = l /\ LoopOf(t.id)' = t
  BY <1>1, <1>2 DEF LoopOf
<1>5. \A j \in Ids \ {t.id} : live'[j] = live[j] /\ (live[j] # NoLoop => LoopOf(j)' = LoopOf(j))
  <2>1. \A j \in Ids \ {t.id} : live'[j] = live[j] /\ live[j] # l
    BY <1>2, <1>3
  <2>2. \A k \in LoopIds \ {l} : loopCfg'[k] = loopCfg[k]
    BY <1>2
  <2> QED BY <2>1, <2>2 DEF LoopOf
<1>6. fresh[p] = ActiveTargets /\ NoClash /\ OwnNames
  BY DEF OneInv, UpToDate
<1>7. t.id \in DOMAIN rows /\ rows[t.id].name = t.name
  BY <1>1, <1>6, ActiveRow
<1>8. \A j \in Ids \ {t.id} : live[j] # NoLoop => LoopOf(j).name # t.name /\ LoopOf(j).name \in Names
  <2> SUFFICES ASSUME NEW j \in Ids, j # t.id, live[j] # NoLoop
               PROVE  LoopOf(j).name # t.name /\ LoopOf(j).name \in Names
    OBVIOUS
  <2>1. LoopOf(j) \in fresh[p] /\ LoopOf(j).id = j
    BY DEF EnsureKeeps, LoopsMatchLive
  <2>2. LoopOf(j) \in TargetCfg
    BY <2>1
  <2> QED BY <1>1, <2>1, <2>2 DEF FreshDistinct, TargetCfg
<1>9. NoClash'
  <2>1. ASSUME NEW j \in Ids, live'[j] # NoLoop, NEW k \in DOMAIN rows', rows'[k].name = LoopOf(j)'.name
        PROVE  k = j
    <3>1. CASE j = t.id
      BY <1>4, <1>7, <2>1, <3>1 DEF TableTypeOK, WellFormed
    <3>2. CASE j # t.id
      <4>1. live[j] # NoLoop /\ LoopOf(j)' = LoopOf(j) /\ k \in DOMAIN rows /\ rows[k].name = LoopOf(j).name
        BY <1>5, <2>1, <3>2
      <4> QED BY <1>6, <4>1 DEF NoClash
    <3> QED BY <3>1, <3>2
  <2> QED BY <2>1 DEF NoClash
<1>10. \A j \in Ids : live'[j] # NoLoop => ids'[LoopOf(j)'.name] = j
  <2> SUFFICES ASSUME NEW j \in Ids, live'[j] # NoLoop PROVE ids'[LoopOf(j)'.name] = j
    OBVIOUS
  <2>1. CASE j = t.id
    BY <1>4, <2>1
  <2>2. CASE j # t.id
    BY <1>5, <1>6, <1>8, <2>2 DEF OwnNames
  <2> QED BY <2>1, <2>2
<1>11. LiveName(t.name)' /\ \A n : LiveName(n) => LiveName(n)'
  BY <1>1, <1>3, <1>4, <1>5 DEF LiveName
<1>12. ASSUME NEW n \in Names, ids'[n] # 0
       PROVE  \/ LiveName(n)'
              \/ \E q \in Procs : Applying(q)' /\ \E u \in fresh'[q] :
                   u.name = n /\ live'[u.id] = NoLoop /\ ids'[n] = u.id
  <2>1. CASE n = t.name \/ LiveName(n)
    BY <1>11, <2>1
  <2>2. CASE n # t.name /\ ~LiveName(n)
    <3>1. ids'[n] = ids[n]
      BY <2>2
    <3>2. PICK q \in Procs : /\ Applying(q)
                             /\ \E u \in fresh[q] : u.name = n /\ live[u.id] = NoLoop /\ ids[n] = u.id
      BY <1>6, <1>12, <2>2, <3>1 DEF OwnNames
    <3>3. q = p
      BY <3>2 DEF Locked, Applying
    <3>4. PICK u \in fresh[p] : u.name = n /\ live[u.id] = NoLoop /\ ids[n] = u.id
      BY <3>2, <3>3
    <3>5. u.id # t.id /\ u.id \in Ids
      BY <1>1, <2>2, <3>4 DEF FreshDistinct, TargetCfg
    <3> QED BY <1>5, <3>1, <3>4, <3>5
  <2> QED BY <2>1, <2>2
<1> QED BY <1>9, <1>10, <1>12 DEF OwnNames

\* EnsureTarget finds a name registered for the target itself, or its row.
LEMMA OneEnsure ==
  ASSUME IInv, Serving, ~mixed, OneInv, NEW p \in Procs, pc[p] = "ensure", NEW t \in Missing(p)
  PROVE  /\ ids[t.name] # 0 => ids[t.name] = t.id
         /\ HasRow(rows, t.name) /\ IdOf(rows, t.name) = t.id
<1> USE DEF IInv, TypeOK
<1>1. t \in fresh[p] /\ t \in TargetCfg /\ live[t.id] = NoLoop /\ t.name \in Names
  BY DEF Missing, TargetCfg
<1>2. fresh[p] = ActiveTargets /\ OwnNames
  BY DEF OneInv, UpToDate
<1>3. HasRow(rows, t.name) /\ IdOf(rows, t.name) = t.id
  <2>1. t.id \in DOMAIN rows /\ rows[t.id].name = t.name
    BY <1>1, <1>2, ActiveRow
  <2>2. HasRow(rows, t.name)
    BY <2>1 DEF HasRow
  <2>3. IdOf(rows, t.name) \in DOMAIN rows /\ rows[IdOf(rows, t.name)].name = t.name
    BY <2>2, IdOfRow
  <2> QED BY <2>1, <2>2, <2>3 DEF TableTypeOK, WellFormed
<1>4. ~LiveName(t.name)
  <2> SUFFICES ASSUME NEW j \in Ids, live[j] # NoLoop, LoopOf(j).name = t.name PROVE FALSE
    BY DEF LiveName
  <2>1. LoopOf(j) \in fresh[p] /\ LoopOf(j).id = j
    BY DEF EnsureKeeps, LoopsMatchLive
  <2> QED BY <1>1, <2>1 DEF FreshDistinct
<1>5. ASSUME ids[t.name] # 0 PROVE ids[t.name] = t.id
  <2>1. PICK q \in Procs : /\ Applying(q)
                           /\ \E u \in fresh[q] : u.name = t.name /\ live[u.id] = NoLoop
                                                  /\ ids[t.name] = u.id
    BY <1>1, <1>2, <1>4, <1>5 DEF OwnNames
  <2>2. q = p
    BY <2>1 DEF Locked, Applying
  <2> QED BY <1>1, <2>1, <2>2 DEF FreshDistinct
<1> QED BY <1>3, <1>5

\* A Reload that nothing gets in the way of ends with the table's targets.
LEMMA OneReload ==
  ASSUME ~mixed', IInv, IInv', MainBoots, OneInv, NEW p \in Procs, Reload(p) \/ Fail(p), Serving'
  PROVE  OneInv'
<1> USE DEF IInv, TypeOK, Goto
<1>1. Serving /\ ~mixed /\ pc[p] # "idle"
  BY DEF Reload, ReadActive, Lock, Retire, RetireDone, EnsureKnown, EnsureQuery, Register, Unlock,
         Fail, ReadFails, EnsureFails, Failed, Serving, MainBoots, history
<1>2. \A q \in Procs \ {p} : pc[q] = "idle"
  BY <1>1 DEF OneInv, Alone
<1>3. NoClash /\ OwnNames /\ UpToDate /\ FindsOwn
  BY <1>1 DEF OneInv
<1>4. ASSUME NoClash', OwnNames', UpToDate', FindsOwn', \A q \in Procs \ {p} : pc'[q] = pc[q],
             pc'[p] # "idle"
      PROVE  OneInv'
  <2>1. Alone'
    BY <1>2, <1>4 DEF Alone
  <2>2. ~Quiet'
    BY <1>4 DEF Quiet
  <2> QED BY <1>4, <2>1, <2>2 DEF OneInv
<1>5. CASE ReadActive(p) \/ Lock(p) \/ RetireDone(p)
  <2>1. /\ UNCHANGED <<rows, live, ids, loopCfg>> /\ \A q \in Procs : Applying(q) => Applying(q)'
        /\ \A q \in Procs : Applying(q) => fresh'[q] = fresh[q]
        /\ \A q \in Procs \ {p} : pc'[q] = pc[q]
        /\ pc'[p] \in {"lock", "retire", "ensure"}
    BY <1>5 DEF ReadActive, Lock, RetireDone, Applying, loopVars
  <2>2. NoClash' /\ OwnNames'
    BY <1>3, <2>1, OneKept DEF LoopOf
  <2>3. fresh'[p] = ActiveTargets
    BY <1>3, <1>5 DEF ReadActive, Lock, RetireDone, UpToDate
  <2>4. UpToDate' /\ FindsOwn'
    BY <1>2, <2>1, <2>3 DEF UpToDate, FindsOwn, ActiveTargets
  <2> QED BY <1>4, <2>1, <2>2, <2>4
<1>6. ASSUME NEW i \in Ids, Retire(p, i) PROVE OneInv'
  <2>1. UNCHANGED <<rows, pc, fresh, found>>
    BY <1>6 DEF Retire, handlerVars
  <2>2. UpToDate' /\ FindsOwn'
    BY <1>3, <2>1 DEF UpToDate, FindsOwn, ActiveTargets
  <2>3. NoClash' /\ OwnNames'
    BY <1>1, <1>6, OneRetire
  <2> QED BY <1>1, <1>4, <2>1, <2>2, <2>3
<1>7. ASSUME NEW t \in fresh[p], EnsureKnown(p, t) PROVE OneInv'
  <2>1. /\ pc[p] = "ensure" /\ t \in Missing(p) /\ StartLoop(t) /\ ids[t.name] # 0
        /\ UNCHANGED <<rows, pc, fresh, found, ids>>
    BY <1>7 DEF EnsureKnown, handlerVars
  <2>2. UpToDate' /\ FindsOwn'
    BY <1>3, <2>1 DEF UpToDate, FindsOwn, ActiveTargets
  <2>3. ids'[t.name] = t.id /\ Applying(p)'
    BY <1>1, <2>1, OneEnsure DEF Applying
  <2>4. NoClash' /\ OwnNames'
    BY <1>1, <2>1, <2>3, OneStart
  <2> QED BY <1>4, <2>1, <2>2, <2>4
<1>8. ASSUME NEW t \in fresh[p], EnsureQuery(p, t) PROVE OneInv'
  <2>1. pc[p] = "ensure" /\ t \in Missing(p)
    BY <1>8 DEF EnsureQuery
  <2>2. HasRow(rows, t.name) /\ IdOf(rows, t.name) = t.id
    BY <1>1, <2>1, OneEnsure
  <2>3. /\ UNCHANGED <<rows, live, ids, loopCfg, fresh>>
        /\ found' = [cfg |-> t, row |-> t.id]
        /\ pc' = [pc EXCEPT ![p] = "register"]
    BY <1>8, <2>2 DEF EnsureQuery, loopVars
  <2>4. NoClash' /\ OwnNames'
    BY <1>3, <2>1, <2>3, OneKept DEF LoopOf, Applying
  <2>5. UpToDate' /\ FindsOwn'
    BY <1>2, <1>3, <2>1, <2>3 DEF UpToDate, FindsOwn, ActiveTargets
  <2> QED BY <1>4, <2>3, <2>4, <2>5
<1>9. CASE Register(p)
  <2> DEFINE t == found.cfg
  <2>1. /\ pc[p] = "register" /\ t \in Missing(p) /\ t \in TargetCfg /\ t.name \in Names
        /\ found.row = t.id
    BY <1>3, <1>9 DEF Register, RegisterMissing, Missing, TargetCfg, FindsOwn
  <2>2. /\ StartLoop(t) /\ ids' = [ids EXCEPT ![t.name] = found.row]
        /\ pc' = [pc EXCEPT ![p] = "ensure"] /\ UNCHANGED <<rows, fresh>>
    BY <1>9 DEF Register
  <2>3. ids'[t.name] = t.id /\ Applying(p)' /\ \A n \in Names : n # t.name => ids'[n] = ids[n]
    BY <2>1, <2>2 DEF Applying
  <2>4. NoClash' /\ OwnNames'
    BY <1>1, <2>1, <2>2, <2>3, OneStart
  <2>5. UpToDate' /\ FindsOwn'
    BY <1>2, <1>3, <2>1, <2>2 DEF UpToDate, FindsOwn, ActiveTargets
  <2> QED BY <1>4, <2>2, <2>4, <2>5
<1>10. CASE Unlock(p)
  <2>1. /\ pc[p] = "ensure" /\ Missing(p) = {} /\ UNCHANGED <<rows, live, ids, loopCfg>>
        /\ \A q \in Procs : pc'[q] = "idle"
    BY <1>2, <1>10 DEF Unlock, loopVars
  <2>2. Alone' /\ UpToDate' /\ FindsOwn'
    BY <2>1 DEF Alone, UpToDate, FindsOwn
  <2>3. fresh[p] = ActiveTargets /\ ActiveTargets' = ActiveTargets
    BY <1>3, <2>1 DEF UpToDate, ActiveTargets
  <2>4. \A t \in fresh[p] : t.id \in Ids /\ live[t.id] # NoLoop
    BY <2>1 DEF Missing, TargetCfg
  <2>5. \A i \in Ids : live[i] # NoLoop => LoopOf(i) \in fresh[p] /\ LoopOf(i).id = i
    BY <2>1 DEF EnsureKeeps, LoopsMatchLive
  <2>6. \A t \in fresh[p] : LoopOf(t.id) = t
    BY <2>4, <2>5 DEF FreshDistinct
  <2>7. {LoopOf(i) : i \in {j \in Ids : live[j] # NoLoop}} = ActiveTargets
    BY <2>3, <2>4, <2>5, <2>6
  <2>8. Agree'
    BY <2>1, <2>3, <2>7 DEF Agree, LoopOf
  <2>9. NoClash'
    BY <1>3, <2>1 DEF NoClash, LoopOf
  <2>10. \A n \in Names : ids[n] # 0 => LiveName(n)
    <3>1. \A q \in Procs : Applying(q) => q = p
      BY <1>2 DEF Applying
    <3>2. ASSUME NEW n \in Names, ids[n] # 0, ~LiveName(n) PROVE FALSE
      <4>1. PICK q \in Procs : Applying(q) /\ \E t \in fresh[q] : t.name = n /\ live[t.id] = NoLoop
        BY <1>3, <3>2 DEF OwnNames
      <4> QED BY <2>4, <3>1, <4>1
    <3> QED BY <3>2
  <2>11. OwnNames'
    <3>1. \A n : LiveName(n) => LiveName(n)'
      BY <2>1 DEF LiveName, LoopOf
    <3>2. \A i \in Ids : live'[i] # NoLoop => ids'[LoopOf(i)'.name] = i
      BY <1>3, <2>1 DEF OwnNames, LoopOf
    <3> QED BY <2>1, <2>10, <3>1, <3>2 DEF OwnNames
  <2> QED BY <2>2, <2>8, <2>9, <2>11 DEF OneInv
<1>11. ~ReadFails(p) /\ \A t \in fresh[p] : ~EnsureFails(p, t)
  BY DEF ReadFails, EnsureFails, Failed
<1> QED BY <1>5, <1>6, <1>7, <1>8, <1>9, <1>10, <1>11 DEF Reload, Fail

\* Every step keeps what one request at a time relies on.
LEMMA OneNext == IInv /\ IInv' /\ MainBoots /\ OneInv /\ [Next]_vars => OneInv'
<1> SUFFICES ASSUME IInv, IInv', MainBoots, OneInv, [Next]_vars, Serving', ~mixed' PROVE OneInv'
  BY DEF OneInv
<1> USE DEF IInv, TypeOK
<1>1. ASSUME NEW h \in Admins, Request(h) PROVE OneInv'
  BY <1>1, OneRequestStep
<1>2. ASSUME NEW p \in Procs, Reload(p) \/ Fail(p) PROVE OneInv'
  BY <1>2, OneReload
<1>3. ASSUME UNCHANGED <<rows, phase, pc, fresh, found, live, ids, mixed>>,
             \A i \in Ids : live[i] # NoLoop => LoopOf(i)' = LoopOf(i)
      PROVE  OneInv'
  <2>1. OneInv /\ Serving /\ ~mixed
    BY <1>3 DEF Serving
  <2>2. NoClash' /\ OwnNames'
    BY <1>3, <2>1, OneKept DEF OneInv, Applying
  <2>3. Alone' /\ UpToDate' /\ FindsOwn'
    BY <1>3, <2>1 DEF OneInv, Alone, UpToDate, FindsOwn, ActiveTargets
  <2>4. Quiet' => Agree'
    <3>1. ActiveTargets' = ActiveTargets /\ (Quiet' <=> Quiet)
      BY <1>3 DEF ActiveTargets, Quiet
    <3>2. {LoopOf(i)' : i \in {j \in Ids : live'[j] # NoLoop}}
            = {LoopOf(i) : i \in {j \in Ids : live[j] # NoLoop}}
      BY <1>3
    <3> QED BY <2>1, <3>1, <3>2 DEF OneInv, Agree
  <2> QED BY <2>2, <2>3, <2>4 DEF OneInv
<1>4. ASSUME NEW l \in LoopIds, ProbeLoop(l) PROVE OneInv'
  <2>1. UNCHANGED <<rows, phase, pc, fresh, found, live, ids, mixed>>
    BY <1>4 DEF ProbeLoop, FileRound, NextRound, ExitLoop, handlerVars, history
  <2>2. \A i \in Ids : live[i] # NoLoop => LoopOf(i)' = LoopOf(i)
    BY <1>4 DEF ProbeLoop, FileRound, NextRound, ExitLoop, LoopsMatchLive, LoopOf
  <2> QED BY <1>3, <2>1, <2>2
<1>5. CASE UNCHANGED vars
  BY <1>3, <1>5 DEF vars, handlerVars, loopVars, history, LoopOf
<1>6. CASE CloseConsole \/ Shutdown
  BY <1>6 DEF CloseConsole, Shutdown, StopLoops, StopReturns, Serving
<1>7. CASE Restart
  <2>1. /\ pc' = [q \in Procs |-> IF q = Main THEN "read" ELSE "idle"]
        /\ live' = [i \in Ids |-> NoLoop] /\ ids' = [n \in Names |-> 0] /\ phase' = "boot"
    BY <1>7 DEF Restart, Fresh, Unregistered
  <2>2. Alone' /\ UpToDate' /\ FindsOwn'
    BY <2>1 DEF Alone, UpToDate, FindsOwn
  <2>3. NoClash' /\ OwnNames' /\ ~Quiet'
    BY <2>1 DEF NoClash, OwnNames, Quiet
  <2> QED BY <2>2, <2>3 DEF OneInv
<1> QED BY <1>1, <1>2, <1>4, <1>5, <1>6, <1>7 DEF Next

-----------------------------------------------------------------------------
\* A bare row is not active: it does not change what should be probed.
LEMMA BareRowInactive ==
  ASSUME TableTypeOK, NEW n, rows' = Append(rows, BareRow(n))
  PROVE  ActiveTargets' = ActiveTargets
<1>1. rows \in Seq(Row)
  BY DEF TableTypeOK, WellFormed
<1>2. /\ DOMAIN rows' = DOMAIN rows \cup {Len(rows) + 1}
      /\ \A i \in DOMAIN rows : rows'[i] = rows[i]
      /\ rows'[Len(rows) + 1] = BareRow(n)
  BY <1>1
<1>3. BareRow(n).active = FALSE
  BY DEF BareRow
<1>4. {j \in DOMAIN rows' : rows'[j].active} = {j \in DOMAIN rows : rows[j].active}
  BY <1>2, <1>3
<1> QED BY <1>2, <1>4 DEF ActiveTargets

\* The end of a Reload whose snapshot is the table's.
LEMMA UnlockAgrees ==
  ASSUME IInv, NEW p \in Procs, Unlock(p), fresh[p] = ActiveTargets
  PROVE  Agree'
<1> USE DEF IInv, TypeOK
<1>1. /\ pc[p] = "ensure" /\ Missing(p) = {} /\ UNCHANGED <<rows, live, loopCfg>>
  BY DEF Unlock, loopVars
<1>2. \A t \in fresh[p] : t.id \in Ids /\ live[t.id] # NoLoop
  BY <1>1 DEF Missing, TargetCfg
<1>3. \A i \in Ids : live[i] # NoLoop => LoopOf(i) \in fresh[p] /\ LoopOf(i).id = i
  BY <1>1 DEF EnsureKeeps, LoopsMatchLive
<1>4. \A t \in fresh[p] : LoopOf(t.id) = t
  BY <1>2, <1>3 DEF FreshDistinct
<1>5. {LoopOf(i) : i \in {j \in Ids : live[j] # NoLoop}} = ActiveTargets
  BY <1>2, <1>3, <1>4
<1>6. ActiveTargets' = ActiveTargets
  BY <1>1 DEF ActiveTargets
<1> QED BY <1>1, <1>5, <1>6 DEF Agree, LoopOf

\* A step of one Reload, overlapped by any number of others.
LEMMA NewestReload ==
  ASSUME IInv, IInv', MainBoots, NewestInv, NEW p \in Procs, Reload(p) \/ Fail(p)
  PROVE  NewestInv'
<1> USE RunnerAssumption DEF IInv, TypeOK, Goto
<1>1. Serving' => Serving
  BY DEF Reload, ReadActive, Lock, Retire, RetireDone, EnsureKnown, EnsureQuery, Register, Unlock,
         Fail, ReadFails, EnsureFails, Serving, MainBoots
<1>2. \A q \in Procs \ {p} : pc'[q] = pc[q] /\ fresh'[q] = fresh[q]
  BY DEF Reload, ReadActive, Lock, Retire, RetireDone, EnsureKnown, EnsureQuery, Register, Unlock,
         Fail, ReadFails, EnsureFails, handlerVars
<1>3. CASE ReadActive(p)
  <2>1. /\ newest' = p /\ pc'[p] = "lock" /\ pc[p] = "read" /\ fresh'[p] = ActiveTargets
        /\ UNCHANGED <<rows, mu>>
    BY <1>3 DEF ReadActive
  <2>2. mu' \in Procs => Applying(mu)'
    BY <1>2, <2>1 DEF NewestInv, Applying
  <2>3. ActiveTargets' = ActiveTargets
    BY <2>1 DEF ActiveTargets
  <2> QED BY <2>1, <2>2, <2>3 DEF NewestInv
<1>4. CASE ReadFails(p)
  <2>1. newest' = Stale /\ pc[p] = "read" /\ mu' = mu
    BY <1>4 DEF ReadFails, Failed
  <2>2. mu' \in Procs => Applying(mu)'
    BY <1>2, <2>1 DEF NewestInv, Applying
  <2> QED BY <2>1, <2>2 DEF NewestInv
<1>5. CASE Lock(p)
  <2>1. /\ pc[p] = "lock" /\ pc'[p] = "retire" /\ mu = Free /\ mu' = p
        /\ newest' = (IF newest = p THEN Free ELSE IF newest = Free THEN Stale ELSE newest)
        /\ UNCHANGED <<rows, fresh>>
    BY <1>5 DEF Lock, TakenUp
  <2>2. ActiveTargets' = ActiveTargets
    BY <2>1 DEF ActiveTargets
  <2>3. Applying(mu)'
    BY <2>1 DEF Applying
  <2>4. newest' \in Procs => newest' = newest /\ newest # p
    BY <2>1
  <2>5. newest' = Free => newest = p
    BY <2>1
  <2> QED BY <1>1, <1>2, <2>1, <2>2, <2>3, <2>4, <2>5 DEF NewestInv
<1>6. CASE \E t \in fresh[p] : EnsureFails(p, t)
  <2>1. /\ pc[p] = "ensure" /\ newest' = (IF newest = Free THEN Stale ELSE newest)
        /\ UNCHANGED <<rows, pc, mu>>
    BY <1>6 DEF EnsureFails, Failed
  <2>2. ActiveTargets' = ActiveTargets
    BY <2>1 DEF ActiveTargets
  <2>3. newest' # Free /\ (newest' \in Procs => newest' = newest /\ newest # p)
    BY <2>1 DEF NewestInv
  <2> QED BY <1>1, <1>2, <2>1, <2>2, <2>3 DEF NewestInv, Applying
<1>7. ASSUME /\ pc[p] \in {"retire", "ensure", "register"}
             /\ pc'[p] \in {"retire", "ensure", "register"}
             /\ UNCHANGED <<fresh, mu, newest>> /\ ActiveTargets' = ActiveTargets
      PROVE  NewestInv'
  <2>1. mu = p
    BY <1>7 DEF Locked
  <2>2. newest \in Procs => newest # p
    BY <1>7 DEF NewestInv
  <2>3. Applying(mu)'
    BY <1>7, <2>1 DEF Applying
  <2>4. (\A q \in Procs : pc'[q] # "read") => \A q \in Procs : pc[q] # "read"
    BY <1>2, <1>7
  <2> QED BY <1>1, <1>2, <1>7, <2>1, <2>2, <2>3, <2>4 DEF NewestInv
<1>8. ASSUME NEW i \in Ids, Retire(p, i) PROVE NewestInv'
  BY <1>7, <1>8 DEF Retire, ActiveTargets, handlerVars, history
<1>9. CASE RetireDone(p)
  BY <1>7, <1>9 DEF RetireDone, ActiveTargets, history
<1>10. ASSUME NEW t \in fresh[p], EnsureKnown(p, t) PROVE NewestInv'
  BY <1>7, <1>10 DEF EnsureKnown, ActiveTargets, handlerVars, history
<1>11. ASSUME NEW t \in fresh[p], EnsureQuery(p, t) PROVE NewestInv'
  <2>1. ActiveTargets' = ActiveTargets
    <3>1. CASE rows' = rows
      BY <3>1 DEF ActiveTargets
    <3>2. CASE rows' = Append(rows, BareRow(t.name))
      BY <3>2, BareRowInactive
    <3> QED BY <1>11, <3>1, <3>2 DEF EnsureQuery
  <2> QED BY <1>7, <1>11, <2>1 DEF EnsureQuery, history
<1>12. CASE Register(p)
  BY <1>7, <1>12 DEF Register, ActiveTargets, history
<1>13. CASE Unlock(p)
  <2>1. /\ pc[p] = "ensure" /\ pc'[p] = "idle" /\ mu' = Free /\ mu = p
        /\ UNCHANGED <<rows, newest>>
    BY <1>13 DEF Unlock, Locked, history
  <2>2. ActiveTargets' = ActiveTargets
    BY <2>1 DEF ActiveTargets
  <2>3. newest \in Procs => newest # p
    BY <2>1 DEF NewestInv
  <2>4. (\A q \in Procs : pc'[q] # "read") => \A q \in Procs : pc[q] # "read"
    BY <1>2, <2>1
  <2>5. ASSUME fresh[p] = ActiveTargets PROVE Agree'
    BY <1>13, <2>5, UnlockAgrees
  <2> QED BY <1>1, <1>2, <2>1, <2>2, <2>3, <2>4, <2>5 DEF NewestInv
<1> QED BY <1>3, <1>4, <1>5, <1>6, <1>8, <1>9, <1>10, <1>11, <1>12, <1>13 DEF Reload, Fail

\* Every step keeps what overlapping requests rely on.
LEMMA NewestNext == IInv /\ IInv' /\ MainBoots /\ NewestInv /\ [Next]_vars => NewestInv'
<1> SUFFICES ASSUME IInv, IInv', MainBoots, NewestInv, [Next]_vars PROVE NewestInv'
  OBVIOUS
<1> USE RunnerAssumption DEF IInv, TypeOK
<1>1. ASSUME NEW h \in Admins, Request(h) PROVE NewestInv'
  <2>1. /\ pc[h] = "idle" /\ UNCHANGED <<mu, phase>>
        /\ \A q \in Procs \ {h} : pc'[q] = pc[q]
        /\ newest' = Stale \/ (newest' = newest /\ pc'[h] = "read")
        /\ h \in Procs
    BY <1>1 DEF Request, Create, CreateLosesId, Import, Update, Delete, WriteDone, Failed, Accept,
                Goto, handlerVars, Procs
  <2>2. mu' \in Procs => Applying(mu)'
    BY <2>1 DEF NewestInv, Applying
  <2>3. newest' \in Procs => pc'[newest'] = "lock"
    BY <2>1 DEF NewestInv
  <2> QED BY <2>1, <2>2, <2>3 DEF NewestInv
<1>2. ASSUME UNCHANGED <<rows, pc, fresh, mu, live, newest>>, Serving' => Serving,
             \A i \in Ids : live[i] # NoLoop => LoopOf(i)' = LoopOf(i)
      PROVE  NewestInv'
  <2>1. ActiveTargets' = ActiveTargets
    BY <1>2 DEF ActiveTargets
  <2>2. {LoopOf(i)' : i \in {j \in Ids : live'[j] # NoLoop}}
          = {LoopOf(i) : i \in {j \in Ids : live[j] # NoLoop}}
    BY <1>2
  <2> QED BY <1>2, <2>1, <2>2 DEF NewestInv, Applying, Agree
<1>3. ASSUME NEW l \in LoopIds, ProbeLoop(l) PROVE NewestInv'
  <2>1. UNCHANGED <<rows, pc, fresh, mu, live, newest, phase>>
    BY <1>3 DEF ProbeLoop, FileRound, NextRound, ExitLoop, handlerVars, history
  <2>2. \A i \in Ids : live[i] # NoLoop => LoopOf(i)' = LoopOf(i)
    BY <1>3 DEF ProbeLoop, FileRound, NextRound, ExitLoop, LoopsMatchLive, LoopOf
  <2> QED BY <1>2, <2>1, <2>2 DEF Serving
<1>4. CASE CloseConsole \/ StopReturns \/ UNCHANGED vars
  BY <1>2, <1>4 DEF CloseConsole, StopReturns, vars, handlerVars, loopVars, history, Serving, LoopOf
<1>5. CASE StopLoops
  BY <1>5 DEF StopLoops, handlerVars, history, Serving, NewestInv, Applying
<1>6. CASE Restart
  <2>1. newest' = Free /\ mu' = Free /\ Main \in Procs /\ pc'[Main] = "read"
    BY <1>6 DEF Restart, Fresh, Procs
  <2> QED BY <2>1 DEF NewestInv
<1> QED BY <1>1, <1>3, <1>4, <1>5, <1>6, NewestReload DEF Next, Shutdown

\* The two invariants, beside the Runner's own.
LEMMA HistoryInvariance == Spec => [](IInv /\ OneInv /\ NewestInv)
<1>1. Init => IInv /\ MainBoots /\ OneInv /\ NewestInv
  BY InitInv, InitNames
<1>2. /\ IInv /\ MainBoots /\ OneInv /\ NewestInv /\ [Next]_vars
      => (IInv /\ MainBoots /\ OneInv /\ NewestInv)'
  BY NextInv, MainBootsNext, OneNext, NewestNext
<1> QED BY <1>1, <1>2, PTL DEF Spec

\* What runs when no request is under way is what the table says, however many
\* have overlapped and whatever has failed, unless an older snapshot was let
\* in after the newest or a query has failed since (QuiescentAgreement;
\* web.go:612).
THEOREM RunsWhatIsThere == Spec => []QuiescentAgreement
<1>1. IInv /\ NewestInv => QuiescentAgreement
  <2> SUFFICES ASSUME IInv, NewestInv, Quiet, newest # Stale PROVE Agree
    BY DEF QuiescentAgreement, Agree
  <2>1. \A p \in Procs : pc[p] = "idle"
    BY DEF Quiet
  <2>2. mu \notin Procs /\ newest \notin Procs
    BY <2>1 DEF NewestInv, Applying
  <2>3. mu = Free /\ newest = Free
    BY <2>2 DEF IInv, TypeOK
  <2> QED BY <2>1, <2>3 DEF NewestInv, Quiet, Serving
<1> QED BY <1>1, HistoryInvariance, PTL

\* As long as requests come one at a time and the database answers, each loop's
\* rounds are filed under its own target, over renames, removals and imports
\* that bring a name back (OwnHistory; store.go: RenameTarget).
THEOREM FiledUnderOwn == Spec => []OwnHistory
<1>1. OneInv => OwnHistory
  BY DEF OneInv, Serving, OwnHistory, Quiet, OwnNames
<1> QED BY <1>1, HistoryInvariance, PTL

\* A Reload stops no loop of a target that the table has as it is, unless a
\* newer Reload is on its way to start it again (OnlyChangedInterrupted;
\* runner.go: apply's `continue`).
THEOREM OthersGoOn == Spec => OnlyChangedInterrupted
<1> DEFINE Gone(i) == live[i] # NoLoop /\ live'[i] = NoLoop /\ phase' = "up" /\ newest # Stale
           Coming == newest \in Procs \/ \E p \in Procs : pc[p] = "read"
<1>1. ASSUME IInv, NewestInv, [Next]_vars, NEW i \in Ids, Gone(i)
      PROVE  LoopOf(i) \notin ActiveTargets \/ Coming
  <2> USE <1>1 DEF IInv, TypeOK
  <2>1. ~UNCHANGED live /\ phase' = "up"
    OBVIOUS
  <2>2. ASSUME NEW t \in TargetCfg, StartLoop(t) PROVE FALSE
    <3>1. live'[i] = live[i] \/ live'[i] \in LoopIds
      BY <2>2 DEF StartLoop, TargetCfg
    <3> QED BY <3>1, RunnerAssumption
  <2>3. PICK p \in Procs, j \in Ids : Retire(p, j)
    <3>1. ASSUME NEW h \in Admins, Request(h) PROVE FALSE
      BY <2>1, <3>1 DEF Request, Create, CreateLosesId, Import, Update, Delete, WriteDone
    <3>2. ASSUME NEW l \in LoopIds, ProbeLoop(l) PROVE FALSE
      BY <2>1, <3>2 DEF ProbeLoop, FileRound, NextRound, ExitLoop
    <3>3. ~CloseConsole /\ ~Shutdown /\ ~Restart /\ ~UNCHANGED vars
      BY <2>1 DEF CloseConsole, Shutdown, StopLoops, StopReturns, Restart, Fresh, vars
    <3>4. ASSUME NEW p \in Procs, Fail(p) PROVE FALSE
      BY <2>1, <3>4 DEF Fail, ReadFails, EnsureFails
    <3>5. ASSUME NEW p \in Procs, Reload(p), \A j \in Ids : ~Retire(p, j) PROVE FALSE
      <4>1. CASE ReadActive(p) \/ Lock(p) \/ RetireDone(p) \/ Unlock(p)
        BY <2>1, <4>1 DEF ReadActive, Lock, RetireDone, Unlock
      <4>2. ASSUME NEW t \in fresh[p], EnsureKnown(p, t) \/ EnsureQuery(p, t) PROVE FALSE
        BY <2>1, <2>2, <4>2 DEF EnsureKnown, EnsureQuery
      <4>3. CASE Register(p)
        BY <2>2, <4>3 DEF Register, RegisterMissing
      <4> QED BY <3>5, <4>1, <4>2, <4>3 DEF Reload
    <3> QED BY <3>1, <3>2, <3>3, <3>4, <3>5 DEF Next
  <2>4. j = i /\ pc[p] = "retire" /\ phase = "up" /\ mu = p
    BY <2>1, <2>3 DEF Retire, Locked
  <2>5. ASSUME ~Coming PROVE fresh[p] = ActiveTargets
    <3>1. newest = Free /\ \A q \in Procs : pc[q] # "read"
      BY <2>5
    <3> QED BY <2>4, <3>1 DEF NewestInv, Serving
  <2>6. ~Unchanged(p, i)
    BY <2>3, <2>4 DEF Retire, Changed
  <2> QED BY <2>5, <2>6 DEF Unchanged
<1>2. IInv /\ NewestInv /\ [Next]_vars =>
        [\A i \in Ids :
           /\ live[i] # NoLoop /\ live'[i] = NoLoop
           /\ phase' = "up" /\ newest # Stale
           => \/ LoopOf(i) \notin ActiveTargets
              \/ newest \in Procs \/ \E p \in Procs : pc[p] = "read"]_vars
  BY <1>1
<1> QED BY <1>2, HistoryInvariance, PTL DEF Spec, OnlyChangedInterrupted

=============================================================================
