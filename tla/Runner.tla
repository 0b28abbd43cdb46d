------------------------------- MODULE Runner -------------------------------
(***************************************************************************)
(* The set of running probe loops and how edits of the target list reach   *)
(* it (runner.go, with the handlers of web.go and the name registry of     *)
(* store.go).                                                              *)
(*                                                                         *)
(* An administrator's request writes the targets table, then calls Reload: *)
(* read the active rows, take Runner.mu, retire every loop whose target    *)
(* changed, start what is missing.  The steps of one request interleave    *)
(* with the other requests, with the probe loops (which never take         *)
(* Runner.mu) and with shutdown.  A loop finishes a round long after it    *)
(* began it and files it by NAME: Store.ids turns the name into a row id   *)
(* at that moment.                                                         *)
(*                                                                         *)
(* Abstracted: the rings and the write buffer behind Append (RoundStore),  *)
(* what a round measures, and the order in which free slots are used.  A   *)
(* restart or a crash keeps the tables and nothing else.                   *)
(***************************************************************************)
EXTENDS TargetTable, FiniteSets

CONSTANTS Admins,      \* requests that can be in flight at once
          Main,        \* the goroutine that starts and stops the app
          LoopIds,     \* slots for probe loops, stopped ones included
          NoLoop, NoCfg, Free, Stale,
          DemoName, DemoAddr,
          Faults,        \* may a query of the database fail?
          GraceElapses   \* may a request outlive srv.Shutdown's 5 seconds?

Procs == Admins \cup {Main}

ASSUME RunnerAssumption ==
  /\ Main \notin Admins
  /\ NoLoop \notin LoopIds
  /\ NoCfg \notin TargetCfg
  /\ Free \notin Procs /\ Stale \notin Procs \cup {Free}
  /\ DemoName \in Names /\ DemoAddr \in Addrs /\ MaxRows > 0
  /\ Faults \in BOOLEAN /\ GraceElapses \in BOOLEAN

VARIABLES
  phase,      \* of the process: boot, up, drain, join, stopped, down
  pc,         \* where each request is: idle, read, lock, retire, ensure, register
  fresh,      \* what each request's ActiveTargets returned
  mu,         \* holder of Runner.mu, or Free
  found,      \* EnsureTarget between its query and its registration
  live,       \* Runner.live: target id -> its loop
  ids,        \* Store.ids: registered name -> row id, 0 when absent
  loopState,  \* free, probing, waiting
  loopCfg,    \* the TargetCfg a loop was started with
  stopC,      \* loops whose stop channel is closed
  filed,      \* rounds accepted so far: row they are filed under, target measured
  newest,     \* history: which Reload has read the table last (see below)
  mixed       \* history: have requests overlapped, or a query failed?

handlerVars == <<pc, fresh, mu, found>>
loopVars == <<loopState, loopCfg, stopC>>
history == <<newest, mixed>>
vars == <<rows, phase, handlerVars, live, ids, loopVars, filed, history>>

-----------------------------------------------------------------------------
Found == [cfg : TargetCfg, row : Ids]
NotFound == [cfg |-> NoCfg, row |-> 0]
LoopOf(i) == loopCfg[live[i]]
Unregistered == [n \in Names |-> 0]

\* Nothing runs yet: the state of the process as it starts.
Fresh ==
  /\ phase' = "boot"
  /\ pc' = [p \in Procs |-> IF p = Main THEN "read" ELSE "idle"]
  /\ fresh' = [p \in Procs |-> {}]
  /\ mu' = Free
  /\ found' = NotFound
  /\ live' = [i \in Ids |-> NoLoop]
  /\ ids' = Unregistered
  /\ loopState' = [l \in LoopIds |-> "free"]
  /\ loopCfg' = [l \in LoopIds |-> NoCfg]
  /\ stopC' = {}
  /\ newest' = Free /\ mixed' = FALSE

\* A new database, seeded with the demo target; startApp goes on to Reload.
Init ==
  /\ rows = <<[name |-> DemoName, addr |-> DemoAddr, active |-> TRUE]>>
  /\ phase = "boot"
  /\ pc = [p \in Procs |-> IF p = Main THEN "read" ELSE "idle"]
  /\ fresh = [p \in Procs |-> {}]
  /\ mu = Free
  /\ found = NotFound
  /\ live = [i \in Ids |-> NoLoop]
  /\ ids = Unregistered
  /\ loopState = [l \in LoopIds |-> "free"]
  /\ loopCfg = [l \in LoopIds |-> NoCfg]
  /\ stopC = {}
  /\ filed = {}
  /\ newest = Free /\ mixed = FALSE

Goto(p, label) == pc' = [pc EXCEPT ![p] = label]

\* The history.  newest is the request whose Reload has read the table last
\* and still waits for Runner.mu; Free, once what was read last is what apply
\* has taken up last; Stale, when an older snapshot was taken up after it, or
\* a failed query kept a row from being applied.
TakenUp(p) ==
  newest' = IF newest = p THEN Free ELSE IF newest = Free THEN Stale ELSE newest

Failed(n) == newest' = n /\ mixed' = TRUE

-----------------------------------------------------------------------------
(* The handlers: write the table, then Reload.  A refused or failed write  *)
(* ends the request without a Reload.                                      *)

Accept(h) == phase = "up" /\ pc[h] = "idle"

WriteDone(h) ==
  /\ Goto(h, "read")
  /\ mixed' = (mixed \/ \E p \in Procs : pc[p] # "idle")
  /\ UNCHANGED <<phase, fresh, mu, found, live, ids, loopVars, filed, newest>>

Create(h) ==
  /\ Accept(h)
  /\ \E n \in Names, a \in Addrs : CreateTarget(n, a)
  /\ WriteDone(h)

\* The row is written, but the query for its id fails: 500, and no Reload.
CreateLosesId(h) ==
  /\ Faults
  /\ Accept(h)
  /\ \E n \in Names, a \in Addrs : CreateTarget(n, a)
  /\ Failed(Stale)
  /\ UNCHANGED <<phase, handlerVars, live, ids, loopVars, filed>>

Import(h) ==
  /\ Accept(h)
  /\ \E n1, n2 \in Names, a1, a2 \in Addrs : ImportTargets(n1, a1, n2, a2)
  /\ WriteDone(h)

Update(h) ==
  /\ Accept(h)
  /\ \E i \in Ids, n \in Names, a \in Addrs : UpdateTarget(i, n, a)
  /\ WriteDone(h)

\* (The handler first takes run.Targets(), a snapshot it only logs.)
Delete(h) ==
  /\ Accept(h)
  /\ \E i \in Ids : DeactivateTarget(i)
  /\ WriteDone(h)

-----------------------------------------------------------------------------
(* Reload.                                                                 *)

ReadActive(p) ==
  /\ pc[p] = "read"
  /\ fresh' = [fresh EXCEPT ![p] = ActiveTargets]
  /\ Goto(p, "lock")
  /\ newest' = p
  /\ UNCHANGED <<rows, phase, mu, found, live, ids, loopVars, filed, mixed>>

\* A handler only logs it; startApp gives up.
ReadFails(p) ==
  /\ Faults
  /\ pc[p] = "read"
  /\ Goto(p, "idle")
  /\ phase' = IF p = Main THEN "down" ELSE phase
  /\ Failed(Stale)
  /\ UNCHANGED <<rows, fresh, mu, found, live, ids, loopVars, filed>>

Lock(p) ==
  /\ pc[p] = "lock"
  /\ mu = Free
  /\ mu' = p
  /\ Goto(p, "retire")
  /\ TakenUp(p)
  /\ UNCHANGED <<rows, phase, fresh, found, live, ids, loopVars, filed, mixed>>

\* Mutant: the diff looks at the id only.
UnchangedId(p, i) == \E t \in fresh[p] : t.id = i

\* Mutant: apply restarts everything.
UnchangedNever(p, i) == FALSE

\* t == lt.cfg, for the row of the same id.
Unchanged(p, i) == LoopOf(i) \in fresh[p]
Changed(p) == {i \in Ids : live[i] # NoLoop /\ ~Unchanged(p, i)}
Missing(p) == {t \in fresh[p] : live[t.id] = NoLoop}

RemoveTarget(n) == ids' = [ids EXCEPT ![n] = 0]

\* Mutant: the old name is not deleted.
RenameTargetKeepsOld(old, new) ==
  IF ids[old] = 0 THEN ids' = ids
  ELSE ids' = [ids EXCEPT ![new] = ids[old]]

RenameTarget(old, new) ==
  IF ids[old] = 0 THEN ids' = ids
  ELSE ids' = [ids EXCEPT ![new] = ids[old], ![old] = 0]

\* Mutant: the stop channel is not closed.
RetireNoClose(p, i) ==
  /\ pc[p] = "retire"
  /\ i \in Changed(p)
  /\ live' = [live EXCEPT ![i] = NoLoop]
  /\ ids' = [ids EXCEPT ![LoopOf(i).name] = 0]
  /\ UNCHANGED <<rows, phase, handlerVars, loopVars, filed, history>>

\* One iteration of the first loop of apply; the map is visited in any order.
Retire(p, i) ==
  /\ pc[p] = "retire"
  /\ i \in Changed(p)
  /\ stopC' = stopC \cup {live[i]}
  /\ live' = [live EXCEPT ![i] = NoLoop]
  /\ \/ /\ \A t \in fresh[p] : t.id # i
        /\ RemoveTarget(LoopOf(i).name)
     \/ \E t \in fresh[p] :
          /\ t.id = i
          /\ IF t.name # LoopOf(i).name
               THEN RenameTarget(LoopOf(i).name, t.name)
               ELSE ids' = ids
  /\ UNCHANGED <<rows, phase, handlerVars, loopState, loopCfg, filed, history>>

RetireDone(p) ==
  /\ pc[p] = "retire"
  /\ Changed(p) = {}
  /\ Goto(p, "ensure")
  /\ UNCHANGED <<rows, phase, fresh, mu, found, live, ids, loopVars, filed, history>>

\* live[id] = ..., and go probeLoop(t, ...), whose first act is a round.
StartLoop(t) ==
  \E l \in LoopIds :
    /\ loopState[l] = "free"
    /\ live' = [live EXCEPT ![t.id] = l]
    /\ loopState' = [loopState EXCEPT ![l] = "probing"]
    /\ loopCfg' = [loopCfg EXCEPT ![l] = t]
    /\ UNCHANGED stopC

\* Mutant: apply starts the loop without EnsureTarget.
EnsureKnownSkipped(p, t) ==
  /\ pc[p] = "ensure"
  /\ t \in Missing(p)
  /\ StartLoop(t)
  /\ UNCHANGED <<rows, phase, handlerVars, ids, filed, history>>

\* EnsureTarget finds the name registered: nothing to do but start the loop.
EnsureKnown(p, t) ==
  /\ pc[p] = "ensure"
  /\ t \in Missing(p)
  /\ ids[t.name] # 0
  /\ StartLoop(t)
  /\ UNCHANGED <<rows, phase, handlerVars, ids, filed, history>>

\* EnsureTarget's query: the row that has the name now, or a bare new one.
EnsureQuery(p, t) ==
  /\ pc[p] = "ensure"
  /\ t \in Missing(p)
  /\ ids[t.name] = 0
  /\ \/ /\ HasRow(rows, t.name)
        /\ rows' = rows
        /\ found' = [cfg |-> t, row |-> IdOf(rows, t.name)]
     \/ /\ ~HasRow(rows, t.name)
        /\ Len(rows) < MaxRows
        /\ rows' = Append(rows, BareRow(t.name))
        /\ found' = [cfg |-> t, row |-> Len(rows) + 1]
  /\ Goto(p, "register")
  /\ UNCHANGED <<phase, fresh, mu, live, ids, loopVars, filed, history>>

\* An error is logged and the target skipped.  (Also the outcome when the
\* bound on rows leaves no room for a bare row.)
EnsureFails(p, t) ==
  /\ pc[p] = "ensure"
  /\ t \in Missing(p)
  /\ ids[t.name] = 0
  /\ Faults \/ (~HasRow(rows, t.name) /\ Len(rows) = MaxRows)
  /\ fresh' = [fresh EXCEPT ![p] = @ \ {t}]
  /\ Failed(IF newest = Free THEN Stale ELSE newest)
  /\ UNCHANGED <<rows, phase, pc, mu, found, live, ids, loopVars, filed>>

Register(p) ==
  /\ pc[p] = "register"
  /\ ids' = [ids EXCEPT ![found.cfg.name] = found.row]
  /\ StartLoop(found.cfg)
  /\ found' = NotFound
  /\ Goto(p, "ensure")
  /\ UNCHANGED <<rows, phase, fresh, mu, filed, history>>

\* Mutant: no deferred Unlock.
UnlockForgotten(p) ==
  /\ pc[p] = "ensure"
  /\ Missing(p) = {}
  /\ fresh' = [fresh EXCEPT ![p] = {}]
  /\ Goto(p, "idle")
  /\ phase' = IF p = Main THEN "up" ELSE phase
  /\ UNCHANGED <<rows, mu, found, live, ids, loopVars, filed, history>>

\* End of apply; startApp serves the console only now.
Unlock(p) ==
  /\ pc[p] = "ensure"
  /\ Missing(p) = {}
  /\ mu' = Free
  /\ fresh' = [fresh EXCEPT ![p] = {}]
  /\ Goto(p, "idle")
  /\ phase' = IF p = Main THEN "up" ELSE phase
  /\ UNCHANGED <<rows, found, live, ids, loopVars, filed, history>>

Reload(p) ==
  \/ ReadActive(p) \/ Lock(p)
  \/ \E i \in Ids : Retire(p, i)
  \/ RetireDone(p)
  \/ \E t \in fresh[p] : EnsureKnown(p, t) \/ EnsureQuery(p, t)
  \/ Register(p) \/ Unlock(p)

Fail(p) == ReadFails(p) \/ \E t \in fresh[p] : EnsureFails(p, t)

-----------------------------------------------------------------------------
(* probeLoop.                                                              *)

\* A round ends and is filed under the row its name stands for now; a name
\* that is no longer registered drops it.
FileRound(l) ==
  LET t == loopCfg[l] IN
  /\ loopState[l] = "probing"
  /\ filed' = IF ids[t.name] = 0 THEN filed
              ELSE filed \cup {[row |-> ids[t.name], of |-> t.id]}
  /\ loopState' = [loopState EXCEPT ![l] = "waiting"]
  /\ UNCHANGED <<rows, phase, handlerVars, live, ids, loopCfg, stopC, history>>

\* select may take the ticker even when stop is closed.
NextRound(l) ==
  /\ loopState[l] = "waiting"
  /\ loopState' = [loopState EXCEPT ![l] = "probing"]
  /\ UNCHANGED <<rows, phase, handlerVars, live, ids, loopCfg, stopC, filed, history>>

\* Mutant: the select has no stop case.
ExitLoopDeaf(l) ==
  /\ FALSE
  /\ loopState[l] = "waiting"
  /\ UNCHANGED vars

ExitLoop(l) ==
  /\ loopState[l] = "waiting"
  /\ l \in stopC
  /\ loopState' = [loopState EXCEPT ![l] = "free"]
  /\ loopCfg' = [loopCfg EXCEPT ![l] = NoCfg]
  /\ stopC' = stopC \ {l}
  /\ UNCHANGED <<rows, phase, handlerVars, live, ids, filed, history>>

ProbeLoop(l) == FileRound(l) \/ NextRound(l) \/ ExitLoop(l)

-----------------------------------------------------------------------------
(* app.shutdown: close the console, Runner.Stop, and the process is gone.  *)

CloseConsole ==
  /\ phase = "up"
  /\ phase' = "drain"
  /\ UNCHANGED <<rows, handlerVars, live, ids, loopVars, filed, history>>

\* Mutant: Stop empties the map and closes nothing.
StopLoopsNoClose ==
  /\ phase = "drain"
  /\ GraceElapses \/ \A h \in Admins : pc[h] = "idle"
  /\ mu = Free
  /\ live' = [i \in Ids |-> NoLoop]
  /\ phase' = "join"
  /\ UNCHANGED <<rows, handlerVars, ids, loopVars, filed, history>>

\* srv.Shutdown has waited for the requests, or for five seconds.
StopLoops ==
  /\ phase = "drain"
  /\ GraceElapses \/ \A h \in Admins : pc[h] = "idle"
  /\ mu = Free
  /\ stopC' = stopC \cup {live[i] : i \in {j \in Ids : live[j] # NoLoop}}
  /\ live' = [i \in Ids |-> NoLoop]
  /\ phase' = "join"
  /\ UNCHANGED <<rows, handlerVars, ids, loopState, loopCfg, filed, history>>

Running == {l \in LoopIds : loopState[l] # "free"}

\* wg.Wait returns.
StopReturns ==
  /\ phase = "join"
  /\ Running = {}
  /\ phase' = "stopped"
  /\ UNCHANGED <<rows, handlerVars, live, ids, loopVars, filed, history>>

\* A crash, or the next start after a shutdown.
Restart ==
  /\ phase # "boot"
  /\ Fresh
  /\ UNCHANGED <<rows, filed>>

Shutdown == StopLoops \/ StopReturns

-----------------------------------------------------------------------------
Request(h) ==
  Create(h) \/ CreateLosesId(h) \/ Import(h) \/ Update(h) \/ Delete(h)

Next ==
  \/ \E h \in Admins : Request(h)
  \/ \E p \in Procs : Reload(p) \/ Fail(p)
  \/ \E l \in LoopIds : ProbeLoop(l)
  \/ CloseConsole \/ Shutdown \/ Restart

\* Go schedules every goroutine, hands a contended mutex to each waiter in
\* turn, and a select with several ready cases picks one at random, so a
\* stopped loop is not passed over for ever.  Rounds end: every probe has a
\* timeout.  Nobody has to send a request, crash, or stop the service.
Fairness ==
  /\ \A p \in Procs : WF_vars(Reload(p)) /\ SF_vars(Lock(p))
  /\ \A l \in LoopIds : WF_vars(FileRound(l)) /\ SF_vars(ExitLoop(l))
  /\ SF_vars(StopLoops) /\ WF_vars(StopReturns)

Spec == Init /\ [][Next]_vars
FairSpec == Spec /\ Fairness

-----------------------------------------------------------------------------
(* Properties.                                                             *)

\* The type of every variable, and UNIQUE(name) of the targets table.
TypeOK ==
  /\ TableTypeOK
  /\ phase \in {"boot", "up", "drain", "join", "stopped", "down"}
  /\ pc \in [Procs -> {"idle", "read", "lock", "retire", "ensure", "register"}]
  /\ fresh \in [Procs -> SUBSET TargetCfg]
  /\ mu \in Procs \cup {Free}
  /\ found \in Found \cup {NotFound}
  /\ live \in [Ids -> LoopIds \cup {NoLoop}]
  /\ ids \in [Names -> Ids \cup {0}]
  /\ loopState \in [LoopIds -> {"free", "probing", "waiting"}]
  /\ loopCfg \in [LoopIds -> TargetCfg \cup {NoCfg}]
  /\ stopC \subseteq LoopIds
  /\ filed \subseteq [row : Ids, of : Ids]
  /\ newest \in Procs \cup {Free, Stale}
  /\ mixed \in BOOLEAN

\* Runner.live is exactly the set of loops nobody has told to stop: no loop
\* runs on with nothing left to stop it, no entry names a loop that is being
\* stopped or belongs to another target, and so no target is probed twice
\* (runner.go: apply, Stop).
LoopsMatchLive ==
  /\ \A i \in Ids : live[i] # NoLoop =>
        /\ live[i] \in Running \ stopC
        /\ LoopOf(i) # NoCfg
        /\ LoopOf(i).id = i
  /\ \A l \in Running \ stopC : loopCfg[l] # NoCfg /\ live[loopCfg[l].id] = l

\* The name of every running target is registered with the store, so that the
\* rounds of a running loop are never dropped by Append as unknown
\* (store.go: Append's `if !ok`), whatever other requests are doing.
LiveRegistered == \A i \in Ids : live[i] # NoLoop => ids[LoopOf(i).name] # 0

\* The registry holds no name that is not being probed, once no Reload is
\* applying changes: removed and renamed targets leave nothing behind
\* (store.go: RemoveTarget, RenameTarget).
NoGhostNames ==
  mu = Free /\ phase \in {"boot", "up", "drain"} =>
    \A n \in Names : ids[n] # 0 => \E i \in Ids : live[i] # NoLoop /\ LoopOf(i).name = n

\* No request is between its write and the end of its Reload.
Quiet == phase = "up" /\ \A p \in Procs : pc[p] = "idle"

\* When no request is in flight, exactly the active targets are being probed,
\* each as its row says, however many requests have overlapped and whatever
\* has failed before: the Reload that read the table last makes up for all of
\* that, unless one that read it earlier was let into apply after it, or a
\* query has failed since (web.go:612-614: "either the row is there and
\* probing, or it is not there at all").
QuiescentAgreement ==
  Quiet /\ newest # Stale =>
    {LoopOf(i) : i \in {j \in Ids : live[j] # NoLoop}} = ActiveTargets

\* As long as requests come one at a time and no query fails, every running
\* target's name stands for its own row when none is in flight: rounds of a
\* loop that is not being stopped are filed under the target it measures
\* (store.go: RenameTarget, "History follows automatically: rows are keyed by
\* target_id, and the id doesn't change on rename").
OwnHistory ==
  Quiet /\ ~mixed => \A i \in Ids : live[i] # NoLoop => ids[LoopOf(i).name] = i

\* Not so, not even then: every round ever recorded for a target was measured
\* by that target's loop (targets.go:17-18 refuses a rename that "would silently
\* merge two histories").
NoMergedHistory == \A r \in filed : r.row = r.of

\* After Stop has returned no probe loop is running (runner.go:94: "Stop ends
\* every probe loop and waits for them to actually be gone").  A request that
\* outlives srv.Shutdown may still start one.
StoppedMeansGone == phase = "stopped" => Running = {}

\* One administrator's edit never interrupts another one's target: a loop
\* whose row still says what it probes is stopped only by a Reload that a
\* newer one is waiting behind, and that one starts it again
\* (runner.go: apply's `continue`).  Requests may overlap and queries fail;
\* what is left out is a Reload let into apply after a newer one.
OnlyChangedInterrupted ==
  [][\A i \in Ids :
       /\ live[i] # NoLoop /\ live'[i] = NoLoop
       /\ phase' = "up" /\ newest # Stale
       => \/ LoopOf(i) \notin ActiveTargets
          \/ newest \in Procs \/ \E p \in Procs : pc[p] = "read"]_vars

\* Every Reload ends: none waits for ever for another one that holds
\* Runner.mu, nor for a loop.
ReloadEnds == \A p \in Procs : pc[p] # "idle" ~> pc[p] = "idle"

\* A loop that is told to stop is gone in the end, although select may prefer
\* the ticker for a while (probe.go: probeLoop).
StoppedLoopsExit == \A l \in LoopIds : l \in stopC ~> l \notin stopC

\* Once the console is closed, Stop returns: the requests and every loop end
\* (app.go: shutdown), unless the process dies first.
StopCompletes == phase \in {"drain", "join"} ~> phase \in {"stopped", "boot"}

=============================================================================
