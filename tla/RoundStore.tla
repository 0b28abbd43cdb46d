----------------------------- MODULE RoundStore -----------------------------
(***************************************************************************)
(* How a round travels: probe loop -> ring and write buffer -> SQLite      *)
(* (store.go: Append, Flush, flushLoop, Close; EnsureTarget with replay,   *)
(* RemoveTarget; probe.go: probeLoop), and what shutdown, a crash and the  *)
(* next start leave of it.                                                 *)
(*                                                                         *)
(* One target, hence one row and one ring: that its name leads to its own  *)
(* row is the matter of Runner.  At most one loop of the target is wanted  *)
(* at a time; older ones, told to stop, may still finish a round.  What a  *)
(* round measured is abstracted to when it began and which loop took it.   *)
(*                                                                         *)
(* Append takes two locks in turn (Store.mu for the ring, wmu for the      *)
(* buffer) and Flush holds wmu only to take the buffer, so each of those   *)
(* is a step.  A transaction is one step: it commits or its batch is lost. *)
(***************************************************************************)
EXTENDS Naturals, Sequences, FiniteSets

CONSTANTS Loops,         \* goroutines that run probeLoop, one after another
          FlushLoop, Closer,
          None,
          MaxTime,       \* bound on the clock, in seconds
          EditTime,      \* the same where the target is edited
          BatchSize,     \* 16 in the code
          RingCap,       \* 1440 in the code
          Day,           \* how far back replay reads: 24 hours in the code
          Edits,         \* behaviors in which the target is edited, or not
          Faults         \* may a write transaction fail while the store is open?

Flushers == Loops \cup {FlushLoop, Closer}
Round == [t : 0..MaxTime, by : Loops]

ASSUME RoundStoreAssumption ==
  /\ MaxTime \in Nat /\ EditTime \in 0..MaxTime /\ BatchSize \in Nat \ {0} /\ RingCap \in Nat \ {0}
  /\ Day \in Nat
  /\ FlushLoop \notin Loops /\ Closer \notin Loops /\ FlushLoop # Closer
  /\ None \notin Loops /\ None \notin Round
  /\ Edits \subseteq BOOLEAN /\ Faults \in BOOLEAN

VARIABLES
  edits,      \* may the target be edited, deleted and re-added? (chosen at the start)
  clock,
  phase,      \* up, drain (stopC closed), closing (inside Close), closed
  live,       \* the loop Runner wants, or None
  apply,      \* Runner.apply's step: idle, gone, register, query, set, start
  replayed,   \* what replay read from the database
  registered, \* is the name in Store.ids?
  ring,       \* Store.rings of the name
  pending,    \* Store.pending
  batch,      \* what each Flush in progress has taken
  raw,        \* the rounds table
  lpc,        \* where each loop is: off, probing, buffer, flush, commit, waiting
  current,    \* the round each loop is taking, or took last
  stopC,      \* loops told to stop
  accepted,   \* rounds this process has buffered (history)
  unread      \* rounds the ring may lack: out of replay's reach when it last
              \* looked (history; no longer kept once edits have filled the ring)

runnerVars == <<live, apply, replayed>>
loopVars == <<lpc, current, stopC>>
history == <<accepted, unread>>
vars == <<edits, clock, phase, runnerVars, registered, ring, pending, batch, raw,
          loopVars, history>>

-----------------------------------------------------------------------------
Elems(s) == {s[i] : i \in DOMAIN s}
Seconds(S) == {r.t : r \in S}
\* Mutant: the oldest n are kept.
FirstN(s, n) == IF Len(s) <= n THEN s ELSE SubSeq(s, 1, n)

\* At most the last n.
LastN(s, n) == IF Len(s) <= n THEN s ELSE SubSeq(s, Len(s) - n + 1, Len(s))

\* Mutant: ORDER BY t DESC.
NewestFirst(S) ==
  CHOOSE s \in [1..Cardinality(S) -> S] :
    \A i, j \in 1..Cardinality(S) : i < j => s[i].t > s[j].t

\* ORDER BY t; t is unique in raw.
ByTime(S) ==
  CHOOSE s \in [1..Cardinality(S) -> S] :
    \A i, j \in 1..Cardinality(S) : i < j => s[i].t < s[j].t

\* INSERT OR REPLACE, one statement after the other.
Latest(b) == {b[i] : i \in {j \in DOMAIN b : \A k \in DOMAIN b : k > j => b[k].t # b[j].t}}

\* Mutant: a batch replaces the table.
InsertOnly(S, b) == Latest(b)

Insert(S, b) == {r \in S : r.t \notin Seconds(Elems(b))} \cup Latest(b)

Init ==
  /\ edits \in Edits
  /\ clock = 0
  /\ phase = "up"
  /\ live = None
  /\ apply = "register"
  /\ replayed = <<>>
  /\ registered = FALSE
  /\ ring = <<>>
  /\ pending = <<>>
  /\ batch = [f \in Flushers |-> <<>>]
  /\ raw = {}
  /\ lpc = [l \in Loops |-> "off"]
  /\ current = [l \in Loops |-> None]
  /\ stopC = {}
  /\ accepted = {} /\ unread = {}

Tick ==
  /\ clock < IF edits THEN EditTime ELSE MaxTime
  /\ clock' = clock + 1
  /\ UNCHANGED <<edits, phase, runnerVars, registered, ring, pending, batch, raw, loopVars, history>>

Goto(l, label) == lpc' = [lpc EXCEPT ![l] = label]

-----------------------------------------------------------------------------
(* Runner.apply, as far as this target is concerned.                       *)

\* The row was deactivated: stop the loop, forget name and ring.
RemoveTarget ==
  /\ edits /\ phase = "up" /\ apply = "idle"
  /\ stopC' = stopC \cup {live}
  /\ live' = None
  /\ registered' = FALSE
  /\ ring' = <<>>
  /\ apply' = "gone"
  /\ unread' = {}
  /\ UNCHANGED <<edits, clock, phase, replayed, pending, batch, raw, lpc, current, accepted>>

\* The row is active again.
ReAdd ==
  /\ phase = "up" /\ apply = "gone"
  /\ apply' = "register"
  /\ UNCHANGED <<edits, clock, phase, live, replayed, registered, ring, pending, batch, raw,
                 loopVars, history>>

\* Another host or pace: stop the loop and start a new one; the name stays
\* registered (or moves with its ring), so EnsureTarget has nothing to do.
ChangeTarget ==
  /\ edits /\ phase = "up" /\ apply = "idle"
  /\ stopC' = stopC \cup {live}
  /\ live' = None
  /\ apply' = "start"
  /\ UNCHANGED <<edits, clock, phase, replayed, registered, ring, pending, batch, raw,
                 lpc, current, history>>

\* Rounds that were accepted and are not stored yet.
InFlight == Elems(pending) \cup UNION {Elems(batch[f]) : f \in Flushers}

\* Rounds between Append's two locks: in the ring, not yet in the buffer.
InHand == {current[l] : l \in {m \in Loops : lpc[m] = "buffer"}}

Known == raw \cup InFlight \cup InHand

\* What replay asks for: the last day of the table.
LastDay == {r \in raw : r.t + Day >= clock}

\* EnsureTarget, in three steps: the name and an empty ring, the query of
\* replay, the ring it overwrites.
Register ==
  /\ apply = "register"
  /\ registered' = TRUE
  /\ ring' = <<>>
  /\ apply' = "query"
  /\ UNCHANGED <<edits, clock, phase, live, replayed, pending, batch, raw, loopVars, history>>

ReplayQuery ==
  /\ apply = "query"
  /\ \/ /\ replayed' = LastN(ByTime(LastDay), RingCap)
        /\ unread' = Known \ LastDay
     \/ /\ Faults
        /\ replayed' = <<>>
        /\ unread' = Known
  /\ apply' = "set"
  /\ UNCHANGED <<edits, clock, phase, live, registered, ring, pending, batch, raw, loopVars, accepted>>

ReplaySet ==
  /\ apply = "set"
  /\ ring' = replayed
  /\ replayed' = <<>>
  /\ apply' = "start"
  /\ UNCHANGED <<edits, clock, phase, live, registered, pending, batch, raw, loopVars, history>>

\* A slot of Loops is reused once its rounds cannot be taken for the new
\* loop's: a bound of the model.
StartLoop ==
  /\ apply = "start"
  /\ \E l \in Loops :
       /\ lpc[l] = "off"
       /\ [t |-> clock, by |-> l] \notin Known
       /\ live' = l
       /\ Goto(l, "probing")
       /\ current' = [current EXCEPT ![l] = [t |-> clock, by |-> l]]
  /\ apply' = "idle"
  /\ UNCHANGED <<edits, clock, phase, replayed, registered, ring, pending, batch, raw,
                 stopC, history>>

-----------------------------------------------------------------------------
(* probeLoop and Append.                                                   *)

\* Under Store.mu: the ring, unless the name is gone.
Record(l) ==
  /\ lpc[l] = "probing"
  /\ IF registered
       THEN /\ ring' = LastN(Append(ring, current[l]), RingCap)
            /\ unread' = IF apply = "set" THEN unread \cup {current[l]}
                         ELSE IF edits /\ Len(ring') = RingCap THEN {}
                         ELSE unread \ {current[l]}
            /\ Goto(l, "buffer")
       ELSE UNCHANGED <<ring, unread>> /\ Goto(l, "waiting")
  /\ UNCHANGED <<edits, clock, phase, runnerVars, registered, pending, batch, raw, current, stopC,
                 accepted>>

\* Under wmu: the write buffer; a full one is flushed by whoever filled it.
Buffer(l) ==
  /\ lpc[l] = "buffer"
  /\ pending' = Append(pending, current[l])
  /\ accepted' = accepted \cup {current[l]}
  /\ Goto(l, IF Len(pending') >= BatchSize THEN "flush" ELSE "waiting")
  /\ UNCHANGED <<edits, clock, phase, runnerVars, registered, ring, batch, raw, current, stopC, unread>>

\* Mutant: a round is stamped when it ends.
NextRoundLate(l) ==
  /\ lpc[l] = "waiting"
  /\ current[l].t < clock
  /\ current' = [current EXCEPT ![l].t = clock + 1]
  /\ Goto(l, "probing")
  /\ UNCHANGED <<edits, clock, phase, runnerVars, registered, ring, pending, batch, raw, stopC, history>>

\* The ticker; rounds of one loop begin at least a second apart.  (One that
\* could not be measured is stamped when it ends: as if it had begun then.)
NextRound(l) ==
  /\ lpc[l] = "waiting"
  /\ current[l].t < clock
  /\ current' = [current EXCEPT ![l].t = clock]
  /\ Goto(l, "probing")
  /\ UNCHANGED <<edits, clock, phase, runnerVars, registered, ring, pending, batch, raw, stopC, history>>

ExitLoop(l) ==
  /\ lpc[l] = "waiting"
  /\ l \in stopC
  /\ Goto(l, "off")
  /\ current' = [current EXCEPT ![l] = None]
  /\ stopC' = stopC \ {l}
  /\ UNCHANGED <<edits, clock, phase, runnerVars, registered, ring, pending, batch, raw, history>>

-----------------------------------------------------------------------------
(* Flush.                                                                  *)

\* Mutant: the buffer is emptied whatever a batch can hold.
TakeSome(f) ==
  /\ batch' = [batch EXCEPT ![f] = LastN(pending, 1)]
  /\ pending' = <<>>

Take(f) ==
  /\ batch' = [batch EXCEPT ![f] = pending]
  /\ pending' = <<>>

LoopTakes(l) ==
  /\ lpc[l] = "flush"
  /\ Take(l)
  /\ Goto(l, IF pending = <<>> THEN "waiting" ELSE "commit")
  /\ UNCHANGED <<edits, clock, phase, runnerVars, registered, ring, raw, current, stopC, history>>

\* Mutant: flushLoop, too, waits for a full buffer.
FlushLoopTakesFull ==
  /\ phase \in {"up", "drain"}
  /\ batch[FlushLoop] = <<>> /\ Len(pending) >= BatchSize
  /\ Take(FlushLoop)
  /\ UNCHANGED <<edits, clock, phase, runnerVars, registered, ring, raw, loopVars, history>>

\* flushLoop's ticker; stopC ends it after the flush it may be in.
FlushLoopTakes ==
  /\ phase \in {"up", "drain"}
  /\ batch[FlushLoop] = <<>> /\ pending # <<>>
  /\ Take(FlushLoop)
  /\ UNCHANGED <<edits, clock, phase, runnerVars, registered, ring, raw, loopVars, history>>

Return(f) == IF f \in Loops THEN Goto(f, "waiting") ELSE lpc' = lpc

\* The transaction: it commits (one that has begun outlives db.Close) ...
Commit(f) ==
  /\ batch[f] # <<>>
  /\ raw' = Insert(raw, batch[f])
  /\ batch' = [batch EXCEPT ![f] = <<>>]
  /\ Return(f)
  /\ UNCHANGED <<edits, clock, phase, runnerVars, registered, ring, pending, current, stopC, history>>

\* ... or it fails, as Begin does on a closed database, and nobody puts the
\* batch back.
CommitFails(f) ==
  /\ batch[f] # <<>>
  /\ Faults \/ phase = "closed"
  /\ batch' = [batch EXCEPT ![f] = <<>>]
  /\ Return(f)
  /\ UNCHANGED <<edits, clock, phase, runnerVars, registered, ring, pending, raw, current, stopC, history>>

-----------------------------------------------------------------------------
(* app.shutdown, and the next start.                                       *)

\* stopC is closed, the console has drained, Runner.Stop closes the loops.
StopLoops ==
  /\ phase = "up" /\ apply \in {"idle", "gone"}
  /\ phase' = "drain"
  /\ stopC' = stopC \cup (IF live = None THEN {} ELSE {live})
  /\ live' = None
  /\ apply' = "gone"
  /\ unread' = {}
  /\ UNCHANGED <<edits, clock, replayed, registered, ring, pending, batch, raw, lpc, current, accepted>>

\* Mutant: Close without a Flush.
CloseTakesNothing ==
  /\ phase = "drain"
  /\ \A l \in Loops : lpc[l] = "off"
  /\ phase' = "closing"
  /\ UNCHANGED <<edits, clock, runnerVars, registered, ring, pending, batch, raw, loopVars, history>>

\* Stop has returned; Close calls Flush.
CloseTakes ==
  /\ phase = "drain"
  /\ \A l \in Loops : lpc[l] = "off"
  /\ Take(Closer)
  /\ phase' = "closing"
  /\ UNCHANGED <<edits, clock, runnerVars, registered, ring, raw, loopVars, history>>

CloseDB ==
  /\ phase = "closing"
  /\ batch[Closer] = <<>>
  /\ phase' = "closed"
  /\ UNCHANGED <<edits, clock, runnerVars, registered, ring, pending, batch, raw, loopVars, history>>

\* The process ends, in whatever state it is, and a new one starts; the
\* tables are all that is left.
Restart ==
  /\ clock' = clock /\ edits' = edits
  /\ raw' = raw
  /\ phase' = "up"
  /\ live' = None
  /\ apply' = "register"
  /\ replayed' = <<>>
  /\ registered' = FALSE
  /\ ring' = <<>>
  /\ pending' = <<>>
  /\ batch' = [f \in Flushers |-> <<>>]
  /\ lpc' = [l \in Loops |-> "off"]
  /\ current' = [l \in Loops |-> None]
  /\ stopC' = {}
  /\ accepted' = {} /\ unread' = {}

-----------------------------------------------------------------------------
EnsureTarget == Register \/ ReplayQuery \/ ReplaySet \/ StartLoop
Edit == RemoveTarget \/ ReAdd \/ ChangeTarget
Loop(l) == Record(l) \/ Buffer(l) \/ LoopTakes(l)
Close == CloseTakes \/ CloseDB

Next ==
  \/ Tick
  \/ EnsureTarget \/ Edit
  \/ \E l \in Loops : Loop(l) \/ NextRound(l) \/ ExitLoop(l)
  \/ FlushLoopTakes
  \/ \E f \in Flushers : Commit(f) \/ CommitFails(f)
  \/ StopLoops \/ Close \/ Restart

\* Goroutines are scheduled, transactions end, a stopped loop's select finds
\* the stop channel; nobody has to stop the service or edit the target.
Fairness ==
  /\ WF_vars(EnsureTarget)
  /\ \A l \in Loops : WF_vars(Loop(l)) /\ SF_vars(ExitLoop(l))
  /\ WF_vars(FlushLoopTakes)
  /\ \A f \in Flushers : WF_vars(Commit(f) \/ CommitFails(f))
  /\ WF_vars(Close)

Spec == Init /\ [][Next]_vars
FairSpec == Spec /\ Fairness

-----------------------------------------------------------------------------
(* Properties.                                                             *)

TypeOK ==
  /\ edits \in Edits
  /\ clock \in 0..MaxTime
  /\ phase \in {"up", "drain", "closing", "closed"}
  /\ live \in Loops \cup {None}
  /\ apply \in {"idle", "gone", "register", "query", "set", "start"}
  /\ replayed \in Seq(Round)
  /\ registered \in BOOLEAN
  /\ ring \in Seq(Round)
  /\ pending \in Seq(Round)
  /\ batch \in [Flushers -> Seq(Round)]
  /\ raw \subseteq Round
  /\ lpc \in [Loops -> {"off", "probing", "buffer", "flush", "commit", "waiting"}]
  /\ current \in [Loops -> Round \cup {None}]
  /\ stopC \subseteq Loops
  /\ accepted \subseteq Round
  /\ unread \subseteq Round

\* Storage keeps its promise: RoundLog, where the rounds that wait are those
\* in the buffer and in the hands of a Flush (store.go: Append, Flush).
Log == INSTANCE RoundLog WITH
         waiting <- InFlight,
         durable <- raw,
         WritesFail <- Faults

LogSpec == Log!Spec

\* Nothing is missing from the flight recorder of a target that runs, over
\* edits, re-adds and restarts, but what it cannot have: a round that is
\* stored, buffered or between Append's two locks is in the ring, or the ring
\* is full (of rounds no older, if nobody edits the target), or the round was
\* out of replay's reach: more than a day old, or not stored yet
\* (store.go:154-156: "replays its last 24h into the ring, so a target
\* re-added with an old name comes back with its flight recorder intact").
RecorderIntact ==
  apply = "idle" =>
    \A r \in Known :
      \/ r.t \in Seconds(Elems(ring))
      \/ Len(ring) = RingCap /\ (edits \/ \A i \in DOMAIN ring : ring[i].t >= r.t)
      \/ r \in unread

\* While the store is open nothing is shown that storage does not have or is
\* not about to get, as long as no write fails: each second in the ring is
\* stored, buffered, or in the hands of the loop that is between Append's two
\* locks (store.go: Append, replay).
RingBacked == phase # "closed" => Seconds(Elems(ring)) \subseteq Seconds(Known)

\* The ring of a target that is left alone is in order of time, as the binary
\* search of Recent takes for granted (store.go: Recent's sort.Search).
RingSorted == ~edits => \A i, j \in DOMAIN ring : i < j => ring[i].t <= ring[j].t

\* What a shutdown may leave unstored was taken by flushLoop: nothing that
\* was still in the buffer, or with another Flush, is lost at Close.  (app.go:169
\* calls Close the "final flush"; a batch flushLoop has taken is not part of it.)
OnlyFlushLoopLoses ==
  [][phase = "closing" /\ phase' = "closed" =>
       Seconds(accepted) \subseteq Seconds(raw \cup Elems(batch[FlushLoop]))]_vars

\* No accepted round sits in memory for ever, however few there are: its write
\* is attempted in the end, unless the process ends first (store.go:269-271:
\* "never sit on data").  That an attempt stores it is LogSpec.
NeverSits == \A r \in Round : r \in InFlight ~> r \notin InFlight

=============================================================================
