-------------------------- MODULE RoundStoreProofs --------------------------
(***************************************************************************)
(* What TLAPS proves of RoundStore, for batches, rings and clocks of any   *)
(* size and any number of loops, with or without edits; and, where it is   *)
(* said, of a store whose writes do not fail.                              *)
(***************************************************************************)
EXTENDS RoundStore, FiniteSetTheorems, SequenceTheorems, TLAPS

-----------------------------------------------------------------------------
(* Naturals and sequences.                                                 *)

\* A set of naturals has a least element, and a bounded one a greatest.
LEMMA NatWellFounded == IsWellFoundedOn({p \in Nat \X Nat : p[1] < p[2]}, Nat)
  BY NatLessThanWellFounded DEF OpToRel

\* A set of naturals has a least element.
LEMMA HasLeast ==
  ASSUME NEW T, T \subseteq Nat, T # {}
  PROVE  \E x \in T : \A y \in T : x <= y
  <1>1. PICK x \in T : \A y \in T : ~ (<<y, x>> \in {p \in Nat \X Nat : p[1] < p[2]})
    BY NatWellFounded, WFMin
  <1>2. \A y \in T : ~(y < x)
    BY <1>1
  <1> QED BY <1>2

\* A bounded set of naturals has a greatest element.
LEMMA HasGreatest ==
  ASSUME NEW n \in Nat, NEW T, T \subseteq 0..n, T # {}
  PROVE  \E x \in T : \A y \in T : y <= x
  <1> DEFINE U == {n - x : x \in T}
  <1>1. U \subseteq Nat /\ U # {}
    <2>1. \A x \in T : x \in 0..n /\ n - x \in Nat
      OBVIOUS
    <2> QED BY <2>1
  <1>2. PICK u \in U : \A y \in U : u <= y
    <2> HIDE DEF U
    <2> QED BY <1>1, HasLeast
  <1>3. PICK x \in T : u = n - x
    OBVIOUS
  <1>4. \A y \in T : n - x <= n - y
    BY <1>2, <1>3
  <1> QED BY <1>4

\* LastN is the end of the sequence (store.go: Append's trim).
LEMMA LastNIs ==
  ASSUME NEW s \in Seq(Round), NEW n \in Nat
  PROVE  /\ LastN(s, n) \in Seq(Round)
         /\ Len(LastN(s, n)) = IF Len(s) <= n THEN Len(s) ELSE n
         /\ \A i \in 1..Len(LastN(s, n)) :
              /\ i + Len(s) - Len(LastN(s, n)) \in 1..Len(s)
              /\ LastN(s, n)[i] = s[i + Len(s) - Len(LastN(s, n))]
  <1>1. CASE Len(s) <= n
    BY <1>1 DEF LastN
  <1>2. CASE ~(Len(s) <= n)
    <2>1. Len(s) \in Nat /\ Len(s) - n + 1 \in 1..Len(s)+1 /\ LastN(s, n) = SubSeq(s, Len(s) - n + 1, Len(s))
      BY <1>2 DEF LastN
    <2>2. /\ LastN(s, n) \in Seq(Round)
          /\ Len(LastN(s, n)) = n
      BY <1>2, <2>1, SubSeqProperties
    <2>3. \A i \in 1..n : LastN(s, n)[i] = s[i + Len(s) - n] /\ i + Len(s) - n \in 1..Len(s)
      BY <1>2, <2>1, SubSeqProperties
    <2> QED BY <1>2, <2>2, <2>3
  <1> QED BY <1>1, <1>2

\* The rounds of a sequence, and of one that has grown by one.
LEMMA ElemsIs ==
  ASSUME NEW s \in Seq(Round)
  PROVE  /\ Elems(s) \subseteq Round
         /\ Elems(s) = {} <=> s = <<>>
         /\ \A r \in Round : Elems(Append(s, r)) = Elems(s) \cup {r}
  <1>1. Elems(s) \subseteq Round
    BY DEF Elems
  <1>2. Elems(s) = {} <=> s = <<>>
    <2>1. ASSUME s # <<>> PROVE Elems(s) # {}
      <3>1. 1 \in DOMAIN s
        BY <2>1, EmptySeq
      <3> QED BY <3>1 DEF Elems
    <2> QED BY <2>1 DEF Elems
  <1>3. ASSUME NEW r \in Round PROVE Elems(Append(s, r)) = Elems(s) \cup {r}
    <2>1. /\ DOMAIN Append(s, r) = DOMAIN s \cup {Len(s) + 1}
          /\ Append(s, r)[Len(s) + 1] = r
          /\ \A i \in DOMAIN s : Append(s, r)[i] = s[i]
      BY AppendProperties
    <2> QED BY <2>1 DEF Elems
  <1> QED BY <1>1, <1>2, <1>3

\* An empty sequence has none.
LEMMA NoElems == Elems(<<>>) = {}
  BY DEF Elems

\* Some element of a batch is the last one of its second.
LEMMA LastOfSecond ==
  ASSUME NEW b \in Seq(Round), NEW r \in Elems(b)
  PROVE  \E q \in Latest(b) : q.t = r.t
  <1> DEFINE J == {j \in DOMAIN b : b[j].t = r.t}
  <1>1. Len(b) \in Nat /\ DOMAIN b = 1..Len(b) /\ J \subseteq 0..Len(b) /\ J # {}
    BY DEF Elems
  <1>2. PICK j \in J : \A k \in J : k <= j
    BY <1>1, HasGreatest
  <1>3. \A k \in DOMAIN b : k > j => b[k].t # b[j].t
    BY <1>1, <1>2
  <1>4. b[j] \in Latest(b) /\ b[j].t = r.t
    BY <1>2, <1>3 DEF Latest
  <1> QED BY <1>4

\* A table in which every second has one round.
Unique(S) == \A q, r \in S : q.t = r.t => q = r

\* A write keeps the seconds that are there, adds those of the batch, and
\* leaves one round in each (store.go: Flush, INSERT OR REPLACE).
LEMMA InsertIs ==
  ASSUME NEW S, S \subseteq Round, Unique(S), NEW b \in Seq(Round)
  PROVE  /\ Insert(S, b) \subseteq S \cup Elems(b)
         /\ Insert(S, b) \subseteq Round
         /\ Seconds(Insert(S, b)) = Seconds(S \cup Elems(b))
         /\ Unique(Insert(S, b))
  <1>1. Latest(b) \subseteq Elems(b) /\ Elems(b) \subseteq Round
    BY ElemsIs DEF Latest, Elems
  <1>2. Insert(S, b) \subseteq S \cup Elems(b)
    BY <1>1 DEF Insert
  <1>3. Seconds(Insert(S, b)) = Seconds(S \cup Elems(b))
    <2>1. ASSUME NEW r \in S \cup Elems(b) PROVE r.t \in Seconds(Insert(S, b))
      <3>1. CASE r.t \in Seconds(Elems(b))
        <4>1. PICK q \in Elems(b) : q.t = r.t
          BY <3>1 DEF Seconds
        <4>2. PICK p \in Latest(b) : p.t = r.t
          BY <4>1, LastOfSecond
        <4> QED BY <4>2 DEF Insert, Seconds
      <3>2. CASE r.t \notin Seconds(Elems(b))
        <4>1. r \in Insert(S, b)
          BY <3>2 DEF Insert, Seconds
        <4> QED BY <4>1 DEF Seconds
      <3> QED BY <3>1, <3>2
    <2> QED BY <1>2, <2>1 DEF Seconds
  <1>4. Unique(Latest(b))
    <2> SUFFICES ASSUME NEW q \in Latest(b), NEW r \in Latest(b), q.t = r.t PROVE q = r
      BY DEF Unique
    <2>1. PICK i \in DOMAIN b : q = b[i] /\ \A k \in DOMAIN b : k > i => b[k].t # q.t
      BY DEF Latest
    <2>2. PICK j \in DOMAIN b : r = b[j] /\ \A k \in DOMAIN b : k > j => b[k].t # r.t
      BY DEF Latest
    <2>3. i \in Nat /\ j \in Nat
      OBVIOUS
    <2> QED BY <2>1, <2>2, <2>3
  <1>5. Unique(Insert(S, b))
    BY <1>1, <1>4 DEF Unique, Insert, Seconds
  <1> QED BY <1>1, <1>2, <1>3, <1>5

\* The query of replay: the rounds of the table, oldest first (store.go:
\* replay, ORDER BY t).
LEMMA ByTimeIs ==
  ASSUME NEW S, S \subseteq Round, Unique(S)
  PROVE  /\ ByTime(S) \in Seq(Round)
         /\ \A i, j \in DOMAIN ByTime(S) : i < j => ByTime(S)[i].t < ByTime(S)[j].t
         /\ \A i \in DOMAIN ByTime(S) : ByTime(S)[i] \in S
         /\ \A r \in S : \E i \in DOMAIN ByTime(S) : ByTime(S)[i] = r
  <1> DEFINE n == Cardinality(S)
             Below(r) == {q \in S : q.t <= r.t}
             rank == [r \in S |-> Cardinality(Below(r))]
             InOrder(s) == \A i, j \in 1..n : i < j => s[i].t < s[j].t
  <1>1. \A r \in S : r.t \in 0..MaxTime /\ r.t \in Nat
    BY DEF Round
  <1>2. IsFiniteSet(S) /\ n \in Nat
    <2> DEFINE f == [r \in S |-> r.t]
    <2>1. f \in Injection(S, 0..MaxTime)
      BY <1>1 DEF Unique, Injection, IsInjective
    <2>2. IsFiniteSet(0..MaxTime)
      BY RoundStoreAssumption, FS_Interval
    <2>3. IsFiniteSet(S)
      BY <2>1, <2>2, FS_Injection
    <2> QED BY <2>3, FS_CardinalityType
  <1>3. \A r \in S : /\ Below(r) \subseteq S /\ r \in Below(r)
                     /\ IsFiniteSet(Below(r))
                     /\ Cardinality(Below(r)) \in 1..n
    <2> SUFFICES ASSUME NEW r \in S
                 PROVE  /\ Below(r) \subseteq S /\ r \in Below(r)
                        /\ IsFiniteSet(Below(r))
                        /\ Cardinality(Below(r)) \in 1..n
      OBVIOUS
    <2>1. Below(r) \subseteq S /\ r \in Below(r)
      BY <1>1
    <2>2. IsFiniteSet(Below(r)) /\ Cardinality(Below(r)) <= n
      BY <1>2, <2>1, FS_Subset
    <2>3. Cardinality(Below(r)) \in Nat /\ Cardinality(Below(r)) # 0
      BY <2>1, <2>2, FS_CardinalityType, FS_EmptySet
    <2> QED BY <1>2, <2>1, <2>2, <2>3
  <1>4. \A q, r \in S : q.t < r.t => Cardinality(Below(q)) < Cardinality(Below(r))
    <2> SUFFICES ASSUME NEW q \in S, NEW r \in S, q.t < r.t
                 PROVE  Cardinality(Below(q)) < Cardinality(Below(r))
      OBVIOUS
    <2>1. Below(q) \subseteq Below(r) /\ r \in Below(r) /\ r \notin Below(q)
      BY <1>1
    <2>2. /\ Cardinality(Below(q)) <= Cardinality(Below(r))
          /\ Cardinality(Below(q)) # Cardinality(Below(r))
      BY <1>3, <2>1, FS_Subset
    <2>3. Cardinality(Below(q)) \in 1..n /\ Cardinality(Below(r)) \in 1..n
      BY <1>3
    <2> QED BY <1>2, <2>2, <2>3
  <1>5. /\ rank \in [S -> 1..n]
        /\ \A q, r \in S : q.t < r.t => rank[q] < rank[r]
    BY <1>3, <1>4
  <1> HIDE DEF rank, Below, n
  <1>6. \A q, r \in S : rank[q] = rank[r] => q = r
    BY <1>1, <1>2, <1>5 DEF Unique
  <1>7. rank \in Injection(S, 1..n)
    BY <1>5, <1>6 DEF Injection, IsInjective
  <1>8. IsFiniteSet(1..n) /\ Cardinality(1..n) = n
    BY <1>2, FS_Interval
  <1>9. \A i \in 1..n : \E r \in S : rank[r] = i
    <2>1. rank \in Surjection(S, 1..n)
      BY <1>7, <1>8, FS_Injection DEF n
    <2> QED BY <2>1 DEF Surjection
  <1>10. \E s \in [1..n -> S] : InOrder(s)
    <2> DEFINE s == [i \in 1..n |-> CHOOSE r \in S : rank[r] = i]
    <2>1. \A i \in 1..n : s[i] \in S /\ rank[s[i]] = i
      BY <1>9
    <2>2. s \in [1..n -> S]
      BY <2>1
    <2>3. InOrder(s)
      <3> SUFFICES ASSUME NEW i \in 1..n, NEW j \in 1..n, i < j PROVE s[i].t < s[j].t
        OBVIOUS
      <3>1. /\ s[i] \in S /\ s[j] \in S /\ rank[s[i]] = i /\ rank[s[j]] = j
        BY <2>1
      <3> HIDE DEF s
      <3>2. s[i].t \in Nat /\ s[j].t \in Nat
        BY <1>1, <3>1
      <3>3. ~(s[j].t < s[i].t)
        BY <1>2, <1>5, <3>1
      <3>4. s[i].t # s[j].t
        BY <3>1 DEF Unique
      <3> QED BY <3>2, <3>3, <3>4
    <2> QED BY <2>2, <2>3
  <1>11. ByTime(S) \in [1..n -> S] /\ InOrder(ByTime(S))
    <2>1. ByTime(S) = CHOOSE s \in [1..n -> S] : InOrder(s)
      BY DEF ByTime, n
    <2> HIDE DEF InOrder
    <2> QED BY <1>10, <2>1
  <1>12. ByTime(S) \in Injection(1..n, S)
    <2>1. \A i, j \in 1..n : ByTime(S)[i] = ByTime(S)[j] => i = j
      <3> SUFFICES ASSUME NEW i \in 1..n, NEW j \in 1..n, i # j
                   PROVE  ByTime(S)[i] # ByTime(S)[j]
        OBVIOUS
      <3>1. i < j \/ j < i
        BY <1>2
      <3>2. ByTime(S)[i].t < ByTime(S)[j].t \/ ByTime(S)[j].t < ByTime(S)[i].t
        BY <1>11, <3>1
      <3>3. ByTime(S)[i].t \in Nat /\ ByTime(S)[j].t \in Nat
        BY <1>1, <1>11
      <3> QED BY <3>2, <3>3
    <2> QED BY <1>11, <2>1 DEF Injection, IsInjective
  <1>13. \A r \in S : \E i \in 1..n : ByTime(S)[i] = r
    <2>1. ByTime(S) \in Surjection(1..n, S)
      BY <1>2, <1>8, <1>12, FS_Injection DEF n
    <2> QED BY <2>1 DEF Surjection
  <1>14. DOMAIN ByTime(S) = 1..n /\ ByTime(S) \in Seq(Round)
    BY <1>2, <1>11
  <1> QED BY <1>11, <1>13, <1>14

-----------------------------------------------------------------------------
(* The invariant.                                                          *)

\* A loop that runs has its round; a Flush of its own is its last step.
LoopsOK ==
  \A l \in Loops :
    /\ lpc[l] = "off" <=> current[l] = None
    /\ current[l] # None => current[l].by = l /\ current[l].t <= clock
    /\ batch[l] # <<>> => lpc[l] = "commit"

\* Shutdown begins when no apply is under way; Close begins when no loop is
\* left, and holds a batch only until the database is closed.
StageOK ==
  /\ apply = "idle" <=> live # None
  /\ phase # "up" => apply = "gone"
  /\ phase \in {"closing", "closed"} => pending = <<>> /\ \A l \in Loops : lpc[l] = "off"
  /\ batch[Closer] # <<>> => phase = "closing"

\* A loop's next round is a later one than all of its rounds so far.
Fresh ==
  \A r \in raw \cup InFlight :
    /\ r.t <= clock
    /\ \A l \in Loops :
         r.by = l /\ current[l] # None =>
           r.t < current[l].t \/ (r.t = current[l].t /\ lpc[l] \notin {"probing", "buffer"})

\* A round is in one place: the buffer, or the hands of one Flush.
Apart ==
  /\ \A f \in Flushers : Elems(batch[f]) \cap Elems(pending) = {}
  /\ \A f, g \in Flushers : f # g => Elems(batch[f]) \cap Elems(batch[g]) = {}

IInv == TypeOK /\ Unique(raw) /\ LoopsOK /\ StageOK /\ Fresh /\ Apart

\* Where a round that is not stored yet is.
LEMMA InFlightIs ==
  ASSUME NEW r
  PROVE  r \in InFlight <=> r \in Elems(pending) \/ \E f \in Flushers : r \in Elems(batch[f])
  BY DEF InFlight

\* Who may flush: the loops, the flush loop and Close, all different.
LEMMA FlusherIs ==
  /\ \A l \in Loops : l \in Flushers /\ l # FlushLoop /\ l # Closer /\ l # None
  /\ FlushLoop \in Flushers /\ Closer \in Flushers /\ FlushLoop # Closer
  BY RoundStoreAssumption DEF Flushers

\* A new store meets the invariant.
LEMMA InitInv == Init => IInv
  <1> SUFFICES ASSUME Init PROVE IInv
    OBVIOUS
  <1> USE RoundStoreAssumption DEF Init
  <1>1. <<>> \in Seq(Round) /\ Elems(<<>>) = {}
    BY NoElems, EmptySeq
  <1>2. TypeOK
    <2>1. /\ batch \in [Flushers -> Seq(Round)]
          /\ lpc \in [Loops -> {"off", "probing", "buffer", "flush", "commit", "waiting"}]
          /\ current \in [Loops -> Round \cup {None}]
      BY <1>1
    <2>2. /\ replayed \in Seq(Round) /\ ring \in Seq(Round) /\ pending \in Seq(Round)
      BY <1>1
    <2>4. clock \in 0..MaxTime
      OBVIOUS
    <2>5. edits \in Edits
      OBVIOUS
    <2>6. registered \in BOOLEAN /\ raw \subseteq Round /\ stopC \subseteq Loops
          /\ accepted \subseteq Round /\ unread \subseteq Round
      OBVIOUS
    <2>3. /\ phase \in {"up", "drain", "closing", "closed"}
          /\ live \in Loops \cup {None}
          /\ apply \in {"idle", "gone", "register", "query", "set", "start"}
      OBVIOUS
    <2> HIDE DEF Init
    <2> QED BY <2>1, <2>2, <2>3, <2>4, <2>5, <2>6 DEF TypeOK
  <1>3. raw \cup InFlight = {}
    BY <1>1, InFlightIs
  <1> QED BY <1>1, <1>2, <1>3, FlusherIs DEF IInv, Unique, LoopsOK, StageOK, Fresh, Apart

-----------------------------------------------------------------------------
(* Types.                                                                  *)

\* A loop that is not off has a round.
LEMMA HasRound ==
  ASSUME TypeOK, LoopsOK, NEW l \in Loops, lpc[l] # "off"
  PROVE  /\ current[l] \in Round /\ current[l].by = l
         /\ current[l].t \in 0..clock /\ clock \in 0..MaxTime
  <1>1. current[l] \in Round /\ current[l].by = l /\ current[l].t <= clock /\ clock \in 0..MaxTime
    BY DEF TypeOK, LoopsOK
  <1> QED BY <1>1, RoundStoreAssumption DEF Round

\* What is known are rounds.
LEMMA KnownTyped ==
  ASSUME TypeOK, LoopsOK
  PROVE  Known \subseteq Round
  <1>1. Elems(pending) \subseteq Round /\ \A f \in Flushers : Elems(batch[f]) \subseteq Round
    BY ElemsIs DEF TypeOK
  <1>2. \A l \in Loops : lpc[l] = "buffer" => current[l] \in Round
    BY HasRound
  <1> QED BY <1>1, <1>2 DEF Known, InFlight, InHand, TypeOK

\* Nor is there more than one round in a second of the last day.
LEMMA LastDayIs ==
  ASSUME TypeOK, Unique(raw)
  PROVE  LastDay \subseteq Round /\ LastDay \subseteq raw /\ Unique(LastDay)
  BY DEF LastDay, Unique, TypeOK

\* apply's steps, and the clock.
LEMMA ApplyType ==
  ASSUME TypeOK, LoopsOK, Unique(raw), StageOK, Tick \/ EnsureTarget \/ Edit
  PROVE  TypeOK'
  <1> USE RoundStoreAssumption DEF TypeOK
  <1>0. <<>> \in Seq(Round)
    BY EmptySeq
  <1>1. CASE Tick
    BY <1>1 DEF Tick, runnerVars, loopVars, history
  <1>2. CASE Register
    BY <1>0, <1>2 DEF Register, loopVars, history
  <1>3. CASE ReplayQuery
    <2>1. LastN(ByTime(LastDay), RingCap) \in Seq(Round)
      BY LastDayIs, ByTimeIs, LastNIs
    <2>2. unread' \subseteq Round
      BY <1>3, KnownTyped DEF ReplayQuery
    <2> QED BY <1>0, <1>3, <2>1, <2>2 DEF ReplayQuery, loopVars, history
  <1>4. CASE ReplaySet
    BY <1>0, <1>4 DEF ReplaySet, loopVars, history
  <1>5. CASE StartLoop
    <2>1. PICK l \in Loops : /\ live' = l
                             /\ Goto(l, "probing")
                             /\ current' = [current EXCEPT ![l] = [t |-> clock, by |-> l]]
      BY <1>5 DEF StartLoop
    <2>2. [t |-> clock, by |-> l] \in Round
      BY DEF Round
    <2> QED BY <1>5, <2>1, <2>2 DEF StartLoop, Goto, history
  <1>6. CASE RemoveTarget \/ ReAdd \/ ChangeTarget
    BY <1>0, <1>6 DEF RemoveTarget, ReAdd, ChangeTarget, loopVars, history, StageOK
  <1> QED BY <1>1, <1>2, <1>3, <1>4, <1>5, <1>6 DEF EnsureTarget, Edit

\* A probe loop keeps the types,
LEMMA LoopType ==
  ASSUME TypeOK, LoopsOK, NEW l \in Loops, Loop(l) \/ NextRound(l) \/ ExitLoop(l)
  PROVE  TypeOK'
  <1> USE RoundStoreAssumption DEF TypeOK, Goto
  <1>0. <<>> \in Seq(Round)
    BY EmptySeq
  <1>1. CASE Record(l)
    <2>1. current[l] \in Round
      BY <1>1, HasRound DEF Record
    <2>2. Append(ring, current[l]) \in Seq(Round)
      BY <2>1
    <2>3. LastN(Append(ring, current[l]), RingCap) \in Seq(Round)
      BY <2>2, LastNIs
    <2>4. unread' \subseteq Round
      BY <1>1, <2>1 DEF Record
    <2> QED BY <1>1, <2>3, <2>4 DEF Record, runnerVars
  <1>2. CASE Buffer(l)
    <2>1. current[l] \in Round
      BY <1>2, HasRound DEF Buffer
    <2> QED BY <1>2, <2>1 DEF Buffer, runnerVars
  <1>3. CASE LoopTakes(l)
    BY <1>0, <1>3 DEF LoopTakes, Take, runnerVars, history
  <1>4. CASE NextRound(l)
    <2>1. current[l] \in Round
      BY <1>4, HasRound DEF NextRound
    <2>2. [current[l] EXCEPT !.t = clock] \in Round
      BY <2>1 DEF Round
    <2>3. current' = [current EXCEPT ![l] = [current[l] EXCEPT !.t = clock]]
      BY <1>4 DEF NextRound
    <2> QED BY <1>4, <2>2, <2>3 DEF NextRound, runnerVars, history
  <1>5. CASE ExitLoop(l)
    BY <1>5 DEF ExitLoop, runnerVars, history
  <1> QED BY <1>1, <1>2, <1>3, <1>4, <1>5 DEF Loop

\* ... so do those who flush, close and restart,
LEMMA FlushType ==
  ASSUME TypeOK, Unique(raw),
         FlushLoopTakes \/ (\E f \in Flushers : Commit(f) \/ CommitFails(f))
           \/ StopLoops \/ Close \/ Restart
  PROVE  TypeOK'
  <1> USE RoundStoreAssumption DEF TypeOK, Goto
  <1>0. <<>> \in Seq(Round)
    BY EmptySeq
  <1>1. CASE FlushLoopTakes
    BY <1>0, <1>1, FlusherIs DEF FlushLoopTakes, Take, runnerVars, loopVars, history
  <1>2. ASSUME NEW f \in Flushers, Commit(f) PROVE TypeOK'
    <2>1. Insert(raw, batch[f]) \subseteq Round
      BY InsertIs
    <2> QED BY <1>0, <1>2, <2>1 DEF Commit, Return, runnerVars, history
  <1>3. ASSUME NEW f \in Flushers, CommitFails(f) PROVE TypeOK'
    BY <1>0, <1>3 DEF CommitFails, Return, runnerVars, history
  <1>4. CASE StopLoops
    BY <1>4 DEF StopLoops
  <1>5. CASE CloseTakes
    <2>1. /\ batch' \in [Flushers -> Seq(Round)] /\ pending' \in Seq(Round)
      BY <1>0, <1>5 DEF CloseTakes, Take
    <2> QED BY <1>5, <2>1 DEF CloseTakes, runnerVars, loopVars, history
  <1>7. CASE CloseDB
    BY <1>7 DEF CloseDB, runnerVars, loopVars, history
  <1>6. CASE Restart
    <2>1. /\ batch' \in [Flushers -> Seq(Round)]
          /\ lpc' \in [Loops -> {"off", "probing", "buffer", "flush", "commit", "waiting"}]
          /\ current' \in [Loops -> Round \cup {None}]
      BY <1>0, <1>6 DEF Restart
    <2> QED BY <1>0, <1>6, <2>1 DEF Restart
  <1> QED BY <1>1, <1>2, <1>3, <1>4, <1>5, <1>6, <1>7 DEF Close

\* ... and so does every step.
LEMMA TypeNext ==
  ASSUME TypeOK, LoopsOK, StageOK, Unique(raw), [Next]_vars
  PROVE  TypeOK'
  <1>1. CASE UNCHANGED vars
    BY <1>1 DEF vars, runnerVars, loopVars, history, TypeOK
  <1> QED BY <1>1, ApplyType, LoopType, FlushType DEF Next

-----------------------------------------------------------------------------
(* Loops and stages.                                                       *)

\* Every step keeps what each place of a loop says about it.
LEMMA LoopsNext ==
  ASSUME TypeOK, LoopsOK, [Next]_vars
  PROVE  LoopsOK'
  <1> USE RoundStoreAssumption DEF runnerVars, loopVars
  <1>0. clock \in Nat /\ \A l \in Loops : current[l] # None => current[l].t \in Nat
    BY DEF TypeOK, Round
  <1>1. CASE Tick
    BY <1>0, <1>1 DEF Tick, LoopsOK
  <1>2. CASE Register \/ ReplayQuery \/ ReplaySet \/ Edit \/ StopLoops \/ CloseDB \/ UNCHANGED vars
    <2>1. UNCHANGED <<clock, batch, lpc, current>>
      BY <1>2 DEF Register, ReplayQuery, ReplaySet, Edit, RemoveTarget, ReAdd, ChangeTarget,
                  StopLoops, CloseDB, vars
    <2> QED BY <2>1 DEF LoopsOK
  <1>3. CASE StartLoop
    <2>1. PICK l \in Loops : /\ lpc[l] = "off"
                             /\ Goto(l, "probing")
                             /\ current' = [current EXCEPT ![l] = [t |-> clock, by |-> l]]
      BY <1>3 DEF StartLoop
    <2>2. [t |-> clock, by |-> l] \in Round /\ [t |-> clock, by |-> l] # None
      BY DEF TypeOK, Round
    <2>3. batch' = batch /\ clock' = clock
      BY <1>3 DEF StartLoop
    <2> QED BY <2>1, <2>2, <2>3 DEF TypeOK, LoopsOK, Goto
  <1>4. ASSUME NEW l \in Loops, Record(l) \/ Buffer(l) PROVE LoopsOK'
    BY <1>4 DEF Record, Buffer, Goto, LoopsOK, TypeOK
  <1>5. ASSUME NEW l \in Loops, LoopTakes(l) PROVE LoopsOK'
    <2>1. /\ UNCHANGED <<clock, current>>
          /\ batch' = [batch EXCEPT ![l] = pending]
          /\ lpc[l] = "flush"
          /\ lpc' = [lpc EXCEPT ![l] = IF pending = <<>> THEN "waiting" ELSE "commit"]
      BY <1>5 DEF LoopTakes, Take, Goto
    <2> QED BY <2>1, FlusherIs DEF LoopsOK, TypeOK
  <1>6. ASSUME NEW l \in Loops, NextRound(l) PROVE LoopsOK'
    <2>1. current[l] \in Round /\ current[l].by = l
      BY <1>6, HasRound DEF NextRound
    <2>2. [current[l] EXCEPT !.t = clock] \in Round
      BY <2>1 DEF Round, TypeOK
    <2>3. /\ [current[l] EXCEPT !.t = clock].by = l
          /\ [current[l] EXCEPT !.t = clock].t = clock
          /\ [current[l] EXCEPT !.t = clock] # None
      BY <2>1, <2>2 DEF Round
    <2>4. /\ current' = [current EXCEPT ![l] = [current[l] EXCEPT !.t = clock]]
          /\ UNCHANGED <<clock, batch>>
          /\ lpc[l] = "waiting" /\ lpc' = [lpc EXCEPT ![l] = "probing"]
      BY <1>6 DEF NextRound, Goto
    <2> QED BY <1>0, <2>3, <2>4 DEF LoopsOK, TypeOK
  <1>7. ASSUME NEW l \in Loops, ExitLoop(l) PROVE LoopsOK'
    BY <1>7 DEF ExitLoop, Goto, LoopsOK, TypeOK
  <1>8. CASE FlushLoopTakes \/ CloseTakes
    <2>1. PICK f \in {FlushLoop, Closer} :
            batch' = [batch EXCEPT ![f] = pending] /\ UNCHANGED <<clock, lpc, current>>
      BY <1>8 DEF FlushLoopTakes, CloseTakes, Take
    <2> QED BY <2>1, FlusherIs DEF LoopsOK, TypeOK
  <1>9. ASSUME NEW f \in Flushers, Commit(f) \/ CommitFails(f) PROVE LoopsOK'
    <2>1. /\ batch[f] # <<>> /\ batch' = [batch EXCEPT ![f] = <<>>] /\ Return(f)
          /\ UNCHANGED <<clock, current>>
      BY <1>9 DEF Commit, CommitFails
    <2> QED BY <2>1, FlusherIs DEF LoopsOK, TypeOK, Return, Goto
  <1>10. CASE Restart
    BY <1>10, FlusherIs DEF Restart, LoopsOK
  <1> QED BY <1>1, <1>2, <1>3, <1>4, <1>5, <1>6, <1>7, <1>8, <1>9, <1>10
          DEF Next, EnsureTarget, Loop, Close

\* Every step keeps what each stage of the store says about it.
LEMMA StageNext ==
  ASSUME TypeOK, LoopsOK, StageOK, [Next]_vars
  PROVE  StageOK'
  <1> USE RoundStoreAssumption, FlusherIs DEF runnerVars, loopVars
  <1>1. CASE Tick \/ UNCHANGED vars
    BY <1>1 DEF Tick, vars, StageOK
  <1>2. CASE Register \/ ReplayQuery \/ ReplaySet
    BY <1>2 DEF Register, ReplayQuery, ReplaySet, StageOK
  <1>3. CASE StartLoop
    BY <1>3 DEF StartLoop, StageOK
  <1>4. CASE Edit
    BY <1>4 DEF Edit, RemoveTarget, ReAdd, ChangeTarget, StageOK
  <1>5. ASSUME NEW l \in Loops, Record(l) \/ NextRound(l) \/ ExitLoop(l) PROVE StageOK'
    <2>1. lpc[l] # "off" /\ UNCHANGED <<apply, live, phase, pending, batch>>
      BY <1>5 DEF Record, NextRound, ExitLoop
    <2> QED BY <2>1 DEF StageOK
  <1>6. ASSUME NEW l \in Loops, Buffer(l) PROVE StageOK'
    <2>1. lpc[l] # "off" /\ UNCHANGED <<apply, live, phase, batch>>
      BY <1>6 DEF Buffer
    <2> QED BY <2>1 DEF StageOK
  <1>7. ASSUME NEW l \in Loops, LoopTakes(l) PROVE StageOK'
    <2>1. lpc[l] # "off" /\ UNCHANGED <<apply, live, phase>> /\ batch'[Closer] = batch[Closer]
      BY <1>7 DEF LoopTakes, Take, TypeOK
    <2> QED BY <2>1 DEF StageOK
  <1>8. CASE FlushLoopTakes
    <2>1. phase \in {"up", "drain"} /\ UNCHANGED <<apply, live, phase>> /\ batch'[Closer] = batch[Closer]
      BY <1>8 DEF FlushLoopTakes, Take, TypeOK
    <2> QED BY <2>1 DEF StageOK
  <1>9. ASSUME NEW f \in Flushers, Commit(f) \/ CommitFails(f) PROVE StageOK'
    <2>1. /\ batch[f] # <<>> /\ batch' = [batch EXCEPT ![f] = <<>>] /\ Return(f)
          /\ UNCHANGED <<apply, live, phase, pending>>
      BY <1>9 DEF Commit, CommitFails
    <2>2. f \in Loops => lpc[f] = "commit"
      BY <2>1 DEF LoopsOK
    <2> QED BY <2>1, <2>2 DEF StageOK, TypeOK, Return, Goto
  <1>10. CASE StopLoops
    BY <1>10 DEF StopLoops, StageOK
  <1>11. CASE CloseTakes \/ CloseDB
    BY <1>11 DEF CloseTakes, CloseDB, Take, StageOK, TypeOK
  <1>12. CASE Restart
    BY <1>12 DEF Restart, StageOK
  <1> QED BY <1>1, <1>2, <1>3, <1>4, <1>5, <1>6, <1>7, <1>8, <1>9, <1>10, <1>11, <1>12
          DEF Next, EnsureTarget, Loop, Close

-----------------------------------------------------------------------------
(* Where rounds go.                                                        *)

\* A Flush that has nothing in hand takes the buffer: no round is lost on the
\* way (store.go: Flush under wmu).
TakesOver(f) == batch[f] = <<>> /\ Take(f) /\ raw' = raw

\* The hand of one Flush is emptied.
Drops(f) == batch[f] # <<>> /\ batch' = [batch EXCEPT ![f] = <<>>] /\ pending' = pending

\* Taking the buffer over moves rounds from one hand to another.
LEMMA TakeMoves ==
  ASSUME TypeOK, NEW f \in Flushers, TakesOver(f)
  PROVE  InFlight' = InFlight /\ (Apart => Apart')
  <1>1. /\ batch' = [batch EXCEPT ![f] = pending] /\ pending' = <<>> /\ batch[f] = <<>>
        /\ batch \in [Flushers -> Seq(Round)]
    BY DEF TakesOver, Take, TypeOK
  <1>2. Elems(<<>>) = {}
    BY NoElems
  <1>3. \A g \in Flushers : Elems(batch'[g]) = IF g = f THEN Elems(pending) ELSE Elems(batch[g])
    BY <1>1
  <1>4. Elems(pending') = {} /\ Elems(batch[f]) = {}
    BY <1>1, <1>2
  <1>5. ASSUME NEW r PROVE r \in InFlight' <=> r \in InFlight
    <2>1. r \in InFlight' <=> r \in Elems(pending') \/ \E g \in Flushers : r \in Elems(batch'[g])
      BY DEF InFlight
    <2> QED BY <1>3, <1>4, <2>1, InFlightIs
  <1>6. ASSUME Apart PROVE Apart'
    BY <1>3, <1>4, <1>6 DEF Apart
  <1> QED BY <1>5, <1>6

\* Who lets go of a batch lets go of its rounds and of no others.
LEMMA DropMoves ==
  ASSUME TypeOK, NEW f \in Flushers, Drops(f)
  PROVE  /\ InFlight' \subseteq InFlight
         /\ InFlight \subseteq InFlight' \cup Elems(batch[f])
         /\ Elems(batch[f]) \subseteq InFlight
         /\ Apart => Apart' /\ InFlight' = InFlight \ Elems(batch[f])
  <1>1. /\ batch' = [batch EXCEPT ![f] = <<>>] /\ pending' = pending
        /\ batch \in [Flushers -> Seq(Round)]
    BY DEF Drops, TypeOK
  <1>2. \A g \in Flushers : Elems(batch'[g]) = IF g = f THEN {} ELSE Elems(batch[g])
    BY <1>1, NoElems
  <1>3. Elems(pending') = Elems(pending)
    BY <1>1
  <1>4. ASSUME NEW r
        PROVE  r \in InFlight' <=> r \in Elems(pending) \/ \E g \in Flushers : g # f /\ r \in Elems(batch[g])
    <2>1. r \in InFlight' <=> r \in Elems(pending') \/ \E g \in Flushers : r \in Elems(batch'[g])
      BY DEF InFlight
    <2> QED BY <1>2, <1>3, <2>1
  <1>5. /\ InFlight' \subseteq InFlight
        /\ InFlight \subseteq InFlight' \cup Elems(batch[f])
        /\ Elems(batch[f]) \subseteq InFlight
    BY <1>4, InFlightIs
  <1>6. ASSUME Apart PROVE Apart' /\ InFlight' = InFlight \ Elems(batch[f])
    <2>1. Apart'
      BY <1>2, <1>3, <1>6 DEF Apart
    <2>2. \A r \in InFlight' : r \notin Elems(batch[f])
      BY <1>4, <1>6 DEF Apart
    <2> QED BY <1>5, <2>1, <2>2
  <1> QED BY <1>5, <1>6

\* A round that is buffered is in flight, and was so nowhere else.
LEMMA BufferMoves ==
  ASSUME TypeOK, LoopsOK, NEW l \in Loops, Buffer(l)
  PROVE  /\ InFlight' = InFlight \cup {current[l]}
         /\ current[l] \in Round /\ lpc[l] = "buffer"
         /\ Fresh /\ Apart => Apart'
  <1>1. current[l] \in Round /\ current[l].by = l /\ lpc[l] = "buffer"
        /\ current[l].t \in Nat /\ current[l] # None
    BY HasRound, RoundStoreAssumption DEF Buffer, LoopsOK
  <1>2. Elems(pending') = Elems(pending) \cup {current[l]} /\ batch' = batch
    BY <1>1, ElemsIs DEF Buffer, TypeOK
  <1>3. ASSUME NEW r PROVE r \in InFlight' <=> r \in InFlight \/ r = current[l]
    <2>1. r \in InFlight' <=> r \in Elems(pending') \/ \E g \in Flushers : r \in Elems(batch[g])
      BY <1>2 DEF InFlight
    <2> QED BY <1>2, <2>1, InFlightIs
  <1>4. ASSUME Fresh, Apart PROVE Apart'
    <2>1. current[l] \notin InFlight
      <3> SUFFICES ASSUME current[l] \in InFlight PROVE FALSE
        OBVIOUS
      <3>1. current[l].t < current[l].t \/ lpc[l] \notin {"probing", "buffer"}
        BY <1>1, <1>4 DEF Fresh
      <3> QED BY <1>1, <3>1
    <2>2. \A f \in Flushers : current[l] \notin Elems(batch[f])
      BY <2>1, InFlightIs
    <2> QED BY <1>2, <1>4, <2>2 DEF Apart
  <1> QED BY <1>1, <1>3, <1>4

\* What can happen to the rounds of the buffer, of the flushes and of the
\* table in one step.
LEMMA Moves ==
  ASSUME IInv, [Next]_vars
  PROVE  \/ UNCHANGED <<pending, batch, raw>>
         \/ \E l \in Loops : Buffer(l)
         \/ \E f \in Flushers : TakesOver(f)
         \/ \E f \in Flushers : Drops(f) /\ Commit(f)
         \/ \E f \in Flushers : Drops(f) /\ CommitFails(f)
         \/ Restart
  <1> USE FlusherIs DEF IInv, runnerVars, loopVars
  <1>1. CASE Tick \/ EnsureTarget \/ Edit \/ StopLoops \/ CloseDB \/ UNCHANGED vars
    BY <1>1 DEF Tick, EnsureTarget, Register, ReplayQuery, ReplaySet, StartLoop, Edit, RemoveTarget,
                ReAdd, ChangeTarget, StopLoops, CloseDB, vars
  <1>2. ASSUME NEW l \in Loops, Record(l) \/ NextRound(l) \/ ExitLoop(l)
        PROVE  UNCHANGED <<pending, batch, raw>>
    BY <1>2 DEF Record, NextRound, ExitLoop
  <1>3. ASSUME NEW l \in Loops, LoopTakes(l) PROVE TakesOver(l)
    BY <1>3 DEF LoopTakes, TakesOver, LoopsOK
  <1>4. CASE FlushLoopTakes
    BY <1>4 DEF FlushLoopTakes, TakesOver
  <1>5. CASE CloseTakes
    BY <1>5 DEF CloseTakes, TakesOver, StageOK
  <1>6. ASSUME NEW f \in Flushers, Commit(f) \/ CommitFails(f) PROVE Drops(f)
    BY <1>6 DEF Commit, CommitFails, Drops
  <1> QED BY <1>1, <1>2, <1>3, <1>4, <1>5, <1>6 DEF Next, Loop, Close

\* Every round a second of the clock.
LEMMA RoundsTyped ==
  ASSUME TypeOK
  PROVE  /\ raw \cup InFlight \subseteq Round
         /\ \A r \in Round : r.t \in Nat /\ r.by \in Loops
         /\ clock \in Nat
  <1>1. Elems(pending) \subseteq Round /\ \A f \in Flushers : Elems(batch[f]) \subseteq Round
    BY ElemsIs DEF TypeOK
  <1>2. InFlight \subseteq Round
    BY <1>1, InFlightIs
  <1> QED BY <1>2, RoundStoreAssumption DEF TypeOK, Round

\* Fresh survives what only makes rounds fewer, and loops older.
LEMMA FreshKeeps ==
  ASSUME TypeOK, TypeOK', Fresh,
         raw' \cup InFlight' \subseteq raw \cup InFlight, clock <= clock',
         \A l \in Loops : \/ current'[l] = None
                          \/ /\ current'[l] = current[l]
                             /\ lpc'[l] \in {"probing", "buffer"} => lpc[l] \in {"probing", "buffer"}
  PROVE  Fresh'
  <1>1. clock \in Nat /\ clock' \in Nat /\ \A r \in raw \cup InFlight : r.t \in Nat
    <2>1. clock' \in Nat
      BY RoundStoreAssumption DEF TypeOK
    <2> QED BY <2>1, RoundsTyped
  <1>2. ASSUME NEW r \in raw' \cup InFlight'
        PROVE  /\ r.t <= clock'
               /\ \A l \in Loops :
                    r.by = l /\ current'[l] # None =>
                      r.t < current'[l].t \/ (r.t = current'[l].t /\ lpc'[l] \notin {"probing", "buffer"})
    <2>1. r \in raw \cup InFlight /\ r.t <= clock /\ r.t \in Nat
      BY <1>1, <1>2 DEF Fresh
    <2>2. \A l \in Loops : r.by = l /\ current[l] # None =>
            r.t < current[l].t \/ (r.t = current[l].t /\ lpc[l] \notin {"probing", "buffer"})
      BY <2>1 DEF Fresh
    <2> QED BY <1>1, <2>1, <2>2
  <1> QED BY <1>2 DEF Fresh

\* The one step that adds a round, and the two that make a loop's round newer.
LEMMA FreshGrows ==
  ASSUME IInv, TypeOK', NEW l \in Loops, Buffer(l) \/ NextRound(l)
  PROVE  Fresh'
  <1> USE DEF IInv
  <1>1. /\ current[l] \in Round /\ current[l].by = l /\ current[l].t <= clock
        /\ current[l].t \in Nat /\ clock \in Nat /\ clock' = clock /\ current[l] # None
        /\ \A r \in raw \cup InFlight : r.t \in Nat /\ r.by \in Loops
    <2>1. lpc[l] # "off" /\ clock' = clock
      BY DEF Buffer, NextRound
    <2>2. clock \in 0..MaxTime /\ current[l].t \in 0..clock /\ current[l] \in Round /\ current[l].by = l
      BY <2>1, HasRound
    <2> QED BY <2>1, <2>2, RoundsTyped, RoundStoreAssumption
  <1>2. \A r \in raw \cup InFlight : r.t <= clock
    BY DEF Fresh
  <1>3. \A r \in raw \cup InFlight : r.by = l => r.t <= current[l].t
    BY <1>1 DEF Fresh
  <1>4. \A r \in raw \cup InFlight : \A m \in Loops : r.by = m /\ current[m] # None =>
            r.t < current[m].t \/ (r.t = current[m].t /\ lpc[m] \notin {"probing", "buffer"})
    BY DEF Fresh
  <1>5. CASE Buffer(l)
    <2>1. InFlight' = InFlight \cup {current[l]} /\ raw' = raw /\ current' = current
      BY <1>5, BufferMoves DEF Buffer
    <2>2. /\ lpc'[l] \notin {"probing", "buffer"}
          /\ \A m \in Loops : m # l => lpc'[m] = lpc[m]
      BY <1>5 DEF Buffer, Goto, TypeOK
    <2>3. ASSUME NEW r \in raw \cup InFlight, NEW m \in Loops, r.by = m, current[m] # None
          PROVE  r.t < current[m].t \/ (r.t = current[m].t /\ lpc'[m] \notin {"probing", "buffer"})
      BY <1>4, <2>2, <2>3
    <2>4. ASSUME NEW m \in Loops, current[l].by = m
          PROVE  current[l].t = current[m].t /\ lpc'[m] \notin {"probing", "buffer"}
      BY <1>1, <2>2, <2>4
    <2> QED BY <1>1, <1>2, <2>1, <2>3, <2>4 DEF Fresh
  <1>6. CASE NextRound(l)
    <2>1. UNCHANGED <<pending, batch, raw>>
      BY <1>6 DEF NextRound
    <2>2. InFlight' = InFlight /\ raw' = raw
      BY <2>1 DEF InFlight
    <2>3. /\ current[l].t < clock
          /\ current'[l].t = clock
          /\ \A m \in Loops : m # l => current'[m] = current[m] /\ lpc'[m] = lpc[m]
      BY <1>1, <1>6 DEF NextRound, Goto, TypeOK, Round
    <2>4. \A r \in raw \cup InFlight : r.by = l => r.t < clock
      BY <1>1, <1>3, <2>3
    <2> QED BY <1>1, <1>2, <1>4, <2>2, <2>3, <2>4 DEF Fresh
  <1> QED BY <1>5, <1>6

\* A loop that starts has no round in hand that was ever written.
LEMMA FreshStarts ==
  ASSUME IInv, TypeOK', StartLoop
  PROVE  Fresh'
  <1> USE DEF IInv
  <1>1. PICK l \in Loops :
          /\ lpc[l] = "off"
          /\ [t |-> clock, by |-> l] \notin Known
          /\ Goto(l, "probing")
          /\ current' = [current EXCEPT ![l] = [t |-> clock, by |-> l]]
    BY DEF StartLoop
  <1>2. InFlight' = InFlight /\ raw' = raw /\ clock' = clock
    BY DEF StartLoop, InFlight
  <1>3. /\ clock \in Nat
        /\ \A r \in raw \cup InFlight : r \in Round /\ r.t \in Nat /\ r.t <= clock
    BY RoundsTyped DEF Fresh
  <1>4. \A r \in raw \cup InFlight : r.by = l => r.t < clock
    <2> SUFFICES ASSUME NEW r \in raw \cup InFlight, r.by = l, r.t = clock PROVE FALSE
      BY <1>3
    <2>1. r = [t |-> clock, by |-> l]
      BY <1>3 DEF Round
    <2> QED BY <1>1, <2>1 DEF Known
  <1>5. \A r \in raw \cup InFlight : \A m \in Loops : r.by = m /\ current[m] # None =>
            r.t < current[m].t \/ (r.t = current[m].t /\ lpc[m] \notin {"probing", "buffer"})
    BY DEF Fresh
  <1>6. /\ current'[l].t = clock
        /\ \A m \in Loops : m # l => current'[m] = current[m] /\ lpc'[m] = lpc[m]
    BY <1>1 DEF Goto, TypeOK
  <1> QED BY <1>2, <1>3, <1>4, <1>5, <1>6 DEF Fresh

\* The table and the buffer hold no round of a loop that is to come.
LEMMA FreshNext ==
  ASSUME IInv, TypeOK', [Next]_vars
  PROVE  Fresh'
  <1> USE FlusherIs DEF IInv, runnerVars, loopVars
  <1>0. clock \in Nat /\ clock' \in Nat
    BY RoundStoreAssumption DEF TypeOK
  <1>1. CASE Tick \/ Register \/ ReplayQuery \/ ReplaySet \/ Edit \/ StopLoops \/ CloseDB \/ UNCHANGED vars
    <2>1. UNCHANGED <<pending, batch, raw, lpc, current>> /\ clock <= clock'
      BY <1>0, <1>1 DEF Tick, Register, ReplayQuery, ReplaySet, Edit, RemoveTarget, ReAdd,
                        ChangeTarget, StopLoops, CloseDB, vars
    <2>2. InFlight' = InFlight
      BY <2>1 DEF InFlight
    <2> QED BY <2>1, <2>2, FreshKeeps
  <1>2. ASSUME NEW l \in Loops, Record(l) \/ ExitLoop(l) PROVE Fresh'
    <2>1. /\ UNCHANGED <<pending, batch, raw, clock>>
          /\ \A m \in Loops : \/ current'[m] = None
                              \/ /\ current'[m] = current[m]
                                 /\ lpc'[m] \in {"probing", "buffer"} => lpc[m] \in {"probing", "buffer"}
      BY <1>2 DEF Record, ExitLoop, Goto, TypeOK
    <2>2. InFlight' = InFlight
      BY <2>1 DEF InFlight
    <2> QED BY <1>0, <2>1, <2>2, FreshKeeps
  <1>3. ASSUME NEW l \in Loops, LoopTakes(l) PROVE Fresh'
    <2>1. TakesOver(l) /\ UNCHANGED <<clock, current>>
          /\ \A m \in Loops : lpc'[m] \in {"probing", "buffer"} => lpc[m] \in {"probing", "buffer"}
      BY <1>3 DEF LoopTakes, TakesOver, LoopsOK, Goto, TypeOK
    <2>2. InFlight' = InFlight /\ raw' = raw
      BY <2>1, TakeMoves DEF TakesOver
    <2> QED BY <1>0, <2>1, <2>2, FreshKeeps
  <1>4. CASE FlushLoopTakes \/ CloseTakes
    <2>1. (TakesOver(FlushLoop) \/ TakesOver(Closer)) /\ UNCHANGED <<clock, current, lpc>>
      BY <1>4 DEF FlushLoopTakes, CloseTakes, TakesOver, StageOK
    <2>2. InFlight' = InFlight /\ raw' = raw
      BY <2>1, TakeMoves DEF TakesOver
    <2> QED BY <1>0, <2>1, <2>2, FreshKeeps
  <1>5. ASSUME NEW f \in Flushers, Commit(f) \/ CommitFails(f) PROVE Fresh'
    <2>1. Drops(f) /\ Return(f) /\ UNCHANGED <<clock, current>>
          /\ (raw' = raw \/ raw' = Insert(raw, batch[f]))
      BY <1>5 DEF Commit, CommitFails, Drops
    <2>2. raw' \subseteq raw \cup Elems(batch[f])
      <3>1. batch[f] \in Seq(Round) /\ raw \subseteq Round /\ Unique(raw)
        BY DEF TypeOK
      <3>2. Insert(raw, batch[f]) \subseteq raw \cup Elems(batch[f])
        BY <3>1, InsertIs
      <3> QED BY <2>1, <3>2
    <2>3. raw' \cup InFlight' \subseteq raw \cup InFlight
      BY <2>1, <2>2, DropMoves
    <2>4. \A m \in Loops : lpc'[m] \in {"probing", "buffer"} => lpc[m] \in {"probing", "buffer"}
      BY <2>1 DEF Return, Goto, TypeOK
    <2> QED BY <1>0, <2>1, <2>3, <2>4, FreshKeeps
  <1>6. CASE Restart
    <2>1. pending' = <<>> /\ (\A f \in Flushers : batch'[f] = <<>>) /\ raw' = raw
          /\ clock' = clock /\ \A l \in Loops : current'[l] = None
      BY <1>6 DEF Restart
    <2>2. InFlight' = {}
      BY <2>1, NoElems DEF InFlight
    <2> QED BY <1>0, <2>1, <2>2, FreshKeeps
  <1> QED BY <1>1, <1>2, <1>3, <1>4, <1>5, <1>6, FreshGrows, FreshStarts
          DEF Next, EnsureTarget, Loop, Close

\* Every step keeps the invariant.
LEMMA NextInv == IInv /\ [Next]_vars => IInv'
  <1> SUFFICES ASSUME IInv, [Next]_vars PROVE IInv'
    OBVIOUS
  <1>1. TypeOK' /\ LoopsOK' /\ StageOK'
    BY TypeNext, LoopsNext, StageNext DEF IInv
  <1>2. Fresh'
    BY <1>1, FreshNext
  <1>3. Unique(raw') /\ Apart'
    <2>1. CASE UNCHANGED <<pending, batch, raw>>
      BY <2>1 DEF IInv, Unique, Apart
    <2>2. ASSUME NEW l \in Loops, Buffer(l) PROVE Unique(raw') /\ Apart'
      BY <2>2, BufferMoves DEF IInv, Buffer
    <2>3. ASSUME NEW f \in Flushers, TakesOver(f) PROVE Unique(raw') /\ Apart'
      BY <2>3, TakeMoves DEF IInv, TakesOver
    <2>4. ASSUME NEW f \in Flushers, Drops(f), Commit(f) \/ CommitFails(f) PROVE Unique(raw') /\ Apart'
      <3>1. raw' = raw \/ raw' = Insert(raw, batch[f])
        BY <2>4 DEF Commit, CommitFails
      <3>2. batch[f] \in Seq(Round) /\ raw \subseteq Round
        BY DEF IInv, TypeOK
      <3>3. Unique(Insert(raw, batch[f])) /\ Unique(raw)
        BY <3>2, InsertIs DEF IInv
      <3>4. Apart'
        BY <2>4, DropMoves DEF IInv
      <3> QED BY <3>1, <3>3, <3>4
    <2>5. CASE Restart
      <3>1. raw' = raw /\ pending' = <<>> /\ \A f \in Flushers : batch'[f] = <<>>
        BY <2>5 DEF Restart
      <3> QED BY <3>1, NoElems DEF IInv, Apart
    <2> QED BY <2>1, <2>2, <2>3, <2>4, <2>5, Moves
  <1> QED BY <1>1, <1>2, <1>3 DEF IInv

\* The inductive invariant of the store holds, with and without faults.
THEOREM Invariance == Spec => []IInv
  BY InitInv, NextInv, PTL DEF Spec

\* The types, for any number of loops and sizes of batch and ring.
THEOREM StoreTyped == Spec => []TypeOK
  <1>1. IInv => TypeOK
    BY DEF IInv
  <1> QED BY <1>1, Invariance, PTL

-----------------------------------------------------------------------------
(* Storage keeps RoundLog's promise.                                       *)

\* After Close nothing but a batch of flushLoop is in memory.
LEMMA ClosedHolds ==
  ASSUME IInv, phase \in {"closing", "closed"}, batch[Closer] = <<>>
  PROVE  InFlight = Elems(batch[FlushLoop])
  <1>1. pending = <<>> /\ \A f \in Flushers : f # FlushLoop => batch[f] = <<>>
    BY FlusherIs DEF IInv, StageOK, LoopsOK, Flushers
  <1> QED BY <1>1, NoElems, FlusherIs DEF InFlight

\* A new store is an empty log.
LEMMA InitLog == Init => Log!Init
  <1> SUFFICES ASSUME Init PROVE Log!Init
    OBVIOUS
  <1>1. InFlight = {}
    BY NoElems DEF Init, InFlight
  <1> QED BY <1>1 DEF Init, Log!Init

\* Each step of the store is one of RoundLog, or does not concern it.
LEMMA StepLog ==
  ASSUME IInv, [Next]_vars
  PROVE  [Log!Next]_Log!vars
  <1>1. CASE UNCHANGED <<pending, batch, raw>>
    BY <1>1 DEF InFlight, Log!vars
  <1>2. ASSUME NEW l \in Loops, Buffer(l) PROVE [Log!Next]_Log!vars
    <2>1. InFlight' = InFlight \cup {current[l]} /\ current[l] \in Round /\ raw' = raw
      BY <1>2, BufferMoves DEF IInv, Buffer
    <2>2. Log!Accept(current[l])
      BY <2>1 DEF Log!Accept
    <2> QED BY <2>1, <2>2 DEF Log!Next
  <1>3. ASSUME NEW f \in Flushers, TakesOver(f) PROVE [Log!Next]_Log!vars
    <2>1. InFlight' = InFlight /\ raw' = raw
      BY <1>3, TakeMoves DEF IInv, TakesOver
    <2> QED BY <2>1 DEF Log!vars
  <1>4. ASSUME NEW f \in Flushers, Drops(f), Commit(f) PROVE [Log!Next]_Log!vars
    <2> DEFINE S == Elems(batch[f])
    <2>1. InFlight' = InFlight \ S /\ S \subseteq InFlight
      BY <1>4, DropMoves DEF IInv
    <2>2. raw' = Insert(raw, batch[f]) /\ batch[f] \in Seq(Round) /\ raw \subseteq Round /\ Unique(raw)
      BY <1>4 DEF Commit, IInv, TypeOK
    <2>3. raw' \subseteq raw \cup S /\ Seconds(raw') = Seconds(raw \cup S)
      BY <2>2, InsertIs
    <2>4. Log!Commit(S)
      BY <2>1, <2>3 DEF Log!Commit, Log!Seconds, Seconds
    <2> HIDE DEF S
    <2> QED BY <2>1, <2>4 DEF Log!Next
  <1>5. ASSUME NEW f \in Flushers, Drops(f), CommitFails(f) PROVE [Log!Next]_Log!vars
    <2> DEFINE S == Elems(batch[f])
    <2>1. InFlight' = InFlight \ S /\ S \subseteq InFlight /\ raw' = raw
      BY <1>5, DropMoves DEF IInv, CommitFails
    <2>2. CASE Faults
      <3>1. Log!WriteError(S)
        BY <2>1, <2>2 DEF Log!WriteError
      <3> HIDE DEF S
      <3> QED BY <2>1, <3>1 DEF Log!Next
    <2>3. CASE phase = "closed"
      <3>1. batch[Closer] = <<>>
        BY <2>3 DEF IInv, StageOK
      <3>2. InFlight = Elems(batch[FlushLoop])
        BY <2>3, <3>1, ClosedHolds
      <3>3. f = FlushLoop
        BY <1>5, <2>3, <3>1, FlusherIs DEF IInv, StageOK, LoopsOK, Flushers, Drops
      <3>4. Log!ProcessEnds
        BY <2>1, <3>2, <3>3 DEF Log!ProcessEnds
      <3> QED BY <3>4 DEF Log!Next
    <2> QED BY <1>5, <2>2, <2>3 DEF CommitFails
  <1>6. CASE Restart
    <2>1. raw' = raw /\ pending' = <<>> /\ \A f \in Flushers : batch'[f] = <<>>
      BY <1>6 DEF Restart
    <2>2. InFlight' = {}
      BY <2>1, NoElems DEF InFlight
    <2>3. Log!ProcessEnds
      BY <2>1, <2>2 DEF Log!ProcessEnds
    <2> QED BY <2>3 DEF Log!Next
  <1> QED BY <1>1, <1>2, <1>3, <1>4, <1>5, <1>6, Moves

\* A round that Append accepted is stored in the end or waits in memory; it is
\* lost only with the process or by a write the database refused, and no
\* second that has a round ever loses it (store.go: Append, Flush, Close).
THEOREM StorageKeepsItsPromise == Spec => LogSpec
  <1>1. Init => Log!Init
    BY InitLog
  <1>2. IInv /\ [Next]_vars => [Log!Next]_Log!vars
    BY StepLog
  <1> QED BY <1>1, <1>2, Invariance, PTL DEF Spec, LogSpec, Log!Spec

-----------------------------------------------------------------------------
(* What a shutdown may lose.                                               *)

\* While no write fails, an accepted round's second is stored or on its way.
NoneLost == phase # "closed" => Seconds(accepted) \subseteq Seconds(raw \cup InFlight)

\* Where nothing fails, only what no loop and no batch holds is lost.
LEMMA NoneLostNext ==
  ASSUME IInv, IInv', ~Faults, NoneLost, [Next]_vars
  PROVE  NoneLost'
  <1> USE DEF runnerVars, loopVars
  <1> SUFFICES ASSUME phase' # "closed"
               PROVE  Seconds(accepted') \subseteq Seconds(raw' \cup InFlight')
    BY DEF NoneLost
  <1>1. CASE Restart
    BY <1>1 DEF Restart, Seconds
  <1>2. CASE ~Restart
    <2>1. phase # "closed"
      BY <1>2 DEF Next, EnsureTarget, Edit, Loop, Close, Tick, Register, ReplayQuery, ReplaySet,
           StartLoop, RemoveTarget, ReAdd, ChangeTarget, Record, Buffer, LoopTakes, NextRound,
           ExitLoop, FlushLoopTakes, Commit, CommitFails, StopLoops, CloseTakes, CloseDB, vars
    <2>2. Seconds(accepted) \subseteq Seconds(raw \cup InFlight)
      BY <2>1 DEF NoneLost
    <2>3. ASSUME NEW l \in Loops, Buffer(l) PROVE Seconds(accepted') \subseteq Seconds(raw' \cup InFlight')
      <3>1. InFlight' = InFlight \cup {current[l]} /\ raw' = raw /\ accepted' = accepted \cup {current[l]}
        BY <2>3, BufferMoves DEF IInv, Buffer
      <3> QED BY <2>2, <3>1 DEF Seconds
    <2>4. CASE ~(\E l \in Loops : Buffer(l))
      <3>1. accepted' = accepted
        BY <1>2, <2>4 DEF history, Next, EnsureTarget, Edit, Loop, Close, Tick, Register, ReplayQuery, ReplaySet,
             StartLoop, RemoveTarget, ReAdd, ChangeTarget, Record, LoopTakes, NextRound,
             ExitLoop, FlushLoopTakes, Commit, CommitFails, StopLoops, CloseTakes, CloseDB, vars
      <3>2. CASE UNCHANGED <<pending, batch, raw>>
        BY <2>2, <3>1, <3>2 DEF InFlight
      <3>3. ASSUME NEW f \in Flushers, TakesOver(f) PROVE InFlight' = InFlight /\ raw' = raw
        BY <3>3, TakeMoves DEF IInv, TakesOver
      <3>4. ASSUME NEW f \in Flushers, Drops(f), Commit(f)
            PROVE  Seconds(raw \cup InFlight) \subseteq Seconds(raw' \cup InFlight')
        <4>1. /\ raw' = Insert(raw, batch[f]) /\ batch[f] \in Seq(Round)
              /\ raw \subseteq Round /\ Unique(raw)
          BY <3>4 DEF Commit, IInv, TypeOK
        <4>2. Seconds(raw') = Seconds(raw \cup Elems(batch[f]))
          BY <4>1, InsertIs
        <4>3. InFlight \subseteq InFlight' \cup Elems(batch[f])
          BY <3>4, DropMoves DEF IInv
        <4> QED BY <4>2, <4>3 DEF Seconds
      <3>5. ASSUME NEW f \in Flushers, CommitFails(f) PROVE FALSE
        BY <2>1, <3>5 DEF CommitFails
      <3> QED BY <1>2, <2>2, <2>4, <3>1, <3>2, <3>3, <3>4, <3>5, Moves
    <2> QED BY <2>3, <2>4
  <1> QED BY <1>1, <1>2

\* When no write fails, Close leaves nothing behind but what flushLoop had in
\* its hands (app.go: shutdown; store.go: Close).
THEOREM CloseLosesNoMore == ~Faults /\ Spec => OnlyFlushLoopLoses
  <1> DEFINE Loses == phase = "closing" /\ phase' = "closed" =>
                        Seconds(accepted) \subseteq Seconds(raw \cup Elems(batch[FlushLoop]))
  <1> SUFFICES ASSUME ~Faults PROVE Spec => OnlyFlushLoopLoses
    OBVIOUS
  <1>1. Init => NoneLost
    BY DEF Init, NoneLost, Seconds
  <1>2. IInv /\ IInv' /\ NoneLost /\ [Next]_vars => NoneLost'
    BY NoneLostNext
  <1>3. IInv /\ NoneLost /\ [Next]_vars => [Loses]_vars
    <2> SUFFICES ASSUME IInv, NoneLost, Next, phase = "closing", phase' = "closed"
                 PROVE  Seconds(accepted) \subseteq Seconds(raw \cup Elems(batch[FlushLoop]))
      OBVIOUS
    <2>1. CloseDB
      BY DEF runnerVars, loopVars, Next, EnsureTarget, Edit, Loop, Close, Tick, Register, ReplayQuery, ReplaySet,
             StartLoop, RemoveTarget, ReAdd, ChangeTarget, Record, Buffer, LoopTakes, NextRound,
             ExitLoop, FlushLoopTakes, Commit, CommitFails, StopLoops, CloseTakes, Restart
    <2>2. InFlight = Elems(batch[FlushLoop])
      BY <2>1, ClosedHolds DEF CloseDB
    <2> QED BY <2>2 DEF NoneLost
  <1> QED BY <1>1, <1>2, <1>3, Invariance, PTL DEF Spec, OnlyFlushLoopLoses

-----------------------------------------------------------------------------
(* The ring.                                                               *)

\* The end of a sequence has rounds of the sequence.
LEMMA LastNElems ==
  ASSUME NEW s \in Seq(Round), NEW n \in Nat
  PROVE  Elems(LastN(s, n)) \subseteq Elems(s)
  <1>1. \A i \in DOMAIN LastN(s, n) : i \in 1..Len(LastN(s, n))
    BY LastNIs
  <1> QED BY <1>1, LastNIs DEF Elems

\* A round in hand is one a loop is about to buffer.
LEMMA InHandIs ==
  ASSUME NEW r
  PROVE  r \in InHand <=> \E l \in Loops : lpc[l] = "buffer" /\ r = current[l]
  BY DEF InHand

\* The hand between Append's two locks: Record fills it, Buffer empties it.
LEMMA HandMoves ==
  ASSUME IInv, [Next]_vars
  PROVE  \/ InHand' = InHand /\ ~(\E l \in Loops : Buffer(l))
         \/ \E l \in Loops : /\ Record(l) /\ registered /\ InHand' = InHand \cup {current[l]}
                             /\ UNCHANGED <<pending, batch, raw>>
         \/ \E l \in Loops : /\ Buffer(l) /\ InHand' = InHand \ {current[l]}
                             /\ current[l] \in InHand
         \/ Restart /\ InHand' = {}
  <1> USE FlusherIs DEF IInv, runnerVars, loopVars
  <1>0. \A l \in Loops : lpc[l] # "off" => current[l].by = l
    BY HasRound
  <1>1. CASE Restart
    <2>1. \A l \in Loops : lpc'[l] = "off"
      BY <1>1 DEF Restart
    <2> QED BY <1>1, <2>1 DEF InHand
  <1>2. ASSUME NEW l \in Loops, Buffer(l)
        PROVE  InHand' = InHand \ {current[l]} /\ current[l] \in InHand
    <2>1. lpc[l] = "buffer" /\ current' = current /\ lpc'[l] # "buffer"
          /\ \A m \in Loops : m # l => lpc'[m] = lpc[m]
      BY <1>2 DEF Buffer, Goto, TypeOK
    <2>2. ASSUME NEW r PROVE r \in InHand' <=> \E m \in Loops : lpc'[m] = "buffer" /\ r = current[m]
      BY <2>1 DEF InHand
    <2>3. \A m \in Loops : lpc[m] = "buffer" /\ current[m] = current[l] => m = l
      BY <1>0, <2>1
    <2> QED BY <2>1, <2>2, <2>3, InHandIs
  <1>3. ASSUME NEW l \in Loops, Record(l), registered
        PROVE  InHand' = InHand \cup {current[l]} /\ UNCHANGED <<pending, batch, raw>>
    <2>1. lpc[l] = "probing" /\ current' = current /\ lpc'[l] = "buffer"
          /\ \A m \in Loops : m # l => lpc'[m] = lpc[m]
      BY <1>3 DEF Record, Goto, TypeOK
    <2>2. ASSUME NEW r PROVE r \in InHand' <=> \E m \in Loops : lpc'[m] = "buffer" /\ r = current[m]
      BY <2>1 DEF InHand
    <2>3. UNCHANGED <<pending, batch, raw>>
      BY <1>3 DEF Record
    <2> QED BY <2>1, <2>2, <2>3, InHandIs
  <1>4. ASSUME \A l \in Loops : (lpc'[l] = "buffer" <=> lpc[l] = "buffer")
                                /\ (lpc[l] = "buffer" => current'[l] = current[l])
        PROVE  InHand' = InHand
    <2>1. ASSUME NEW r PROVE r \in InHand' <=> \E m \in Loops : lpc'[m] = "buffer" /\ r = current'[m]
      BY DEF InHand
    <2> QED BY <1>4, <2>1, InHandIs
  <1>5. CASE Tick \/ Register \/ ReplayQuery \/ ReplaySet \/ Edit \/ StopLoops \/ Close
             \/ FlushLoopTakes \/ UNCHANGED vars
    <2>1. UNCHANGED <<lpc, current>>
      BY <1>5 DEF Tick, Register, ReplayQuery, ReplaySet, Edit, RemoveTarget, ReAdd, ChangeTarget,
                  StopLoops, Close, CloseTakes, CloseDB, FlushLoopTakes, vars
    <2>2. \A l \in Loops : ~Buffer(l)
      BY <2>1 DEF Buffer, Goto, TypeOK
    <2> QED BY <1>4, <2>1, <2>2
  <1>6. CASE StartLoop
    <2>1. PICK l \in Loops : /\ lpc[l] = "off" /\ Goto(l, "probing")
                             /\ current' = [current EXCEPT ![l] = [t |-> clock, by |-> l]]
      BY <1>6 DEF StartLoop
    <2>2. \A m \in Loops : ~Buffer(m)
      BY <2>1 DEF Buffer, Goto, TypeOK
    <2> QED BY <1>4, <2>1, <2>2 DEF Goto, TypeOK
  <1>7. ASSUME NEW l \in Loops, (Record(l) /\ ~registered) \/ LoopTakes(l) \/ NextRound(l) \/ ExitLoop(l)
        PROVE  InHand' = InHand /\ \A m \in Loops : ~Buffer(m)
    <2>1. /\ lpc[l] \in {"probing", "flush", "waiting"} /\ lpc'[l] # "buffer"
          /\ \A m \in Loops : m # l => lpc'[m] = lpc[m] /\ current'[m] = current[m]
      BY <1>7 DEF Record, LoopTakes, NextRound, ExitLoop, Goto, TypeOK
    <2>2. \A m \in Loops : ~Buffer(m)
      BY <2>1 DEF Buffer, Goto, TypeOK
    <2> QED BY <1>4, <2>1, <2>2
  <1>8. ASSUME NEW f \in Flushers, Commit(f) \/ CommitFails(f)
        PROVE  InHand' = InHand /\ \A m \in Loops : ~Buffer(m)
    <2>1. /\ current' = current /\ Return(f) /\ (f \in Loops => lpc[f] = "commit")
      BY <1>8 DEF Commit, CommitFails, LoopsOK
    <2>2. \A m \in Loops : ~Buffer(m)
      BY <2>1 DEF Buffer, Goto, Return, TypeOK
    <2> QED BY <1>4, <2>1, <2>2 DEF Return, Goto, TypeOK
  <1> QED BY <1>1, <1>2, <1>3, <1>5, <1>6, <1>7, <1>8 DEF Next, EnsureTarget, Loop

\* The table loses no second, ever.
LEMMA RawKeeps ==
  ASSUME IInv, [Next]_vars
  PROVE  Seconds(raw) \subseteq Seconds(raw')
  <1>1. ASSUME NEW f \in Flushers, Commit(f) PROVE Seconds(raw) \subseteq Seconds(raw')
    <2>1. /\ raw' = Insert(raw, batch[f]) /\ batch[f] \in Seq(Round)
          /\ raw \subseteq Round /\ Unique(raw)
      BY <1>1 DEF Commit, IInv, TypeOK
    <2>2. Seconds(raw') = Seconds(raw \cup Elems(batch[f]))
      BY <2>1, InsertIs
    <2> QED BY <2>2 DEF Seconds
  <1>2. CASE ~(\E f \in Flushers : Commit(f))
    <2>1. raw' = raw
      BY <1>2, Moves DEF Buffer, TakesOver, CommitFails, Restart
    <2> QED BY <2>1
  <1> QED BY <1>1, <1>2

\* A round becomes known when it is recorded; it is forgotten only with the
\* process or a failed write, or when a later one of its second replaces it.
LEMMA KnownMoves ==
  ASSUME IInv, [Next]_vars, ~Restart
  PROVE  /\ \/ Known' \subseteq Known /\ \A l \in Loops : ~(Record(l) /\ registered)
            \/ \E l \in Loops : Record(l) /\ registered /\ Known' = Known \cup {current[l]}
         /\ ~Faults /\ phase # "closed" => Seconds(Known) \subseteq Seconds(Known')
  <1>1. ASSUME NEW l \in Loops, Record(l), registered, InHand' = InHand \cup {current[l]},
               UNCHANGED <<pending, batch, raw>>
        PROVE  Known' = Known \cup {current[l]}
    BY <1>1 DEF Known, InFlight
  <1>2. ASSUME NEW l \in Loops, Buffer(l), InHand' = InHand \ {current[l]}, current[l] \in InHand
        PROVE  Known' = Known
    <2>1. InFlight' = InFlight \cup {current[l]} /\ raw' = raw
      BY <1>2, BufferMoves DEF IInv, Buffer
    <2> QED BY <1>2, <2>1 DEF Known
  <1>3. ASSUME InHand' = InHand, ~(\E l \in Loops : Buffer(l))
        PROVE  /\ Known' \subseteq Known
               /\ ~Faults /\ phase # "closed" => Seconds(Known) \subseteq Seconds(Known')
    <2>1. CASE UNCHANGED <<pending, batch, raw>>
      BY <1>3, <2>1 DEF Known, InFlight
    <2>2. ASSUME NEW f \in Flushers, TakesOver(f) PROVE Known' = Known
      <3>1. InFlight' = InFlight /\ raw' = raw
        BY <2>2, TakeMoves DEF IInv, TakesOver
      <3> QED BY <1>3, <3>1 DEF Known
    <2>3. ASSUME NEW f \in Flushers, Drops(f), Commit(f)
          PROVE  Known' \subseteq Known /\ Seconds(Known) \subseteq Seconds(Known')
      <3>1. /\ raw' = Insert(raw, batch[f]) /\ batch[f] \in Seq(Round)
            /\ raw \subseteq Round /\ Unique(raw)
        BY <2>3 DEF Commit, IInv, TypeOK
      <3>2. raw' \subseteq raw \cup Elems(batch[f]) /\ Seconds(raw') = Seconds(raw \cup Elems(batch[f]))
        BY <3>1, InsertIs
      <3>3. /\ InFlight \subseteq InFlight' \cup Elems(batch[f])
            /\ InFlight' \subseteq InFlight /\ Elems(batch[f]) \subseteq InFlight
        BY <2>3, DropMoves DEF IInv
      <3>4. Known' \subseteq Known
        BY <1>3, <3>2, <3>3 DEF Known
      <3>5. \A r \in raw \cup InFlight : r.t \in Seconds(raw' \cup InFlight')
        BY <3>2, <3>3 DEF Seconds
      <3>6. Seconds(Known) \subseteq Seconds(Known')
        BY <1>3, <3>5 DEF Known, Seconds
      <3> QED BY <3>4, <3>6
    <2>4. ASSUME NEW f \in Flushers, Drops(f), CommitFails(f)
          PROVE  Known' \subseteq Known /\ (Faults \/ phase = "closed")
      <3>1. InFlight' \subseteq InFlight /\ raw' = raw
        BY <2>4, DropMoves DEF IInv, CommitFails
      <3> QED BY <1>3, <2>4, <3>1 DEF Known, CommitFails
    <2> QED BY <1>3, <2>1, <2>2, <2>3, <2>4, Moves
  <1>4. \A l, m \in Loops : ~(Buffer(l) /\ Record(m) /\ registered)
    BY DEF Buffer, Record, Goto, IInv, TypeOK
  <1>5. \A l \in Loops : Record(l) /\ registered => InHand' # InHand
    <2> SUFFICES ASSUME NEW l \in Loops, Record(l), registered PROVE InHand' # InHand
      OBVIOUS
    <2>1. lpc[l] = "probing" /\ lpc'[l] = "buffer" /\ current' = current
      BY DEF Record, Goto, IInv, TypeOK
    <2>2. current[l] \in InHand'
      BY <2>1 DEF InHand
    <2>3. \A m \in Loops : lpc[m] # "off" => current[m].by = m
      BY HasRound DEF IInv
    <2>4. current[l] \notin InHand
      BY <2>1, <2>3, InHandIs
    <2> QED BY <2>2, <2>4
  <1> QED BY <1>1, <1>2, <1>3, <1>4, <1>5, HandMoves DEF Seconds

\* What can happen to the ring in one step.
LEMMA RingMoves ==
  ASSUME [Next]_vars
  PROVE  \/ ring' = ring /\ ~ReplaySet /\ \A l \in Loops : ~(Record(l) /\ registered)
         \/ ring' = <<>> /\ (RemoveTarget \/ Register \/ Restart)
         \/ ReplaySet
         \/ \E l \in Loops : Record(l) /\ registered
  BY DEF runnerVars, loopVars, Next, EnsureTarget, Edit, Loop, Close, Tick, Register, ReplayQuery,
         ReplaySet, StartLoop, RemoveTarget, ReAdd, ChangeTarget, Record, Buffer, LoopTakes,
         NextRound, ExitLoop, FlushLoopTakes, Commit, CommitFails, StopLoops, CloseTakes, CloseDB,
         Restart, vars

\* What replay has read is in the table.
ReplayedIsRaw == Seconds(Elems(replayed)) \subseteq Seconds(raw)

\* What is replayed comes from raw.
LEMMA ReplayedNext ==
  ASSUME IInv, ReplayedIsRaw, [Next]_vars
  PROVE  ReplayedIsRaw'
  <1>1. CASE replayed' = replayed
    BY <1>1, RawKeeps DEF ReplayedIsRaw
  <1>2. CASE replayed' = <<>>
    BY <1>2, NoElems DEF ReplayedIsRaw, Seconds
  <1>3. CASE ReplayQuery /\ replayed' = LastN(ByTime(LastDay), RingCap)
    <2>1. LastDay \subseteq Round /\ LastDay \subseteq raw /\ Unique(LastDay)
          /\ raw' = raw /\ RingCap \in Nat
      BY <1>3, LastDayIs, RoundStoreAssumption DEF IInv, ReplayQuery
    <2>2. ByTime(LastDay) \in Seq(Round) /\ Elems(ByTime(LastDay)) \subseteq raw
      BY <2>1, ByTimeIs DEF Elems
    <2>3. Elems(replayed') \subseteq raw
      BY <1>3, <2>1, <2>2, LastNElems
    <2> QED BY <2>1, <2>3 DEF ReplayedIsRaw, Seconds
  <1>4. CASE ~ReplayQuery
    <2>1. replayed' = replayed \/ replayed' = <<>>
      BY <1>4 DEF runnerVars, loopVars, Next, EnsureTarget, Edit, Loop, Close, Tick, Register,
         ReplaySet, StartLoop, RemoveTarget, ReAdd, ChangeTarget, Record, Buffer, LoopTakes,
         NextRound, ExitLoop, FlushLoopTakes, Commit, CommitFails, StopLoops, CloseTakes, CloseDB,
         Restart, vars
    <2> QED BY <1>1, <1>2, <2>1
  <1> QED BY <1>2, <1>3, <1>4 DEF ReplayQuery

\* Every round of a ring is on disk or on its way there.
LEMMA BackedNext ==
  ASSUME IInv, IInv', ~Faults, ReplayedIsRaw, RingBacked, [Next]_vars
  PROVE  RingBacked'
  <1> SUFFICES ASSUME phase' # "closed" PROVE Seconds(Elems(ring')) \subseteq Seconds(Known')
    BY DEF RingBacked
  <1>1. CASE ring' = <<>>
    BY <1>1, NoElems DEF Seconds
  <1>2. CASE ring' # <<>>
    <2>1. ~Restart
      BY <1>2 DEF Restart
    <2>2. phase # "closed"
      BY <2>1 DEF runnerVars, loopVars, Next, EnsureTarget, Edit, Loop, Close, Tick, Register, ReplayQuery,
         ReplaySet, StartLoop, RemoveTarget, ReAdd, ChangeTarget, Record, Buffer, LoopTakes,
         NextRound, ExitLoop, FlushLoopTakes, Commit, CommitFails, StopLoops, CloseTakes, CloseDB, vars
    <2>3. Seconds(Elems(ring)) \subseteq Seconds(Known) /\ Seconds(Known) \subseteq Seconds(Known')
      BY <2>1, <2>2, KnownMoves DEF RingBacked
    <2>4. CASE ring' = ring
      BY <2>3, <2>4
    <2>5. CASE ReplaySet
      <3>1. Seconds(Elems(ring')) \subseteq Seconds(raw')
        BY <2>5, RawKeeps DEF ReplaySet, ReplayedIsRaw
      <3> QED BY <3>1 DEF Known, Seconds
    <2>6. ASSUME NEW l \in Loops, Record(l), registered
          PROVE  Seconds(Elems(ring')) \subseteq Seconds(Known')
      <3>1. current[l] \in Round /\ ring \in Seq(Round) /\ RingCap \in Nat
            /\ ring' = LastN(Append(ring, current[l]), RingCap)
        BY <2>6, HasRound, RoundStoreAssumption DEF Record, IInv, TypeOK
      <3>2. /\ Append(ring, current[l]) \in Seq(Round)
            /\ Elems(Append(ring, current[l])) = Elems(ring) \cup {current[l]}
        BY <3>1, ElemsIs
      <3>3. Elems(ring') \subseteq Elems(ring) \cup {current[l]}
        BY <3>1, <3>2, LastNElems
      <3>4. current[l] \in Known'
        <4>1. lpc'[l] = "buffer" /\ current' = current
          BY <2>6 DEF Record, Goto, IInv, TypeOK
        <4> QED BY <4>1 DEF Known, InHand
      <3> QED BY <2>3, <3>3, <3>4 DEF Seconds
    <2> QED BY <1>2, <2>4, <2>5, <2>6, RingMoves
  <1> QED BY <1>1, <1>2

\* When no write fails, the flight recorder shows nothing that storage does not
\* have or is about to get (store.go: Append, replay, RemoveTarget).
THEOREM RingShowsStored == ~Faults /\ Spec => []RingBacked
  <1> SUFFICES ASSUME ~Faults PROVE Spec => []RingBacked
    OBVIOUS
  <1>1. Init => ReplayedIsRaw /\ RingBacked
    BY NoElems DEF Init, ReplayedIsRaw, RingBacked, Seconds
  <1>2. IInv /\ IInv' /\ ReplayedIsRaw /\ RingBacked /\ [Next]_vars => ReplayedIsRaw' /\ RingBacked'
    BY ReplayedNext, BackedNext
  <1> QED BY <1>1, <1>2, Invariance, PTL DEF Spec

-----------------------------------------------------------------------------
(* The ring of a target that is left alone.                                *)

\* Between a start and a shutdown one loop runs, and none before the ring is
\* filled; until then nothing is in memory.
Alone ==
  ~edits =>
    /\ \A l, m \in Loops : lpc[l] # "off" /\ lpc[m] # "off" => l = m
    /\ apply \in {"register", "query", "set", "start"} =>
         (\A l \in Loops : lpc[l] = "off") /\ pending = <<>> /\ \A f \in Flushers : batch[f] = <<>>
    /\ apply = "gone" => phase # "up"
    /\ apply \in {"query", "set", "start", "idle"} => registered

\* Where a target is not edited it has one loop.
LEMMA AloneNext ==
  ASSUME IInv, Alone, [Next]_vars
  PROVE  Alone'
  <1> USE FlusherIs DEF IInv, runnerVars, loopVars
  <1> SUFFICES ASSUME ~edits'
               PROVE  /\ \A l, m \in Loops : lpc'[l] # "off" /\ lpc'[m] # "off" => l = m
                      /\ apply' \in {"register", "query", "set", "start"} =>
                           (\A l \in Loops : lpc'[l] = "off") /\ pending' = <<>>
                             /\ \A f \in Flushers : batch'[f] = <<>>
                      /\ apply' = "gone" => phase' # "up"
                      /\ apply' \in {"query", "set", "start", "idle"} => registered'
    BY DEF Alone
  <1>0. ~edits /\ edits' = edits
    BY DEF Next, EnsureTarget, Edit, Loop, Close, Tick, Register, ReplayQuery,
         ReplaySet, StartLoop, RemoveTarget, ReAdd, ChangeTarget, Record, Buffer, LoopTakes,
         NextRound, ExitLoop, FlushLoopTakes, Commit, CommitFails, StopLoops, CloseTakes, CloseDB,
         Restart, vars
  <1>1. /\ \A l, m \in Loops : lpc[l] # "off" /\ lpc[m] # "off" => l = m
        /\ apply \in {"register", "query", "set", "start"} =>
             (\A l \in Loops : lpc[l] = "off") /\ pending = <<>> /\ \A f \in Flushers : batch[f] = <<>>
        /\ apply = "gone" => phase # "up"
        /\ apply \in {"query", "set", "start", "idle"} => registered
    BY <1>0 DEF Alone
  <1>2. CASE Tick \/ Register \/ ReplayQuery \/ ReplaySet \/ UNCHANGED vars
    BY <1>1, <1>2 DEF Tick, Register, ReplayQuery, ReplaySet, vars
  <1>3. CASE StartLoop
    <2>1. PICK l \in Loops : lpc' = [lpc EXCEPT ![l] = "probing"]
      BY <1>3 DEF StartLoop, Goto
    <2>2. apply = "start" /\ apply' = "idle" /\ registered' = registered
      BY <1>3 DEF StartLoop
    <2> QED BY <1>1, <2>1, <2>2 DEF TypeOK
  <1>4. CASE Edit
    BY <1>0, <1>1, <1>4 DEF Edit, RemoveTarget, ReAdd, ChangeTarget
  <1>5. ASSUME NEW l \in Loops, Record(l) \/ Buffer(l) \/ LoopTakes(l) \/ NextRound(l) \/ ExitLoop(l)
        PROVE  /\ lpc[l] # "off" /\ \A m \in Loops : m # l => lpc'[m] = lpc[m]
               /\ UNCHANGED <<apply, phase, registered>>
    BY <1>5 DEF Record, Buffer, LoopTakes, NextRound, ExitLoop, Goto, TypeOK
  <1>6. CASE \E l \in Loops : Loop(l) \/ NextRound(l) \/ ExitLoop(l)
    <2>1. PICK l \in Loops : Record(l) \/ Buffer(l) \/ LoopTakes(l) \/ NextRound(l) \/ ExitLoop(l)
      BY <1>6 DEF Loop
    <2> HIDE <1>6
    <2>2. /\ lpc[l] # "off" /\ \A m \in Loops : m # l => lpc'[m] = lpc[m]
          /\ UNCHANGED <<apply, phase, registered>>
      BY <1>5, <2>1
    <2> QED BY <1>1, <2>2
  <1>7. CASE FlushLoopTakes
    BY <1>1, <1>7 DEF FlushLoopTakes
  <1>8. ASSUME NEW f \in Flushers, Commit(f) \/ CommitFails(f)
        PROVE  /\ batch[f] # <<>> /\ UNCHANGED <<apply, phase, registered>>
               /\ \A l \in Loops : lpc'[l] # "off" => lpc[l] # "off"
    BY <1>8 DEF Commit, CommitFails, Return, Goto, LoopsOK, TypeOK
  <1>9. CASE \E f \in Flushers : Commit(f) \/ CommitFails(f)
    BY <1>1, <1>8, <1>9
  <1>10. CASE StopLoops
    BY <1>1, <1>10 DEF StopLoops
  <1>11. CASE Close
    BY <1>1, <1>11 DEF Close, CloseTakes, CloseDB, StageOK
  <1>12. CASE Restart
    BY <1>12 DEF Restart
  <1> QED BY <1>2, <1>3, <1>4, <1>6, <1>7, <1>9, <1>10, <1>11, <1>12 DEF Next, EnsureTarget

\* In order of time, and no longer than the ring.
Sorted(s) == Len(s) <= RingCap /\ \A i, j \in DOMAIN s : i < j => s[i].t <= s[j].t

\* No round in the ring is newer than the one a loop is about to record.
Ordered ==
  ~edits =>
    /\ Sorted(ring) /\ Sorted(replayed)
    /\ \A r \in Elems(ring) \cup Elems(replayed) : r.t <= clock
    /\ \A l \in Loops : lpc[l] = "probing" => \A r \in Elems(ring) : r.t <= current[l].t

\* An empty ring is sorted.
LEMMA SortedEmpty == Sorted(<<>>) /\ Elems(<<>>) = {}
  <1>1. Len(<<>>) = 0 /\ DOMAIN <<>> = {}
    OBVIOUS
  <1> QED BY <1>1, NoElems, RoundStoreAssumption DEF Sorted

\* The ring after Append: the round at its end, the oldest one pushed out if it
\* was full, and then nothing in it is older than the one that went.
LEMMA Pushed ==
  ASSUME NEW s \in Seq(Round), Sorted(s), NEW c \in Round, \A r \in Elems(s) : r.t <= c.t,
         NEW u, u = LastN(Append(s, c), RingCap)
  PROVE  /\ u \in Seq(Round) /\ Sorted(u)
         /\ Elems(u) \subseteq Elems(s) \cup {c}
         /\ c \in Elems(u)
         /\ \/ Elems(s) \subseteq Elems(u) /\ Len(s) < RingCap
            \/ /\ Len(s) = RingCap /\ Len(u) = RingCap
               /\ \A i \in DOMAIN u : s[1].t <= u[i].t
               /\ \A r \in Elems(s) : r \in Elems(u) \/ r = s[1]
               /\ s[1] \in Elems(s)
  <1> DEFINE a == Append(s, c)
             n == Len(s)
  <1>1. /\ n \in Nat /\ RingCap \in Nat /\ RingCap # 0 /\ n <= RingCap /\ Len(s) = n
        /\ DOMAIN s = 1..n
        /\ \A i \in 1..n : s[i] \in Round /\ s[i] \in Elems(s) /\ s[i].t <= c.t
    BY RoundStoreAssumption DEF Sorted, Elems
  <1>2. /\ a \in Seq(Round) /\ Len(a) = n + 1
        /\ \A i \in 1..n : a[i] = s[i]
        /\ a[n + 1] = c
        /\ Elems(a) = Elems(s) \cup {c}
    BY ElemsIs
  <1>3. /\ u \in Seq(Round)
        /\ Elems(u) \subseteq Elems(s) \cup {c}
    BY <1>1, <1>2, LastNIs, LastNElems
  <1>4. \A r \in Round : r.t \in Nat
    BY RoundStoreAssumption DEF Round
  <1>0. u = LastN(a, RingCap)
    OBVIOUS
  <1>7. \A i, j \in 1..n : i < j => s[i].t <= s[j].t
    BY DEF Sorted
  <1> HIDE DEF a, n
  <1>5. CASE n < RingCap
    <2>1. u = a
      BY <1>0, <1>1, <1>2, <1>5 DEF LastN
    <2>2. Sorted(u)
      BY <1>1, <1>2, <1>4, <1>5, <1>7, <2>1 DEF Sorted
    <2> QED BY <1>1, <1>2, <1>3, <1>5, <2>1, <2>2
  <1>6. CASE n = RingCap
    <2>1. /\ Len(u) = n
          /\ \A i \in 1..n : u[i] = a[i + 1]
          /\ DOMAIN u = 1..n
      <3>1. Len(LastN(a, RingCap)) = n
        BY <1>1, <1>2, <1>6, LastNIs
      <3>2. \A i \in 1..n : LastN(a, RingCap)[i] = a[i + (n + 1) - n]
        BY <1>1, <1>2, <3>1, LastNIs
      <3>3. \A i \in 1..n : i + (n + 1) - n = i + 1
        BY <1>1
      <3> QED BY <1>0, <1>1, <1>3, <3>1, <3>2, <3>3
    <2>2. \A i \in 1..n : u[i] = IF i = n THEN c ELSE s[i + 1]
      BY <1>1, <1>2, <2>1
    <2>3. \A i \in 1..n : i # n => i + 1 \in 1..n
      BY <1>1
    <2>4. Sorted(u)
      BY <1>1, <1>4, <1>6, <1>7, <2>1, <2>2, <2>3 DEF Sorted
    <2>5. c \in Elems(u)
      <3>1. n \in 1..n
        BY <1>1, <1>6
      <3> QED BY <2>1, <2>2, <3>1 DEF Elems
    <2>6. \A i \in 1..n : s[1].t <= u[i].t
      <3> SUFFICES ASSUME NEW i \in 1..n PROVE s[1].t <= u[i].t
        OBVIOUS
      <3>1. 1 \in 1..n /\ s[1].t <= c.t
        BY <1>1, <1>6
      <3>2. CASE i = n
        BY <2>2, <3>1, <3>2
      <3>3. CASE i # n
        <4>1. i + 1 \in 1..n /\ 1 < i + 1 /\ u[i] = s[i + 1]
          BY <1>1, <2>2, <2>3, <3>3
        <4> QED BY <1>7, <3>1, <4>1
      <3> QED BY <3>2, <3>3
    <2>7. \A r \in Elems(s) : r \in Elems(u) \/ r = s[1]
      <3> SUFFICES ASSUME NEW i \in 1..n, i # 1 PROVE s[i] \in Elems(u)
        BY <1>1 DEF Elems
      <3>1. i - 1 \in 1..n /\ i - 1 # n /\ u[i - 1] = s[i]
        BY <1>1, <2>2
      <3> QED BY <2>1, <3>1 DEF Elems
    <2>8. s[1] \in Elems(s)
      BY <1>1, <1>6
    <2> QED BY <1>1, <1>3, <1>6, <2>1, <2>4, <2>5, <2>6, <2>7, <2>8
  <1> QED BY <1>1, <1>5, <1>6

\* What replay makes of the table.
LEMMA Replayed ==
  ASSUME NEW S, S \subseteq Round, Unique(S), NEW u, u = LastN(ByTime(S), RingCap)
  PROVE  /\ u \in Seq(Round) /\ Sorted(u) /\ Elems(u) \subseteq S
         /\ \A r \in S : \/ r.t \in Seconds(Elems(u))
                         \/ Len(u) = RingCap /\ \A i \in DOMAIN u : u[i].t >= r.t
  <1> DEFINE a == ByTime(S)
             n == Len(a)
             m == Len(u)
  <1>1. /\ a \in Seq(Round) /\ n \in Nat /\ DOMAIN a = 1..n
        /\ \A i, j \in 1..n : i < j => a[i].t < a[j].t
        /\ \A i \in 1..n : a[i] \in S
        /\ \A r \in S : \E i \in 1..n : a[i] = r
        /\ RingCap \in Nat
    BY ByTimeIs, RoundStoreAssumption
  <1> HIDE DEF a
  <1>2. /\ u \in Seq(Round) /\ m = (IF n <= RingCap THEN n ELSE RingCap) /\ DOMAIN u = 1..m
        /\ \A i \in 1..m : i + n - m \in 1..n /\ u[i] = a[i + n - m]
    <2>1. u = LastN(a, RingCap) /\ n = Len(a) /\ m = Len(u)
      BY DEF a
    <2> HIDE DEF n, m
    <2>2. /\ LastN(a, RingCap) \in Seq(Round)
          /\ Len(LastN(a, RingCap)) = (IF Len(a) <= RingCap THEN Len(a) ELSE RingCap)
          /\ \A i \in 1..Len(LastN(a, RingCap)) :
               /\ i + Len(a) - Len(LastN(a, RingCap)) \in 1..Len(a)
               /\ LastN(a, RingCap)[i] = a[i + Len(a) - Len(LastN(a, RingCap))]
      BY <1>1, LastNIs
    <2>3. u \in Seq(Round) => DOMAIN u = 1..m
      BY <2>1
    <2> QED BY <2>1, <2>2, <2>3
  <1>3. \A i \in 1..n : a[i].t \in Nat
    BY <1>1, RoundStoreAssumption DEF Round
  <1>4. m \in Nat /\ m <= n /\ m <= RingCap /\ (m = n \/ m = RingCap)
    BY <1>1, <1>2
  <1>8. Len(u) = m
    OBVIOUS
  <1> HIDE DEF n, m
  <1>5. Sorted(u)
    <2> SUFFICES ASSUME NEW i \in 1..m, NEW j \in 1..m, i < j PROVE u[i].t <= u[j].t
      BY <1>2, <1>4, <1>8 DEF Sorted
    <2>1. i + n - m \in 1..n /\ j + n - m \in 1..n /\ i + n - m < j + n - m
      BY <1>1, <1>2, <1>4
    <2>2. a[i + n - m].t < a[j + n - m].t
      BY <1>1, <2>1
    <2>3. a[i + n - m].t \in Nat /\ a[j + n - m].t \in Nat
      BY <1>3, <2>1
    <2>4. u[i] = a[i + n - m] /\ u[j] = a[j + n - m]
      BY <1>2
    <2> QED BY <2>2, <2>3, <2>4
  <1>6. Elems(u) \subseteq S
    BY <1>1, <1>2 DEF Elems
  <1>7. ASSUME NEW r \in S
        PROVE  \/ r.t \in Seconds(Elems(u))
               \/ Len(u) = RingCap /\ \A i \in DOMAIN u : u[i].t >= r.t
    <2>1. PICK k \in 1..n : a[k] = r
      BY <1>1
    <2>2. CASE k > n - m
      <3>1. k - (n - m) \in 1..m /\ (k - (n - m)) + n - m = k
        BY <1>1, <1>4, <2>2
      <3>2. u[k - (n - m)] = r
        BY <1>2, <2>1, <3>1
      <3>3. r \in Elems(u)
        BY <1>2, <3>1, <3>2 DEF Elems
      <3> QED BY <3>3 DEF Seconds
    <2>3. CASE ~(k > n - m)
      <3>1. m = RingCap
        BY <1>1, <1>4, <2>3
      <3>2. \A i \in 1..m : k < i + n - m
        BY <1>1, <1>4, <2>3
      <3>3. ASSUME NEW i \in 1..m PROVE u[i].t >= r.t
        <4>1. i + n - m \in 1..n /\ k < i + n - m /\ u[i] = a[i + n - m]
          BY <1>2, <3>2
        <4>2. a[k].t < a[i + n - m].t
          BY <1>1, <4>1
        <4> QED BY <1>3, <2>1, <4>1, <4>2
      <3> QED BY <1>2, <1>8, <3>1, <3>3
    <2> QED BY <2>2, <2>3
  <1> QED BY <1>2, <1>5, <1>6, <1>7

\* A loop's rounds come later than what its ring has.
LEMMA OrderedNext ==
  ASSUME IInv, IInv', Alone, Ordered, [Next]_vars
  PROVE  Ordered'
  <1> USE DEF IInv, runnerVars, loopVars
  <1> SUFFICES ASSUME ~edits'
               PROVE  /\ Sorted(ring') /\ Sorted(replayed')
                      /\ \A r \in Elems(ring') \cup Elems(replayed') : r.t <= clock'
                      /\ \A l \in Loops : lpc'[l] = "probing" =>
                           \A r \in Elems(ring') : r.t <= current'[l].t
    BY DEF Ordered
  <1>0. ~edits /\ clock' \in Nat /\ clock \in Nat /\ clock <= clock'
    <2>1. clock \in Nat /\ clock' \in Nat
      BY RoundStoreAssumption DEF TypeOK
    <2> QED BY <2>1 DEF Next, EnsureTarget, Edit, Loop, Close, Tick, Register, ReplayQuery,
         ReplaySet, StartLoop, RemoveTarget, ReAdd, ChangeTarget, Record, Buffer, LoopTakes,
         NextRound, ExitLoop, FlushLoopTakes, Commit, CommitFails, StopLoops, CloseTakes, CloseDB,
         Restart, vars
  <1>1. /\ Sorted(ring) /\ Sorted(replayed)
        /\ \A r \in Elems(ring) \cup Elems(replayed) : r.t <= clock
        /\ \A l \in Loops : lpc[l] = "probing" => \A r \in Elems(ring) : r.t <= current[l].t
    BY <1>0 DEF Ordered
  <1>2. /\ ring \in Seq(Round) /\ replayed \in Seq(Round)
        /\ \A r \in Elems(ring) \cup Elems(replayed) : r \in Round /\ r.t \in Nat
    <2>1. ring \in Seq(Round) /\ replayed \in Seq(Round)
      BY DEF TypeOK
    <2>2. Elems(ring) \subseteq Round /\ Elems(replayed) \subseteq Round
      BY <2>1, ElemsIs
    <2>3. \A r \in Round : r.t \in Nat
      BY RoundsTyped
    <2> QED BY <2>1, <2>2, <2>3
  <1>3. CASE Tick \/ UNCHANGED vars
    <2>1. UNCHANGED <<ring, replayed, lpc, current>>
      BY <1>3 DEF Tick, vars
    <2> QED BY <1>0, <1>1, <1>2, <2>1
  <1>4. CASE Register
    BY <1>0, <1>1, <1>2, <1>4, SortedEmpty DEF Register
  <1>5. CASE ReplayQuery
    <2>1. UNCHANGED <<ring, lpc, current, clock>>
      BY <1>5 DEF ReplayQuery
    <2>2. CASE replayed' = <<>>
      BY <1>1, <2>1, <2>2, SortedEmpty
    <2>3. CASE replayed' = LastN(ByTime(LastDay), RingCap)
      <3>1. Sorted(replayed') /\ Elems(replayed') \subseteq raw
        BY <2>3, Replayed, LastDayIs
      <3>2. \A r \in Elems(replayed') : r.t <= clock
        BY <3>1 DEF Fresh
      <3> QED BY <1>1, <2>1, <3>1, <3>2
    <2> QED BY <1>5, <2>2, <2>3 DEF ReplayQuery
  <1>6. CASE ReplaySet
    <2>1. UNCHANGED <<lpc, current, clock>> /\ ring' = replayed /\ replayed' = <<>>
          /\ \A l \in Loops : lpc[l] = "off"
      BY <1>0, <1>6 DEF ReplaySet, Alone
    <2> QED BY <1>1, <2>1, SortedEmpty
  <1>7. CASE StartLoop
    <2>1. PICK l \in Loops : /\ lpc' = [lpc EXCEPT ![l] = "probing"]
                             /\ current' = [current EXCEPT ![l] = [t |-> clock, by |-> l]]
      BY <1>7 DEF StartLoop, Goto
    <2>2. UNCHANGED <<ring, replayed, clock>>
      BY <1>7 DEF StartLoop
    <2>3. /\ current'[l].t = clock
          /\ \A m \in Loops : m # l => lpc'[m] = lpc[m] /\ current'[m] = current[m]
      BY <2>1 DEF TypeOK
    <2> QED BY <1>1, <2>2, <2>3
  <1>8. CASE Edit
    BY <1>0, <1>8 DEF Edit, RemoveTarget, ReAdd, ChangeTarget, Alone
  <1>9. ASSUME NEW l \in Loops, Record(l), registered
        PROVE  /\ Sorted(ring') /\ Sorted(replayed')
               /\ \A r \in Elems(ring') \cup Elems(replayed') : r.t <= clock'
               /\ \A m \in Loops : lpc'[m] = "probing" => \A r \in Elems(ring') : r.t <= current'[m].t
    <2>1. /\ lpc[l] = "probing" /\ lpc' = [lpc EXCEPT ![l] = "buffer"]
          /\ ring' = LastN(Append(ring, current[l]), RingCap)
          /\ UNCHANGED <<replayed, clock, current>>
      BY <1>9 DEF Record, Goto
    <2>2. current[l] \in Round /\ current[l].t <= clock
      BY <2>1, HasRound, RoundStoreAssumption
    <2>3. \A r \in Elems(ring) : r.t <= current[l].t
      BY <1>1, <2>1
    <2>4. Sorted(ring') /\ Elems(ring') \subseteq Elems(ring) \cup {current[l]}
      BY <1>1, <1>2, <2>1, <2>2, <2>3, Pushed
    <2>5. \A m \in Loops : lpc'[m] # "probing"
      BY <1>0, <2>1 DEF Alone, TypeOK
    <2> QED BY <1>1, <2>1, <2>2, <2>4, <2>5
  <1>10. ASSUME NEW l \in Loops,
                (Record(l) /\ ~registered) \/ Buffer(l) \/ LoopTakes(l) \/ NextRound(l) \/ ExitLoop(l)
        PROVE  /\ UNCHANGED <<ring, replayed, clock>>
               /\ \A m \in Loops : lpc'[m] = "probing" =>
                    \/ lpc[m] = "probing" /\ current'[m] = current[m]
                    \/ current'[m].t = clock
    <2>1. CASE NextRound(l)
      <3>1. current[l] \in Round
        BY <2>1, HasRound DEF NextRound
      <3>2. current'[l].t = clock /\ \A m \in Loops : m # l => lpc'[m] = lpc[m] /\ current'[m] = current[m]
        BY <2>1, <3>1 DEF NextRound, Goto, TypeOK, Round
      <3> QED BY <2>1, <3>2 DEF NextRound
    <2> QED BY <1>10, <2>1 DEF Record, Buffer, LoopTakes, ExitLoop, Goto, TypeOK
  <1>11. CASE FlushLoopTakes \/ StopLoops \/ Close
    <2>1. UNCHANGED <<ring, replayed, lpc, current, clock>>
      BY <1>11 DEF FlushLoopTakes, StopLoops, Close, CloseTakes, CloseDB
    <2> QED BY <1>1, <2>1
  <1>12. ASSUME NEW f \in Flushers, Commit(f) \/ CommitFails(f)
        PROVE  /\ UNCHANGED <<ring, replayed, clock, current>>
               /\ \A m \in Loops : lpc'[m] = "probing" => lpc[m] = "probing"
    BY <1>12 DEF Commit, CommitFails, Return, Goto, TypeOK
  <1>13. CASE Restart
    BY <1>13, SortedEmpty DEF Restart
  <1>14. CASE \E l \in Loops : Loop(l) \/ NextRound(l) \/ ExitLoop(l)
    <2>1. PICK l \in Loops : Record(l) \/ Buffer(l) \/ LoopTakes(l) \/ NextRound(l) \/ ExitLoop(l)
      BY <1>14 DEF Loop
    <2> HIDE <1>14
    <2>2. CASE Record(l) /\ registered
      BY <1>9, <2>2
    <2>3. CASE ~(Record(l) /\ registered)
      <3>1. /\ UNCHANGED <<ring, replayed, clock>>
            /\ \A m \in Loops : lpc'[m] = "probing" =>
                 \/ lpc[m] = "probing" /\ current'[m] = current[m]
                 \/ current'[m].t = clock
        BY <1>10, <2>1, <2>3
      <3> QED BY <1>1, <3>1
    <2> QED BY <2>2, <2>3
  <1>15. CASE \E f \in Flushers : Commit(f) \/ CommitFails(f)
    BY <1>1, <1>12, <1>15
  <1> QED BY <1>3, <1>4, <1>5, <1>6, <1>7, <1>8, <1>11, <1>13, <1>14, <1>15 DEF Next, EnsureTarget

\* A new store meets both.
LEMMA InitAlone == Init => Alone /\ Ordered
  BY SortedEmpty DEF Init, Alone, Ordered

\* The ring of a target nobody edits is in order of time, over restarts and
\* replay, as Recent's binary search takes for granted (store.go: Recent).
THEOREM RingIsSorted == Spec => []RingSorted
  <1> DEFINE Inv == Alone /\ Ordered
  <1>1. Init => Inv
    BY InitAlone
  <1>2. IInv /\ IInv' /\ Inv /\ [Next]_vars => Inv'
    BY AloneNext, OrderedNext
  <1>3. Inv => RingSorted
    BY DEF Ordered, Sorted, RingSorted
  <1> QED BY <1>1, <1>2, <1>3, Invariance, PTL DEF Spec

-----------------------------------------------------------------------------
(* The flight recorder.                                                    *)

\* Every round that is stored, buffered or in hand is in s, or s is full (of
\* rounds that are no older, if nobody edits the target), or replay could not
\* read it.
Covers(s) ==
  \A r \in Known : \/ r.t \in Seconds(Elems(s))
                   \/ Len(s) = RingCap /\ (edits \/ \A i \in DOMAIN s : s[i].t >= r.t)
                   \/ r \in unread

Recorded ==
  /\ apply = "set" => Covers(replayed)
  /\ apply \in {"start", "idle"} => Covers(ring)

\* A ring that lacks no recent round still lacks none after the next, whoever
\* has edited the target: it has grown, or it is full.
LEMMA RecordCoversEdited ==
  ASSUME IInv, edits, Covers(ring), NEW l \in Loops, Record(l), registered, apply # "set",
         Known' = Known \cup {current[l]}
  PROVE  Covers(ring)'
  <1>1. /\ ring' = LastN(Append(ring, current[l]), RingCap)
        /\ current[l] \in Round /\ ring \in Seq(Round) /\ RingCap \in Nat
        /\ Len(ring') # RingCap => unread' = unread \ {current[l]}
        /\ edits' = edits
    BY HasRound, RoundStoreAssumption DEF Record, IInv, TypeOK
  <1>2. /\ Append(ring, current[l]) \in Seq(Round)
        /\ Len(Append(ring, current[l])) = Len(ring) + 1 /\ Len(ring) \in Nat
        /\ Elems(Append(ring, current[l])) = Elems(ring) \cup {current[l]}
    BY <1>1, ElemsIs
  <1>3. Len(ring') = IF Len(ring) + 1 <= RingCap THEN Len(ring) + 1 ELSE RingCap
    BY <1>1, <1>2, LastNIs
  <1>4. CASE Len(ring') = RingCap
    BY <1>1, <1>4 DEF Covers
  <1>5. CASE Len(ring') # RingCap
    <2>1. Len(ring) + 1 <= RingCap /\ Len(ring) # RingCap
      BY <1>1, <1>2, <1>3, <1>5
    <2>2. Elems(ring') = Elems(ring) \cup {current[l]}
      BY <1>1, <1>2, <2>1 DEF LastN
    <2>3. unread' = unread \ {current[l]}
      BY <1>1, <1>5
    <2> QED BY <2>1, <2>2, <2>3 DEF Covers, Seconds
  <1> QED BY <1>4, <1>5

\* The same where nobody does: then it is full of rounds that are no older.
LEMMA RecordCovers ==
  ASSUME IInv, Ordered, ~edits, Covers(ring), NEW l \in Loops, Record(l), registered,
         apply # "set", Known' = Known \cup {current[l]}
  PROVE  Covers(ring)'
  <1>1. /\ lpc[l] = "probing"
        /\ ring' = LastN(Append(ring, current[l]), RingCap)
        /\ current[l] \in Round /\ unread' = unread \ {current[l]} /\ edits' = edits
    BY HasRound DEF Record, IInv
  <1>2. /\ ring \in Seq(Round) /\ Sorted(ring) /\ \A r \in Elems(ring) : r.t <= current[l].t
    BY <1>1 DEF Ordered, IInv, TypeOK
  <1>3. /\ ring' \in Seq(Round) /\ Sorted(ring')
        /\ Elems(ring') \subseteq Elems(ring) \cup {current[l]}
        /\ current[l] \in Elems(ring')
        /\ \/ Elems(ring) \subseteq Elems(ring') /\ Len(ring) < RingCap
           \/ /\ Len(ring) = RingCap /\ Len(ring') = RingCap
              /\ \A i \in DOMAIN ring' : ring[1].t <= ring'[i].t
              /\ \A r \in Elems(ring) : r \in Elems(ring') \/ r = ring[1]
              /\ ring[1] \in Elems(ring)
    BY <1>1, <1>2, Pushed
  <1>4. /\ \A r \in Round : r.t \in Nat
        /\ Elems(ring) \subseteq Round /\ Elems(ring') \subseteq Round
        /\ Known \subseteq Round
    <2>1. \A r \in InHand : r \in Round
      BY InHandIs, HasRound DEF IInv
    <2> QED BY <1>2, <1>3, <2>1, ElemsIs, RoundsTyped DEF IInv, Known
  <1>5. \A i \in DOMAIN ring' : ring'[i] \in Elems(ring')
    BY DEF Elems
  <1>6. ASSUME NEW r \in Known, r \notin unread
        PROVE  \/ r.t \in Seconds(Elems(ring'))
               \/ Len(ring') = RingCap /\ \A i \in DOMAIN ring' : ring'[i].t >= r.t
    <2>1. CASE Elems(ring) \subseteq Elems(ring') /\ Len(ring) < RingCap
      <3>1. r.t \in Seconds(Elems(ring))
        BY <1>6, <2>1, RoundStoreAssumption, <1>2 DEF Covers
      <3> QED BY <2>1, <3>1 DEF Seconds
    <2>2. CASE /\ Len(ring) = RingCap /\ Len(ring') = RingCap
               /\ \A i \in DOMAIN ring' : ring[1].t <= ring'[i].t
               /\ \A q \in Elems(ring) : q \in Elems(ring') \/ q = ring[1]
               /\ ring[1] \in Elems(ring)
      <3>1. CASE r.t \in Seconds(Elems(ring))
        <4>1. PICK q \in Elems(ring) : q.t = r.t
          BY <3>1 DEF Seconds
        <4>2. CASE q \in Elems(ring')
          BY <4>1, <4>2 DEF Seconds
        <4>3. CASE q = ring[1]
          BY <2>2, <4>1, <4>3, <1>4, <1>5
        <4> QED BY <2>2, <4>2, <4>3
      <3>2. CASE \A i \in DOMAIN ring : ring[i].t >= r.t
        <4>1. r.t <= ring[1].t
          <5>1. 1 \in DOMAIN ring
            BY <1>2, <2>2, RoundStoreAssumption
          <5> QED BY <3>2, <5>1, <1>4, <2>2
        <4>2. \A i \in DOMAIN ring' : ring'[i].t >= r.t
          BY <1>4, <1>5, <2>2, <4>1
        <4> QED BY <2>2, <4>2
      <3> QED BY <1>6, <3>1, <3>2 DEF Covers
    <2> QED BY <1>3, <2>1, <2>2
  <1>7. current[l].t \in Seconds(Elems(ring'))
    BY <1>3 DEF Seconds
  <1> QED BY <1>1, <1>6, <1>7 DEF Covers

\* A round that is known is in the ring, unless it is too old for it or was out
\* of replay's reach.
LEMMA RecordedNext ==
  ASSUME IInv, Ordered, Recorded, [Next]_vars
  PROVE  Recorded'
  <1> USE DEF runnerVars, loopVars, history
  <1>0. edits' = edits
    BY DEF Next, EnsureTarget, Edit, Loop, Close, Tick, Register, ReplayQuery,
         ReplaySet, StartLoop, RemoveTarget, ReAdd, ChangeTarget, Record, Buffer, LoopTakes,
         NextRound, ExitLoop, FlushLoopTakes, Commit, CommitFails, StopLoops, CloseTakes, CloseDB,
         Restart, vars
  <1>1. /\ apply = "set" => Covers(replayed)
        /\ apply \in {"start", "idle"} => Covers(ring)
    BY DEF Recorded
  <1>2. CASE Restart
    BY <1>2 DEF Restart, Recorded
  <1>3. CASE ReplayQuery
    <2>1. UNCHANGED <<raw, pending, batch, lpc, current>> /\ apply' = "set"
      BY <1>3 DEF ReplayQuery
    <2>2. Known' = Known
      BY <2>1 DEF Known, InFlight, InHand
    <2>3. CASE unread' = Known
      BY <2>1, <2>2, <2>3 DEF Recorded, Covers
    <2>4. CASE replayed' = LastN(ByTime(LastDay), RingCap) /\ unread' = Known \ LastDay
      <3>1. \A r \in LastDay :
              \/ r.t \in Seconds(Elems(replayed'))
              \/ Len(replayed') = RingCap /\ \A i \in DOMAIN replayed' : replayed'[i].t >= r.t
        BY <2>4, Replayed, LastDayIs DEF IInv
      <3> QED BY <2>1, <2>2, <2>4, <3>1 DEF Recorded, Covers
    <2> QED BY <1>3, <2>3, <2>4 DEF ReplayQuery
  <1>4. ASSUME NEW l \in Loops, Record(l), registered, Known' = Known \cup {current[l]}
        PROVE  Recorded'
    <2>1. apply' = apply /\ replayed' = replayed
      BY <1>4 DEF Record
    <2>2. CASE apply = "set"
      <3>1. unread' = unread \cup {current[l]}
        BY <1>4, <2>2 DEF Record
      <3> QED BY <1>0, <1>1, <1>4, <2>1, <2>2, <3>1 DEF Recorded, Covers
    <2>3. CASE apply # "set"
      BY <1>1, <1>4, <2>1, <2>3, RecordCovers, RecordCoversEdited DEF Recorded
    <2> QED BY <2>2, <2>3
  <1>5. CASE /\ ~Restart /\ ~ReplayQuery /\ Known' \subseteq Known
             /\ \A l \in Loops : ~(Record(l) /\ registered)
    <2>1. CASE ReplaySet
      <3>1. apply = "set" /\ apply' = "start" /\ ring' = replayed /\ unread' = unread
        BY <2>1 DEF ReplaySet
      <3> QED BY <1>0, <1>1, <1>5, <3>1 DEF Recorded, Covers
    <2>2. CASE StartLoop
      <3>1. apply = "start" /\ apply' = "idle" /\ ring' = ring /\ unread' = unread
        BY <2>2 DEF StartLoop
      <3> QED BY <1>0, <1>1, <1>5, <3>1 DEF Recorded, Covers
    <2>3. CASE ChangeTarget
      <3>1. apply = "idle" /\ apply' = "start" /\ ring' = ring /\ unread' = unread
        BY <2>3 DEF ChangeTarget
      <3> QED BY <1>0, <1>1, <1>5, <3>1 DEF Recorded, Covers
    <2>4. CASE ~ReplaySet /\ ~StartLoop /\ ~ChangeTarget
      <3>1. \/ apply' \notin {"set", "start", "idle"}
            \/ apply' = apply /\ ring' = ring /\ replayed' = replayed /\ unread' = unread
        BY <1>5, <2>4 DEF Next, EnsureTarget, Edit, Loop, Close, Tick, Register,
           RemoveTarget, ReAdd, Record, Buffer, LoopTakes,
           NextRound, ExitLoop, FlushLoopTakes, Commit, CommitFails, StopLoops, CloseTakes, CloseDB, vars
      <3> QED BY <1>0, <1>1, <1>5, <3>1 DEF Recorded, Covers
    <2> QED BY <2>1, <2>2, <2>3, <2>4
  <1> QED BY <1>2, <1>3, <1>4, <1>5, KnownMoves

\* While a target runs, edited, removed and re-added or not, over restarts and
\* whatever writes and queries fail, a round that is stored, buffered or in hand
\* is in the ring, or the ring is full (of rounds no older, if nobody edits), or
\* it was out of replay's reach: more than a day old or not stored when replay
\* looked (RecorderIntact; store.go: EnsureTarget, replay, Append).
THEOREM RecorderStaysIntact == Spec => []RecorderIntact
  <1> DEFINE Inv == Alone /\ Ordered /\ Recorded
  <1>1. Init => Inv
    BY InitAlone DEF Init, Recorded
  <1>2. IInv /\ IInv' /\ Inv /\ [Next]_vars => Inv'
    BY AloneNext, OrderedNext, RecordedNext
  <1>3. Inv => RecorderIntact
    BY DEF Recorded, Covers, RecorderIntact
  <1> QED BY <1>1, <1>2, <1>3, Invariance, PTL DEF Spec

=============================================================================
