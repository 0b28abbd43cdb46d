---------------------------- MODULE RollupProofs ----------------------------
(***************************************************************************)
(* What TLAPS proves of Rollup, for hours, retention times and clocks of   *)
(* any length.                                                             *)
(***************************************************************************)
EXTENDS Rollup, TLAPS

-----------------------------------------------------------------------------
(* Hours.                                                                  *)

\* AlignDown is the last full hour, and no full hour lies between it and t.
LEMMA DownIsHour ==
  ASSUME NEW t \in Nat
  PROVE  /\ AlignDown(t) \in Nat
         /\ AlignDown(t) % Hour = 0
         /\ AlignDown(t) <= t /\ t < AlignDown(t) + Hour
  BY RollupAssumption DEF AlignDown

\* AlignDown is the last full hour.
LEMMA DownIsLast ==
  ASSUME NEW t \in Nat, NEW h \in Nat, h % Hour = 0, h <= t
  PROVE  h <= AlignDown(t)
  BY RollupAssumption DEF AlignDown

\* AlignUp is the next full hour.
LEMMA UpIsHour ==
  ASSUME NEW t \in Nat
  PROVE  /\ AlignUp(t) \in Nat
         /\ AlignUp(t) % Hour = 0
         /\ t <= AlignUp(t) /\ AlignUp(t) < t + Hour
  <1>1. t + Hour - 1 \in Nat /\ Hour \in Nat
    BY RollupAssumption
  <1>2. AlignUp(t) = AlignDown(t + Hour - 1)
    BY DEF AlignUp, AlignDown
  <1>3. /\ AlignDown(t + Hour - 1) \in Nat
        /\ AlignDown(t + Hour - 1) % Hour = 0
        /\ AlignDown(t + Hour - 1) <= t + Hour - 1
        /\ t + Hour - 1 < AlignDown(t + Hour - 1) + Hour
    BY <1>1, DownIsHour
  <1> HIDE DEF AlignDown
  <1>4. \A a \in Nat : a <= t + Hour - 1 /\ t + Hour - 1 < a + Hour => t <= a /\ a < t + Hour
    BY <1>1
  <1> QED BY <1>2, <1>3, <1>4

\* The bucket of an instant of the clock.
LEMMA BucketOf ==
  ASSUME NEW t \in Times
  PROVE  AlignDown(t) \in Buckets /\ t \in InBucket(AlignDown(t))
  <1>1. t \in Nat /\ MaxTime \in Nat
    BY RollupAssumption DEF Times
  <1>2. AlignDown(t) \in Nat /\ AlignDown(t) % Hour = 0 /\ AlignDown(t) <= t
    BY <1>1, DownIsHour
  <1>3. AlignDown(t) \in Times
    BY <1>1, <1>2 DEF Times
  <1> QED BY <1>2, <1>3 DEF Buckets, InBucket

\* Start is a full hour not before the horizon, and the horizon's next full
\* hour for the first rollup of a process.
LEMMA StartIsHour ==
  ASSUME now \in Nat
  PROVE  /\ Start \in Nat /\ Horizon \in Nat
         /\ Start % Hour = 0
         /\ Horizon <= Start
         /\ last = Never => Start <= AlignUp(Horizon)
         /\ \A t \in Nat : last # Never /\ AlignUp(Horizon) <= t /\ now <= t + Window => Start <= t
  <1>1. Horizon \in Nat /\ Since \in Nat /\ Window \in Nat
    BY RollupAssumption DEF Horizon, Since, Minus, Window
  <1>2. /\ AlignUp(Horizon) \in Nat /\ AlignUp(Horizon) % Hour = 0 /\ Horizon <= AlignUp(Horizon)
        /\ AlignDown(Since) \in Nat /\ AlignDown(Since) % Hour = 0 /\ AlignDown(Since) <= Since
    BY <1>1, UpIsHour, DownIsHour
  <1>3. Start \in Nat /\ Start % Hour = 0 /\ Horizon <= Start
    BY <1>1, <1>2 DEF Start
  <1>4. ASSUME last = Never PROVE Start <= AlignUp(Horizon)
    <2>1. Since = Horizon
      BY <1>4 DEF Since
    <2> QED BY <1>1, <1>2, <2>1 DEF Start
  <1>5. ASSUME NEW t \in Nat, last # Never, AlignUp(Horizon) <= t, now <= t + Window
        PROVE  Start <= t
    <2>1. Since <= t
      BY <1>1, <1>5 DEF Since, Minus
    <2> QED BY <1>1, <1>2, <1>5, <2>1 DEF Start
  <1> QED BY <1>1, <1>3, <1>4, <1>5

\* The instants of one hour are on the same side of a full hour.
LEMMA SameSide ==
  ASSUME NEW t \in Nat, NEW u \in Nat, AlignDown(t) = AlignDown(u),
         NEW h \in Nat, h % Hour = 0, h <= t
  PROVE  h <= u
  <1>1. h <= AlignDown(t)
    BY DownIsLast
  <1>2. AlignDown(u) \in Nat /\ AlignDown(u) <= u
    BY DownIsHour
  <1> QED BY <1>1, <1>2

-----------------------------------------------------------------------------
(* The invariant.                                                          *)

\* A process that is down has nothing in its memory.
DownIsEmpty == ~up => last = Never /\ out = Idle /\ buffered = {}

\* A round that is not flushed yet began at most a sleep ago.
BufferedIsRecent == \A t \in buffered : now <= t + MaxSleep

\* How far the last rollup of this process lies back.
LastIsNear == last # Never => last <= now /\ (now <= last + MaxGap \/ now <= last + MaxSleep)

\* What a bucket was computed from is in raw until retention may delete it.
RawKeeps == \A b \in Buckets : \A t \in hourly[b] : Minus(now, Hot - Shift) <= t => t \in raw

\* A rollup under way has read whole buckets, of rounds that are still there.
OutIsRaw ==
  out # Idle =>
    /\ out.at = now
    /\ DOMAIN out.buckets \subseteq Buckets
    /\ \A b \in DOMAIN out.buckets : out.buckets[b] \subseteq raw \cap InBucket(b)

StepInv == TypeOK /\ DownIsEmpty /\ BufferedIsRecent /\ LastIsNear /\ RawKeeps /\ OutIsRaw

\* With days of 24 hours, a bucket that is about to be replaced is replaced by
\* one that has all of its rounds.
OutIsWhole ==
  out # Idle => \A b \in DOMAIN out.buckets : hourly[b] \subseteq out.buckets[b]

\* What is not in a bucket was flushed after the last rollup had read.
MissedIsRecent ==
  last # Never =>
    \A t \in raw : AlignUp(Horizon) <= t => t \in hourly[AlignDown(t)] \/ last <= t + MaxSleep

\* What a rollup under way will leave out was flushed after it had read.
OutLeaves ==
  out # Idle =>
    \A t \in raw : AlignUp(Horizon) <= t =>
      \/ now <= t + MaxSleep
      \/ AlignDown(t) \in DOMAIN out.buckets /\ t \in out.buckets[AlignDown(t)]
      \/ AlignDown(t) \notin DOMAIN out.buckets /\ t \in hourly[AlignDown(t)]

-----------------------------------------------------------------------------
\* An empty store meets the invariant.
LEMMA InitInv == Init => StepInv /\ OutIsWhole /\ MissedIsRecent /\ OutLeaves
  <1> SUFFICES ASSUME Init PROVE StepInv /\ OutIsWhole /\ MissedIsRecent /\ OutLeaves
    OBVIOUS
  <1> USE RollupAssumption DEF Init
  <1>1. 0 \in Times
    BY DEF Times
  <1>2. TypeOK
    BY <1>1 DEF TypeOK, Never
  <1>3. DownIsEmpty /\ BufferedIsRecent /\ LastIsNear /\ OutIsRaw
    BY DEF DownIsEmpty, BufferedIsRecent, LastIsNear, OutIsRaw
  <1>4. RawKeeps
    BY DEF RawKeeps
  <1> QED BY <1>2, <1>3, <1>4 DEF StepInv, OutIsWhole, MissedIsRecent, OutLeaves

\* Minus is the later instant of the later clock, and of the shorter stretch.
LEMMA MinusGrows ==
  ASSUME NEW m \in Nat, NEW n \in Nat, m <= n, NEW d \in Nat, NEW e \in Nat, d <= e
  PROVE  Minus(m, e) \in Nat /\ Minus(m, e) <= Minus(n, d)
  BY DEF Minus

\* What RawKeeps asks for only gets less as the clock goes on.
LEMMA ClockKeepsRaw ==
  ASSUME StepInv, now' \in Nat, now <= now', UNCHANGED <<raw, hourly>>
  PROVE  RawKeeps'
  <1> DEFINE cut == Hot - Shift
  <1>1. cut \in Nat /\ now \in Nat
    BY RollupAssumption DEF StepInv, TypeOK, Times
  <1>2. \A b \in Buckets : \A t \in hourly[b] : t \in Nat
    BY RollupAssumption DEF StepInv, TypeOK, Times
  <1> SUFFICES ASSUME NEW b \in Buckets, NEW t \in hourly[b], Minus(now', cut) <= t
               PROVE  t \in raw
    BY DEF RawKeeps
  <1> HIDE DEF cut
  <1>3. Minus(now, cut) \in Nat /\ Minus(now', cut) \in Nat /\ Minus(now, cut) <= Minus(now', cut)
    BY <1>1, MinusGrows
  <1>4. Minus(now, cut) <= t
    BY <1>2, <1>3
  <1> QED BY <1>4 DEF StepInv, RawKeeps, cut

\* Time goes by while the process is idle, and only forwards.
LEMMA TickInv ==
  ASSUME StepInv, Tick
  PROVE  StepInv'
  <1> USE RollupAssumption DEF StepInv, Tick
  <1>1. now \in Nat /\ now' \in Times /\ now' = now + 1
    BY DEF TypeOK, Times
  <1>2. TypeOK'
    BY <1>1 DEF TypeOK
  <1>3. DownIsEmpty' /\ OutIsRaw'
    BY DEF DownIsEmpty, OutIsRaw
  <1>4. BufferedIsRecent'
    BY <1>1 DEF BufferedIsRecent
  <1>5. LastIsNear'
    BY <1>1 DEF LastIsNear, LastRollup, DownIsEmpty, TypeOK, Times, Never
  <1>6. RawKeeps'
    BY <1>1, ClockKeepsRaw DEF Times
  <1> QED BY <1>2, <1>3, <1>4, <1>5, <1>6

\* So does the clock of a host that slept.
LEMMA SleepInv ==
  ASSUME StepInv, Sleep
  PROVE  StepInv'
  <1> USE RollupAssumption DEF StepInv, Sleep
  <1>1. now \in Nat /\ now' \in Times /\ now' \in Nat /\ now < now'
    BY DEF TypeOK, Times
  <1>2. TypeOK'
    BY <1>1 DEF TypeOK
  <1>3. DownIsEmpty' /\ OutIsRaw'
    BY DEF DownIsEmpty, OutIsRaw
  <1>4. BufferedIsRecent'
    BY <1>1 DEF BufferedIsRecent
  <1>5. LastIsNear'
    BY <1>1 DEF LastIsNear, LastRollup, TypeOK, Times
  <1>6. RawKeeps'
    BY <1>1, ClockKeepsRaw DEF Times
  <1> QED BY <1>2, <1>3, <1>4, <1>5, <1>6

\* A flush adds rounds to raw.
LEMMA FlushInv ==
  ASSUME StepInv, Flush
  PROVE  StepInv'
  <1> USE DEF StepInv, Flush
  <1>1. TypeOK'
    BY DEF TypeOK
  <1>2. DownIsEmpty' /\ BufferedIsRecent' /\ LastIsNear' /\ RawKeeps'
    BY DEF DownIsEmpty, BufferedIsRecent, LastIsNear, RawKeeps
  <1>3. OutIsRaw'
    BY DEF OutIsRaw
  <1> QED BY <1>1, <1>2, <1>3

\* The rollup reads rounds of raw, bucket by bucket.
LEMMA AggregateIsRaw ==
  ASSUME NEW rows, rows \subseteq Times
  PROVE  /\ DOMAIN Aggregate(rows) \subseteq Buckets
         /\ \A b \in DOMAIN Aggregate(rows) : Aggregate(rows)[b] = rows \cap InBucket(b)
         /\ DOMAIN Aggregate(rows) = {AlignDown(t) : t \in rows}
  <1>1. \A t \in rows : AlignDown(t) \in Buckets
    BY BucketOf
  <1> QED BY <1>1 DEF Aggregate

\* Reading changes what the rollup is about to write, and nothing on disk.
LEMMA RollupReadInv ==
  ASSUME StepInv, RollupRead
  PROVE  StepInv'
  <1> USE DEF StepInv, RollupRead
  <1> DEFINE rows == {t \in raw : t >= Start}
  <1>1. rows \subseteq raw /\ rows \subseteq Times
    BY DEF TypeOK
  <1>2. /\ DOMAIN Aggregate(rows) \subseteq Buckets
        /\ \A b \in DOMAIN Aggregate(rows) : Aggregate(rows)[b] = rows \cap InBucket(b)
    BY <1>1, AggregateIsRaw
  <1>3. \/ last' = now /\ out' = Idle
        \/ last' = last /\ out' = [at |-> now, buckets |-> Aggregate(rows)]
    BY DEF RollupRead
  <1>4. /\ DownIsEmpty' /\ BufferedIsRecent' /\ RawKeeps'
    BY DEF DownIsEmpty, BufferedIsRecent, RawKeeps
  <1>5. LastIsNear'
    BY <1>3, RollupAssumption DEF LastIsNear, TypeOK, Times
  <1> HIDE DEF rows, RollupRead
  <1>6. OutIsRaw'
    <2>1. raw' = raw /\ now' = now
      BY DEF RollupRead
    <2>2. CASE out' = Idle
      BY <2>2 DEF OutIsRaw
    <2>3. CASE out' = [at |-> now, buckets |-> Aggregate(rows)]
      BY <1>1, <1>2, <2>1, <2>3 DEF OutIsRaw
    <2> QED BY <1>3, <2>2, <2>3
  <1>7. TypeOK'
    <2>1. /\ UNCHANGED <<now, up, started, buffered, raw, hourly>>
          /\ last' \in Times \cup {Never}
      BY <1>3 DEF TypeOK, RollupRead
    <2>2. out' # Idle => out'.at \in Times
                         /\ \A b \in DOMAIN out'.buckets : out'.buckets[b] \subseteq InBucket(b)
      <3>1. CASE out' = [at |-> now, buckets |-> Aggregate(rows)]
        BY <1>2, <3>1 DEF TypeOK
      <3> QED BY <1>3, <3>1
    <2> QED BY <2>1, <2>2 DEF TypeOK
  <1> QED BY <1>4, <1>5, <1>6, <1>7

\* The transaction replaces buckets by what was read, and it is still there.
LEMMA RollupWriteInv ==
  ASSUME StepInv, RollupWrite
  PROVE  StepInv'
  <1> USE DEF StepInv, RollupWrite
  <1>1. /\ out.at = now /\ now \in Times
        /\ \A b \in DOMAIN out.buckets : out.buckets[b] \subseteq raw \cap InBucket(b)
        /\ raw \subseteq Times
    BY DEF OutIsRaw, TypeOK
  <1>2. \A b \in Buckets : hourly'[b] = hourly[b]
          \/ hourly'[b] \subseteq raw \cap InBucket(b)
    BY <1>1
  <1>3. TypeOK'
    BY <1>1, <1>2 DEF TypeOK
  <1>4. DownIsEmpty' /\ BufferedIsRecent' /\ OutIsRaw'
    BY DEF DownIsEmpty, BufferedIsRecent, OutIsRaw
  <1>5. LastIsNear'
    BY <1>1, RollupAssumption DEF LastIsNear, Times
  <1>6. RawKeeps'
    BY <1>2 DEF RawKeeps
  <1> QED BY <1>3, <1>4, <1>5, <1>6

\* A rollup that fails leaves everything as it was.
LEMMA RollupFailsInv ==
  ASSUME StepInv, RollupFails
  PROVE  StepInv'
  <1> USE DEF StepInv, RollupFails
  <1> QED BY DEF TypeOK, DownIsEmpty, BufferedIsRecent, LastIsNear, RawKeeps, OutIsRaw

\* Retention cuts rounds from raw that the chart no longer looks for there.
LEMMA RetentionInv ==
  ASSUME StepInv, Retention
  PROVE  StepInv'
  <1> USE DEF StepInv, Retention
  <1>1. PICK s \in {0, Shift} : raw' = {t \in raw : t >= Minus(now, Hot - s)}
    OBVIOUS
  <1>2. now \in Nat /\ \A t \in Times : t \in Nat
    BY RollupAssumption DEF TypeOK, Times
  <1>3. /\ Minus(now, Hot - s) \in Nat /\ Minus(now, Hot - Shift) \in Nat
        /\ Minus(now, Hot - s) <= Minus(now, Hot - Shift)
    BY <1>2, RollupAssumption DEF Minus
  <1>4. \A b \in Buckets : hourly'[b] \subseteq hourly[b]
    OBVIOUS
  <1>5. TypeOK'
    BY <1>1, <1>4 DEF TypeOK
  <1>6. DownIsEmpty' /\ BufferedIsRecent' /\ LastIsNear' /\ OutIsRaw'
    BY DEF DownIsEmpty, BufferedIsRecent, LastIsNear, OutIsRaw
  <1>7. RawKeeps'
    <2> SUFFICES ASSUME NEW b \in Buckets, NEW t \in hourly'[b], Minus(now, Hot - Shift) <= t
                 PROVE  t \in raw'
      BY DEF RawKeeps
    <2>1. t \in hourly[b] /\ t \in Nat
      BY <1>2, <1>4 DEF TypeOK
    <2>2. t \in raw
      BY <2>1 DEF RawKeeps
    <2> QED BY <1>1, <1>3, <2>1, <2>2
  <1> QED BY <1>5, <1>6, <1>7

\* Stopping forgets what is in memory; starting notes when.
LEMMA StopRestartInv ==
  ASSUME StepInv, Stop \/ Restart
  PROVE  StepInv'
  <1> USE DEF StepInv
  <1>1. TypeOK'
    BY DEF TypeOK, Stop, Restart
  <1>2. DownIsEmpty' /\ BufferedIsRecent' /\ LastIsNear'
    BY DEF DownIsEmpty, BufferedIsRecent, LastIsNear, Stop, Restart, Never
  <1>3. RawKeeps' /\ OutIsRaw'
    BY DEF RawKeeps, OutIsRaw, Stop, Restart, DownIsEmpty
  <1> QED BY <1>1, <1>2, <1>3

\* A step of nothing keeps it.
LEMMA StutterInv ==
  ASSUME StepInv, UNCHANGED vars
  PROVE  StepInv'
  BY DEF StepInv, vars, TypeOK, DownIsEmpty, BufferedIsRecent, LastIsNear, RawKeeps, OutIsRaw

\* Every step keeps the invariant.
LEMMA NextInv ==
  ASSUME StepInv, [Next]_vars
  PROVE  StepInv'
  BY TickInv, SleepInv, FlushInv, RollupReadInv, RollupWriteInv, RollupFailsInv,
     RetentionInv, StopRestartInv, StutterInv DEF Next, Housekeeping

\* The clock, raw and the buckets stay what they are, and a bucket holds rounds
\* of its own hour only, which raw holds too until its retention.
THEOREM RollupTypes == Spec => []TypeOK
  <1>1. Init => StepInv
    BY InitInv
  <1>2. StepInv /\ [Next]_vars => StepInv'
    BY NextInv
  <1>3. StepInv => TypeOK
    BY DEF StepInv
  <1> QED BY <1>1, <1>2, <1>3, PTL DEF Spec

-----------------------------------------------------------------------------
(* What the chart shows.                                                   *)

\* Every kept round of a window is in the buckets the hourly query reads: the
\* bucket that straddles the window's left edge is one of them.
LEMMA HourlyCovers ==
  ASSUME StepInv, NEW from \in Nat, NEW to \in Nat, NEW t \in Kept, from <= t, t <= to
  PROVE  t \in queryHourly(from, to)
  <1>1. PICK b \in Buckets : t \in hourly[b]
    BY DEF Kept
  <1>2. t \in Nat /\ AlignDown(t) = b
    BY <1>1, RollupAssumption DEF StepInv, TypeOK, InBucket, Times
  <1>3. b \in Nat /\ b <= t /\ t < b + Hour
    BY <1>2, DownIsHour
  <1>4. from < b + Hour /\ b <= to
    BY <1>2, <1>3, RollupAssumption
  <1> QED BY <1>1, <1>4 DEF queryHourly

\* And raw has it, as long as retention may not have cut it.
LEMMA RawCovers ==
  ASSUME StepInv, NEW t \in Kept, Minus(now, Hot - Shift) <= t
  PROVE  t \in raw
  BY DEF StepInv, RawKeeps, Kept

\* What the invariant keeps in raw and in the buckets is all a chart needs: the
\* hourly tier for a long window or one that is asked for as a long one, and raw
\* for a round it must still have.
LEMMA InvShowsAll == StepInv => ChartComplete
  <1> SUFFICES ASSUME StepInv,
                      NEW from \in 0..now, NEW to \in from..now,
                      NEW t \in Kept \cap (from..to)
               PROVE  /\ to - from > HourlyFrom \/ t \in WithinRaw => t \in ReadRange(from, to)
                      /\ t \notin Excused => t \in Compared(from, to)
    BY Zenon DEF ChartComplete
  <1>1. /\ now \in Nat /\ from \in Nat /\ to \in Nat /\ t \in Nat
        /\ from <= t /\ t <= to
        /\ t \in Times /\ t \in Kept
    <2>1. now \in Nat /\ \A u \in Kept : u \in Times
      BY RollupAssumption DEF StepInv, TypeOK, Times, Kept
    <2> QED BY <2>1
  <1>2. t \in queryHourly(from, to)
    BY <1>1, HourlyCovers
  <1>3. t \in WithinRaw => t \in queryRaw(from, to)
    BY <1>1, RawCovers DEF WithinRaw, queryRaw
  <1>4. to - from > HourlyFrom \/ t \in WithinRaw => t \in ReadRange(from, to)
    BY <1>1, <1>2, <1>3, RollupAssumption DEF ReadRange
  <1>5. ASSUME t \notin Excused PROVE t \in Compared(from, to)
    <2>1. CASE Widened(from, to)
      BY <1>2, <2>1 DEF Compared
    <2>2. CASE ~(to - from <= HourlyFrom)
      BY <1>4, <2>2, <1>1, RollupAssumption DEF Compared, Widened
    <2>3. CASE ~Widened(from, to) /\ to - from <= HourlyFrom
      <3>1. now <= t + Hot + Hour
        BY <1>1, <2>3, RollupAssumption DEF Widened
      <3>2. /\ Minus(now, Hot - Shift) \in Nat /\ Minus(now, Hot + Hour) \in Nat
            /\ Minus(now, Hot + Hour) <= t /\ t <= now
        BY <1>1, <3>1, RollupAssumption DEF Minus
      <3>3. t \in WithinRaw
        BY <1>1, <1>5, <3>2 DEF Excused, WithinRaw
      <3> QED BY <1>4, <2>3, <3>3 DEF Compared
    <2> QED BY <1>1, <2>1, <2>2, <2>3, RollupAssumption
  <1> QED BY <1>4, <1>5

\* At whatever point of rollup and retention, restarts and sleeps included, the
\* chart has every kept round of a window longer than a day and every one of a
\* shorter window that raw must still hold, and the comparison line every one of
\* any window but for an hour's worth (store.go: ReadRange; static/index.html:
\* fetchCompare).
THEOREM ChartIsComplete == Spec => []ChartComplete
  <1>1. Init => StepInv
    BY InitInv
  <1>2. StepInv /\ [Next]_vars => StepInv'
    BY NextInv
  <1> QED BY <1>1, <1>2, InvShowsAll, PTL DEF Spec

\* The console's own windows, which end now and are drawn from raw when they
\* are short, have every kept round and need no hour's grace: hence the
\* difference between HourlyFrom and the hot days.
OwnWindowComplete ==
  \A from \in 0..now : Kept \cap (from..now) \subseteq ReadRange(from, now)

\* No window that ends now misses a kept round, even on the days when the hot
\* days are cut an hour short (store.go: hourlyFrom, Retention).
THEOREM OwnWindowIsComplete == Spec => []OwnWindowComplete
  <1>1. Init => StepInv
    BY InitInv
  <1>2. StepInv /\ [Next]_vars => StepInv'
    BY NextInv
  <1>3. StepInv => OwnWindowComplete
    <2> SUFFICES ASSUME StepInv, NEW from \in 0..now, NEW t \in Kept \cap (from..now)
                 PROVE  t \in ReadRange(from, now)
      BY DEF OwnWindowComplete
    <2>1. /\ now \in Nat /\ from \in Nat /\ t \in Nat
          /\ from <= t /\ t <= now
      BY RollupAssumption DEF StepInv, TypeOK, Times
    <2>2. t \in queryHourly(from, now)
      BY <2>1, HourlyCovers
    <2>3. CASE now - from <= HourlyFrom
      <3>1. Minus(now, Hot - Shift) <= t
        BY <2>1, <2>3, RollupAssumption DEF Minus
      <3>2. t \in raw
        BY <3>1, RawCovers
      <3> QED BY <2>1, <2>2, <3>2 DEF ReadRange, queryRaw
    <2>4. CASE ~(now - from <= HourlyFrom)
      BY <2>2, <2>4 DEF ReadRange
    <2> QED BY <2>3, <2>4
  <1> QED BY <1>1, <1>2, <1>3, PTL DEF Spec

-----------------------------------------------------------------------------
(* No bucket is truncated.                                                 *)

\* What a rollup reads: every round of a bucket it touches, because it starts
\* at a full hour that retention has not reached.
LEMMA ReadsWhole ==
  ASSUME StepInv, Shift = 0, RollupRead
  PROVE  OutIsWhole'
  <1> DEFINE rows == {t \in raw : t >= Start}
  <1>1. rows \subseteq Times /\ now \in Nat /\ \A t \in Times : t \in Nat
    <2>1. raw \subseteq Times /\ now \in Times
      BY DEF StepInv, TypeOK
    <2>2. \A t \in Times : t \in Nat
      BY RollupAssumption DEF Times
    <2> QED BY <2>1, <2>2
  <1>2. /\ DOMAIN Aggregate(rows) = {AlignDown(t) : t \in rows}
        /\ DOMAIN Aggregate(rows) \subseteq Buckets
        /\ \A b \in DOMAIN Aggregate(rows) : Aggregate(rows)[b] = rows \cap InBucket(b)
    BY <1>1, AggregateIsRaw
  <1>3. /\ Start \in Nat /\ Start % Hour = 0 /\ Horizon \in Nat /\ Horizon <= Start
    BY <1>1, StartIsHour
  <1>4. ASSUME NEW b \in DOMAIN Aggregate(rows), NEW t \in hourly[b]
        PROVE  t \in Aggregate(rows)[b]
    <2>1. PICK u \in rows : b = AlignDown(u)
      BY <1>2
    <2>2. t \in Times /\ t \in InBucket(b) /\ AlignDown(t) = b /\ t \in Nat /\ u \in Nat /\ Start <= u
      BY <1>1, <1>2 DEF StepInv, TypeOK, InBucket
    <2>3. Start <= t
      BY <1>3, <2>1, <2>2, SameSide
    <2>4. Minus(now, Hot - Shift) <= t
      BY <1>1, <1>3, <2>2, <2>3, RollupAssumption DEF Horizon
    <2>5. t \in raw
      BY <1>2, <2>4 DEF StepInv, RawKeeps
    <2> QED BY <1>2, <2>2, <2>3, <2>5
  <1>5. hourly' = hourly /\ (out' = Idle \/ out' = [at |-> now, buckets |-> Aggregate(rows)])
    BY DEF RollupRead
  <1> HIDE DEF rows
  <1>6. CASE out' = Idle
    BY <1>6 DEF OutIsWhole
  <1>7. CASE out' = [at |-> now, buckets |-> Aggregate(rows)]
    <2>1. out'.buckets = Aggregate(rows)
      BY <1>7
    <2> QED BY <1>4, <1>5, <2>1 DEF OutIsWhole
  <1> QED BY <1>5, <1>6, <1>7

\* No other step adds to a bucket that a rollup under way is to replace.
LEMMA WholeInv ==
  ASSUME StepInv, OutIsWhole, Shift = 0, [Next]_vars
  PROVE  OutIsWhole'
  <1>1. CASE RollupRead
    BY <1>1, ReadsWhole
  <1>2. CASE Tick
    BY <1>2 DEF Tick, OutIsWhole
  <1>3. CASE Sleep \/ Flush \/ RollupFails \/ Stop \/ Restart \/ UNCHANGED vars
    BY <1>3 DEF Sleep, Flush, RollupFails, Stop, Restart, vars, OutIsWhole
  <1>4. CASE RollupWrite \/ Retention
    BY <1>4 DEF RollupWrite, Retention, OutIsWhole
  <1> QED BY <1>1, <1>2, <1>3, <1>4 DEF Next, Housekeeping

\* With days of 24 hours, a bucket never loses rounds before its retention: not
\* by a rollup after a restart, not by one after a sleep, not by one that reads
\* while rounds of its hour are being cut from raw (store.go: Rollup).
THEOREM BucketsOnlyGrow == Shift = 0 /\ Spec => NoTruncation
  <1> DEFINE Inv == StepInv /\ OutIsWhole
             Grows == \A b \in Buckets : hourly[b] \subseteq hourly'[b] \/ b < Minus(now, Keep)
  <1> SUFFICES ASSUME Shift = 0 PROVE Spec => NoTruncation
    OBVIOUS
  <1>1. Init => Inv
    BY InitInv
  <1>2. Inv /\ [Next]_vars => Inv'
    BY NextInv, WholeInv
  <1>3. Inv /\ [Next]_vars => [Grows]_vars
    <2> SUFFICES ASSUME Inv, Next PROVE Grows
      OBVIOUS
    <2>1. CASE RollupWrite
      BY <2>1 DEF RollupWrite, OutIsWhole
    <2>2. CASE Retention
      BY <2>2 DEF Retention
    <2>3. CASE Tick \/ Sleep \/ Flush \/ RollupRead \/ RollupFails \/ Stop \/ Restart
      BY <2>3 DEF Tick, Sleep, Flush, RollupRead, RollupFails, Stop, Restart
    <2> QED BY <2>1, <2>2, <2>3 DEF Next, Housekeeping
  <1> QED BY <1>1, <1>2, <1>3, PTL DEF Spec, NoTruncation

-----------------------------------------------------------------------------
(* No round is missed.                                                     *)

\* A later clock's horizon has a later next full hour.
LEMMA HorizonGrows ==
  ASSUME now \in Nat, now' \in Nat, now <= now'
  PROVE  /\ AlignUp(Horizon) \in Nat /\ AlignUp(Horizon') \in Nat
         /\ AlignUp(Horizon) <= AlignUp(Horizon')
  <1>1. Horizon \in Nat /\ Horizon' \in Nat /\ Horizon <= Horizon'
    <2>1. Horizon = Minus(now, Hot) /\ Horizon' = Minus(now', Hot) /\ Hot \in Nat
      BY RollupAssumption DEF Horizon
    <2> QED BY <2>1, MinusGrows
  <1> HIDE DEF Horizon
  <1>2. \A m, n \in Nat : m <= n => AlignUp(m) <= AlignUp(n)
    <2> TAKE m, n \in Nat
    <2> HAVE m <= n
    <2>1. /\ AlignUp(m) \in Nat /\ AlignUp(m) < m + Hour
          /\ AlignUp(n) \in Nat /\ AlignUp(n) % Hour = 0 /\ n <= AlignUp(n)
          /\ AlignUp(m) % Hour = 0
      BY UpIsHour
    <2>2. AlignUp(m) = AlignDown(m + Hour - 1) /\ AlignUp(n) = AlignDown(n + Hour - 1)
      BY DEF AlignUp, AlignDown
    <2>3. m + Hour - 1 \in Nat /\ n + Hour - 1 \in Nat /\ AlignUp(m) <= m + Hour - 1
      BY <2>1, RollupAssumption
    <2>4. AlignUp(m) <= n + Hour - 1
      BY <2>1, <2>3, RollupAssumption
    <2> QED BY <2>1, <2>2, <2>3, <2>4, DownIsLast
  <1> QED BY <1>1, <1>2, UpIsHour

\* The two hours a rollup looks back are longer than the last one can be away.
WindowReaches == MaxSleep <= Hour /\ MaxGap + MaxSleep <= Window

\* So what was flushed after the last rollup is read by this one.
LEMMA RecentIsRead ==
  ASSUME StepInv, WindowReaches, last # Never,
         NEW t \in Times, AlignUp(Horizon) <= t, last <= t + MaxSleep
  PROVE  Start <= t
  <1>1. now \in Nat /\ t \in Nat /\ last \in Nat
    BY RollupAssumption DEF StepInv, TypeOK, Times
  <1>2. now <= t + Window
    BY <1>1, RollupAssumption DEF StepInv, LastIsNear, WindowReaches, Window
  <1> QED BY <1>1, <1>2, StartIsHour

MissInv == StepInv /\ MissedIsRecent /\ OutLeaves

\* What a rollup does not read is in a bucket that it does not replace.
LEMMA ReadsMissed ==
  ASSUME MissInv, WindowReaches, RollupRead
  PROVE  MissedIsRecent' /\ OutLeaves'
  <1> DEFINE rows == {t \in raw : t >= Start}
  <1>1. raw \subseteq Times /\ now \in Nat /\ \A t \in Times : t \in Nat
    <2>1. raw \subseteq Times /\ now \in Times
      BY DEF MissInv, StepInv, TypeOK
    <2> QED BY <2>1, RollupAssumption DEF Times
  <1>2. rows \subseteq Times /\ rows \subseteq raw
    BY <1>1
  <1>3. /\ DOMAIN Aggregate(rows) = {AlignDown(t) : t \in rows}
        /\ DOMAIN Aggregate(rows) \subseteq Buckets
        /\ \A b \in DOMAIN Aggregate(rows) : Aggregate(rows)[b] = rows \cap InBucket(b)
    BY <1>2, AggregateIsRaw
  <1>4. /\ Start \in Nat /\ Start % Hour = 0 /\ Horizon \in Nat
        /\ last = Never => Start <= AlignUp(Horizon)
    BY <1>1, StartIsHour
  <1>5. AlignUp(Horizon) \in Nat
    BY <1>4, UpIsHour
  <1>6. ASSUME NEW t \in raw, AlignUp(Horizon) <= t, t \notin rows
        PROVE  t \in hourly[AlignDown(t)] /\ AlignDown(t) \notin DOMAIN Aggregate(rows)
    <2>1. t \in Times /\ t \in Nat /\ ~(Start <= t)
      BY <1>1, <1>4, <1>6
    <2>2. last # Never
      BY <1>4, <1>5, <1>6, <2>1
    <2>3. t \in hourly[AlignDown(t)] \/ last <= t + MaxSleep
      BY <1>6, <2>2 DEF MissInv, MissedIsRecent
    <2>4. t \in hourly[AlignDown(t)]
      BY <1>6, <2>1, <2>2, <2>3, RecentIsRead DEF MissInv
    <2>5. \A u \in rows : AlignDown(u) # AlignDown(t)
      <3> SUFFICES ASSUME NEW u \in rows, AlignDown(u) = AlignDown(t) PROVE FALSE
        OBVIOUS
      <3>1. u \in Nat /\ Start <= u
        BY <1>1
      <3> QED BY <1>4, <2>1, <3>1, SameSide
    <2> QED BY <1>3, <2>4, <2>5
  <1>7. ASSUME NEW t \in rows
        PROVE  AlignDown(t) \in DOMAIN Aggregate(rows) /\ t \in Aggregate(rows)[AlignDown(t)]
    BY <1>2, <1>3, BucketOf
  <1>8. /\ UNCHANGED <<now, raw, hourly>>
        /\ \/ rows = {} /\ last' = now /\ out' = Idle
           \/ last' = last /\ out = Idle /\ out' = [at |-> now, buckets |-> Aggregate(rows)]
    BY DEF RollupRead
  <1> HIDE DEF rows
  <1>9. CASE rows = {} /\ last' = now /\ out' = Idle
    BY <1>6, <1>8, <1>9 DEF MissedIsRecent, OutLeaves, Horizon
  <1>10. CASE last' = last /\ out' = [at |-> now, buckets |-> Aggregate(rows)]
    <2>1. MissedIsRecent'
      BY <1>8, <1>10 DEF MissInv, MissedIsRecent, Horizon
    <2>2. out'.buckets = Aggregate(rows)
      BY <1>10
    <2>3. OutLeaves'
      BY <1>6, <1>7, <1>8, <2>2 DEF OutLeaves, Horizon
    <2> QED BY <2>1, <2>3
  <1> QED BY <1>8, <1>9, <1>10

\* Retention drops only buckets whose rounds raw has lost already.
LEMMA RetentionMisses ==
  ASSUME MissInv, Retention
  PROVE  MissedIsRecent' /\ OutLeaves'
  <1>1. raw' \subseteq raw /\ raw \subseteq Times /\ now \in Nat /\ UNCHANGED <<now, last, out>> /\ out = Idle
    <2>1. raw \subseteq Times /\ now \in Times
      BY DEF MissInv, StepInv, TypeOK
    <2> QED BY <2>1, RollupAssumption DEF Retention, Times
  <1>2. ASSUME NEW t \in raw, AlignUp(Horizon) <= t
        PROVE  hourly'[AlignDown(t)] = hourly[AlignDown(t)]
    <2>1. t \in Times /\ t \in Nat
      BY <1>1, RollupAssumption DEF Times
    <2>2. /\ Horizon \in Nat /\ AlignUp(Horizon) \in Nat
          /\ Horizon <= AlignUp(Horizon) /\ AlignUp(Horizon) % Hour = 0
      BY <1>1, StartIsHour, UpIsHour
    <2>3. AlignUp(Horizon) <= AlignDown(t) /\ AlignDown(t) \in Nat
      BY <1>2, <2>1, <2>2, DownIsLast, DownIsHour
    <2>4. Minus(now, Keep) <= Horizon /\ Minus(now, Keep) \in Nat
      BY <1>1, RollupAssumption DEF Horizon, Minus
    <2>5. AlignDown(t) \in Buckets /\ ~(AlignDown(t) < Minus(now, Keep))
      BY <2>1, <2>2, <2>3, <2>4, BucketOf
    <2> QED BY <2>5 DEF Retention
  <1>3. MissedIsRecent'
    BY <1>1, <1>2 DEF MissInv, MissedIsRecent, Horizon
  <1> QED BY <1>1, <1>3 DEF OutLeaves

\* The other steps.
LEMMA MissNext ==
  ASSUME MissInv, WindowReaches, [Next]_vars
  PROVE  MissInv'
  <1> USE DEF MissInv
  <1>0. StepInv'
    BY NextInv
  <1>1. CASE RollupRead
    BY <1>0, <1>1, ReadsMissed
  <1>2. CASE Retention
    BY <1>0, <1>2, RetentionMisses
  <1>3. CASE Tick \/ Sleep
    <2>1. now \in Nat /\ now' \in Nat /\ now <= now' /\ raw \subseteq Times /\ \A t \in Times : t \in Nat
      <3>1. raw \subseteq Times /\ now \in Times /\ now' \in Times
        BY <1>0 DEF StepInv, TypeOK
      <3>2. now \in Nat /\ now' \in Nat /\ \A t \in Times : t \in Nat
        BY <3>1, RollupAssumption DEF Times
      <3> QED BY <1>3, <3>1, <3>2 DEF Tick, Sleep
    <2>2. UNCHANGED <<last, raw, hourly, out>> /\ out = Idle
      BY <1>3 DEF Tick, Sleep, StepInv, DownIsEmpty
    <2>3. /\ AlignUp(Horizon) \in Nat /\ AlignUp(Horizon') \in Nat
          /\ AlignUp(Horizon) <= AlignUp(Horizon')
      BY <2>1, HorizonGrows
    <2>5. \A t \in raw : AlignUp(Horizon') <= t => AlignUp(Horizon) <= t
      BY <2>1, <2>3
    <2>6. MissedIsRecent'
      BY <2>2, <2>5 DEF MissedIsRecent
    <2> QED BY <1>0, <2>2, <2>6 DEF OutLeaves
  <1>4. CASE Flush
    <2>1. \A t \in buffered : now <= t + MaxSleep
      BY DEF StepInv, BufferedIsRecent
    <2>2. last # Never => \A t \in buffered : last <= t + MaxSleep
      <3>1. now \in Nat /\ last \in Times \cup {Never} /\ \A t \in buffered : t \in Nat
        BY RollupAssumption DEF StepInv, TypeOK, Times
      <3> QED BY <2>1, <3>1, RollupAssumption DEF StepInv, LastIsNear, Times
    <2>3. MissedIsRecent' /\ OutLeaves'
      BY <1>4, <2>1, <2>2 DEF Flush, MissedIsRecent, OutLeaves, Horizon
    <2> QED BY <1>0, <2>3
  <1>5. CASE RollupWrite
    <2>1. /\ UNCHANGED <<now, raw>> /\ out # Idle /\ last' = now /\ out' = Idle
          /\ raw \subseteq Times
      BY <1>5 DEF RollupWrite, StepInv, OutIsRaw, TypeOK
    <2>2. \A t \in raw : AlignDown(t) \in Buckets
      BY <2>1, BucketOf
    <2>3. MissedIsRecent'
      BY <1>5, <2>1, <2>2 DEF RollupWrite, MissedIsRecent, OutLeaves, Horizon
    <2> QED BY <1>0, <2>1, <2>3 DEF OutLeaves
  <1>6. CASE RollupFails \/ Stop \/ Restart \/ UNCHANGED vars
    <2>1. /\ UNCHANGED <<now, raw, hourly>>
          /\ last' = last \/ last' = Never
          /\ out' = out \/ out' = Idle
      BY <1>6 DEF RollupFails, Stop, Restart, vars
    <2>2. MissedIsRecent' /\ OutLeaves'
      BY <2>1, RollupAssumption DEF MissedIsRecent, OutLeaves, Horizon, Never
    <2> QED BY <1>0, <2>2
  <1> QED BY <1>1, <1>2, <1>3, <1>4, <1>5, <1>6 DEF Next, Housekeeping

\* As long as rollups are no further apart than the two hours they look back
\* allow, and the host sleeps no longer than one of them, every round in raw is
\* in its bucket or will be read by the next rollup: over failed rollups and
\* restarts, and for a round flushed while one was under way (app.go:
\* rollupSched; store.go: Rollup).
THEOREM NoRoundMissed == WindowReaches /\ Spec => []NoneMissed
  <1> SUFFICES ASSUME WindowReaches PROVE Spec => []NoneMissed
    OBVIOUS
  <1>1. Init => MissInv
    BY InitInv DEF MissInv
  <1>2. MissInv /\ [Next]_vars => MissInv'
    BY MissNext
  <1>3. MissInv => NoneMissed
    <2> SUFFICES ASSUME MissInv, last # Never, NEW t \in raw, AlignUp(Horizon) <= t,
                        t \notin hourly[AlignDown(t)]
                 PROVE  t >= Start
      BY DEF NoneMissed
    <2>1. t \in Times /\ t \in Nat /\ now \in Nat
      BY RollupAssumption DEF MissInv, StepInv, TypeOK, Times
    <2>2. last <= t + MaxSleep
      BY DEF MissInv, MissedIsRecent
    <2>3. Start \in Nat /\ Start <= t
      BY <2>1, <2>2, RecentIsRead, StartIsHour DEF MissInv
    <2> QED BY <2>1, <2>3
  <1> QED BY <1>1, <1>2, <1>3, PTL DEF Spec

=============================================================================
