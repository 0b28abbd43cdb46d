------------------------------- MODULE Rollup -------------------------------
(***************************************************************************)
(* The hourly tier: rollupSched.tick, Rollup and Retention as housekeeping *)
(* runs them (store.go, app.go), while time passes, rounds are stored, the *)
(* process restarts and the host sleeps; and what the chart is given of    *)
(* the two tiers (ReadRange, and fetchCompare in static/index.html).         *)
(*                                                                         *)
(* One target.  A bucket's percentiles, loss and counts are a function of  *)
(* the rounds it was computed from, so a bucket IS that set of rounds, and *)
(* a round is the instant it began.  Time is counted in units smaller than *)
(* an hour; a probing process stores one round in each.                    *)
(***************************************************************************)
EXTENDS Naturals, FiniteSets

CONSTANTS Hour,       \* bucketSec, in units
          Hot,        \* HotDays
          Keep,       \* RetentionDays
          HourlyFrom, \* longer windows are drawn from the hourly tier
          Every,      \* five minutes
          MaxGap,     \* how long successful rollups may be apart while awake
          Shift,      \* how much shorter than 24h days the hot days may be (DST)
          MaxSleep,   \* how far past the last rollup the host may sleep
          MaxTime,    \* bound on the clock
          Idle        \* no Rollup is under way

Window == 2 * Hour    \* rollups after the first look back two hours

ASSUME RollupAssumption ==
  /\ Hour \in Nat \ {0} /\ Hot \in Nat /\ Keep \in Nat /\ Every \in Nat
  /\ MaxGap \in Nat /\ Shift \in Nat /\ MaxTime \in Nat
  /\ Window <= Hot /\ Shift <= Hot /\ Hot <= Keep
  /\ MaxSleep \in Nat
  /\ HourlyFrom \in Nat /\ HourlyFrom + Shift <= Hot

VARIABLES
  now,
  up,        \* is the process running?
  last,      \* rollupSched.last, or Never in a new process
  started,   \* when the process started
  buffered,  \* rounds of this process that are not flushed yet
  raw,       \* rounds table
  out,       \* when Rollup began and what it has read, or Idle
  hourly     \* rounds_hourly table: bucket -> rounds it was computed from

vars == <<now, up, last, started, buffered, raw, out, hourly>>

Times == 0..MaxTime
Buckets == {b \in Times : b % Hour = 0}
Never == MaxTime + 1

-----------------------------------------------------------------------------
AlignDown(t) == (t \div Hour) * Hour
AlignUp(t) == ((t + Hour - 1) \div Hour) * Hour
Minus(t, d) == IF t < d THEN 0 ELSE t - d
InBucket(b) == {t \in Times : AlignDown(t) = b}

\* The last rollup of this process, or its start.
LastRollup == IF last = Never THEN started ELSE last

\* The oldest instant raw is guaranteed to hold.
Horizon == Minus(now, Hot)

\* Mutant: no catch-up on the first tick.
SinceRecent == Minus(now, Window)

\* First tick of a process: everything raw holds; then the last two hours.
Since == IF last = Never THEN Horizon ELSE Minus(now, Window)

\* Mutant: no alignment at all.
StartUnaligned == Since

\* Where the recompute starts: never inside a bucket, never before the horizon.
Start ==
  IF AlignDown(Since) < Horizon THEN AlignUp(Horizon) ELSE AlignDown(Since)

Init ==
  /\ now = 0 /\ up = TRUE /\ last = Never /\ started = 0
  /\ buffered = {} /\ raw = {} /\ out = Idle
  /\ hourly = [b \in Buckets |-> {}]

-----------------------------------------------------------------------------
\* Time passes.  Awake, a round begins in every unit, flushLoop has stored the
\* one before, and the rollup is not behind by more than MaxGap; a process
\* that is down does nothing.
Tick ==
  /\ now < MaxTime
  /\ up => buffered = {} /\ out = Idle /\ now - LastRollup < MaxGap
  /\ now' = now + 1
  /\ buffered' = IF up THEN {now'} ELSE {}
  /\ UNCHANGED <<up, last, started, raw, out, hourly>>

\* The host sleeps: the clock jumps over everything the process would have
\* done, rollups and the flush of its last round included.
Sleep ==
  /\ up /\ out = Idle
  /\ now' \in {t \in Times : now < t /\ t <= LastRollup + MaxSleep}
  /\ \A t \in buffered : now' <= t + MaxSleep
  /\ UNCHANGED <<up, last, started, buffered, raw, out, hourly>>

Flush ==
  /\ buffered # {}
  /\ raw' = raw \cup buffered
  /\ buffered' = {}
  /\ UNCHANGED <<now, up, last, started, out, hourly>>

Due == last = Never \/ now - last >= Every

\* Mutant: the samples of a bucket are not reset for the next one.
AggregateAll(rows) == [b \in {AlignDown(t) : t \in rows} |-> rows]

\* One streaming pass over the rows, bucket by bucket.
Aggregate(rows) == [b \in {AlignDown(t) : t \in rows} |-> rows \cap InBucket(b)]

\* The SELECT from Start on; nothing to write is a success, too.
RollupRead ==
  /\ up /\ out = Idle /\ Due
  /\ LET rows == {t \in raw : t >= Start} IN
     IF rows = {} THEN last' = now /\ out' = out
     ELSE last' = last /\ out' = [at |-> now, buckets |-> Aggregate(rows)]
  /\ UNCHANGED <<now, up, started, buffered, raw, hourly>>

\* The transaction that replaces those buckets.
RollupWrite ==
  /\ out # Idle
  /\ hourly' = [b \in Buckets |-> IF b \in DOMAIN out.buckets THEN out.buckets[b] ELSE hourly[b]]
  /\ last' = out.at
  /\ out' = Idle
  /\ UNCHANGED <<now, up, started, buffered, raw>>

\* An error is logged; last is left alone, so the next tick tries again.
RollupFails ==
  /\ out # Idle
  /\ out' = Idle
  /\ UNCHANGED <<now, up, last, started, buffered, raw, hourly>>

\* Nightly, five minutes past a full hour, by the calendar: on the days after
\* clocks go forward, HotDays calendar days are an hour short of HotDays * 24h.
Retention ==
  /\ up /\ out = Idle
  /\ now % Hour # 0
  /\ \E s \in {0, Shift} :
       raw' = {t \in raw : t >= Minus(now, Hot - s)}
  /\ hourly' = [b \in Buckets |-> IF b < Minus(now, Keep) THEN {} ELSE hourly[b]]
  /\ UNCHANGED <<now, up, last, started, buffered, out>>

Stop ==
  /\ up
  /\ up' = FALSE
  /\ out' = Idle /\ buffered' = {} /\ last' = Never
  /\ UNCHANGED <<now, started, raw, hourly>>

\* The first round of a process falls into the unit after its start (a bound).
Restart ==
  /\ ~up
  /\ up' = TRUE
  /\ started' = now
  /\ UNCHANGED <<now, last, buffered, raw, out, hourly>>

Housekeeping == RollupRead \/ RollupWrite \/ RollupFails \/ Retention

Next == Tick \/ Sleep \/ Flush \/ Housekeeping \/ Stop \/ Restart

Spec == Init /\ [][Next]_vars

-----------------------------------------------------------------------------
(* What a chart shows.                                                     *)
queryRaw(from, to) == raw \cap (from..to)

\* Mutant: the bucket that straddles `from` is left out.
queryHourlyStrict(from, to) == UNION {hourly[b] : b \in Buckets \cap (from..to)}

\* A bucket is stamped with its start: those that begin up to an hour before
\* `from` have rounds of the window.
queryHourly(from, to) ==
  UNION {hourly[b] : b \in {c \in Buckets : from < c + Hour /\ c <= to}}

ReadRange(from, to) ==
  IF to - from <= HourlyFrom THEN queryRaw(from, to) ELSE queryHourly(from, to)

\* The comparison line of the page asks for a longer window, and cuts the answer
\* back, when its own may be older than what raw holds.  Nothing else on the page
\* does: a custom window is asked for as it is.
Widened(from, to) == to - from <= HourlyFrom /\ from + Hot + Hour < now

\* What the comparison line is drawn from.
Compared(from, to) ==
  IF Widened(from, to) THEN queryHourly(from, to) ELSE ReadRange(from, to)

-----------------------------------------------------------------------------
(* Properties.                                                             *)

\* The types, and every bucket holds rounds of its own hour.
TypeOK ==
  /\ now \in Times /\ started \in Times
  /\ up \in BOOLEAN
  /\ last \in Times \cup {Never}
  /\ buffered \subseteq Times /\ raw \subseteq Times
  /\ out # Idle => out.at \in Times /\ \A b \in DOMAIN out.buckets : out.buckets[b] \subseteq InBucket(b)
  /\ hourly \in [Buckets -> SUBSET Times]
  /\ \A b \in Buckets : hourly[b] \subseteq InBucket(b)

\* A bucket never loses rounds before retention drops it whole: no recompute
\* replaces it by one made from what retention has left of its hour
\* (store.go:447-451: "a bucket may only be recomputed while raw still holds
\* all of it").
NoTruncation ==
  [][\A b \in Buckets : hourly[b] \subseteq hourly'[b] \/ b < Minus(now, Keep)]_vars

\* No round falls between two rollups: one that raw holds is in its bucket, or
\* the next rollup will still read it (store.go:16-18: the hourly rollup keeps
\* "the shape" of raw "for the whole retention window"; store.go:536-538).
NoneMissed ==
  up /\ last # Never =>
    \A t \in raw : AlignUp(Horizon) <= t => t \in hourly[AlignDown(t)] \/ t >= Start

\* The rounds that are in a bucket.
Kept == UNION {hourly[b] : b \in Buckets}

\* Those that raw still has, whatever retention did.
WithinRaw == Minus(now, Hot - Shift)..now

\* Those retention may have cut from raw although a comparison that has them is
\* not widened yet: an hour's worth.
Excused == (Minus(now, Hot + Hour)..now) \ WithinRaw

\* What is drawn misses no round that a rollup has kept, although raw is cut
\* nightly and a bucket is stamped with its start.  The chart itself has every
\* kept round of a window longer than a day, and of a shorter one those that are
\* not older than raw (a short custom window further back is drawn empty).  The
\* comparison line has those of any window, however old, but for the hour by
\* which the page lets retention be late; of a longer one it asks what the chart
\* asks (store.go:15-18, 370-376, static/index.html:490-508).
ChartComplete ==
  LET kept == Kept
      reached == kept \cap WithinRaw
      told == kept \ Excused
  IN  \A from \in 0..now : \A to \in from..now :
        IF to - from > HourlyFrom
        THEN kept \cap (from..to) \subseteq ReadRange(from, to)
        ELSE /\ reached \cap (from..to) \subseteq ReadRange(from, to)
             /\ told \cap (from..to) \subseteq Compared(from, to)

=============================================================================
