------------------------------- MODULE MCEcho -------------------------------
(***************************************************************************)
(* Instances of Echo for TLC, and of the mark a round is given afterwards. *)
(***************************************************************************)
EXTENDS Echo, Detector, TLC

EchoSymmetry == Permutations(Rounds)

-----------------------------------------------------------------------------
Probes == 8
Losses == 0..Probes
Pasts == UNION {[1..k -> {0, 1, 2, 5}] : k \in 1..5}
LongPasts == {h \in Pasts : Len(h) >= Warm}

\* What sorting is taken to do is what sorting does.
ASSUME SortIsAscending == \A h \in Pasts : Ascending(h) = SortSeq(h, <)

\* Outages do not hide the next one: while more than half of the window lost
\* nothing, two lost probes that are a tenth of the round are marked, however
\* much the rest of the window lost.
ASSUME OutagesDoNotHide ==
  \A h \in {p \in LongPasts : Healthy(p)}, x \in Losses :
    CheckBurst(h, Probes, x) <=> x >= 2

\* A round that is marked for its score lost more than the median of the
\* window.
ASSUME ScoreStandsOut ==
  \A h \in LongPasts, x \in Losses :
    CheckBurst(h, Probes, x) /\ ~Negative(x, h) => 2 * x > Median2(h)

\* One that is marked because the score was negative need not: the fallback
\* "MAD=0: the healthy all-zero-loss baseline" (detect.go:34) is also taken by
\* a round that is better than its window.
ASSUME BetterIsMarked ==
  \E h \in LongPasts, x \in Losses :
    CheckBurst(h, Probes, x) /\ 2 * x < Median2(h) /\ Mad4(h) # 0

=============================================================================
