-------------------------------- MODULE Echo --------------------------------
(***************************************************************************)
(* A probe round (icmp_unix.go, icmp_windows.go, probe.go): a number of    *)
(* packets, and which answers count as whose.                              *)
(*                                                                         *)
(* On Unix a round sends its packets from one socket and reads what comes  *)
(* in after each one; a raw socket is given the answers to everybody's     *)
(* packets, a datagram socket its own, or late ones to an earlier socket   *)
(* with the same identifier.  On Windows each packet is a blocking call in *)
(* a goroutine of its own, and a TCP round connects one time after the     *)
(* other; there the system says which answer is whose.  The network loses, *)
(* delays, reorders and repeats answers.                                   *)
(*                                                                         *)
(* Time passes only while nobody has anything to do: a process is much     *)
(* faster than the network it measures.  A round that has no address or no *)
(* socket is no step.                                                      *)
(***************************************************************************)
EXTENDS Naturals, FiniteSets

CONSTANTS
  Rounds,    \* rounds of one process, each with a nonce of its own
  Other,     \* somebody else's packets
  Packets, Gap, Timeout,
  InFlight,  \* 8 in the code
  Kinds,     \* the kinds of rounds there are: "raw", "dgram", "helper", "tcp"
  MaxTime    \* bound on the clock

ASSUME EchoAssumption ==
  /\ Other \notin Rounds
  /\ {Packets, Gap, Timeout, InFlight} \subseteq Nat \ {0}
  /\ InFlight * Gap <= Timeout
  /\ Kinds \subseteq {"raw", "dgram", "helper", "tcp"}
  /\ MaxTime \in Nat

VARIABLES
  clock,
  kind,      \* of the rounds of this behavior
  pc,        \* where each round is: idle, send, gap, tail, calls, done, failed
  began,     \* when it began
  i,         \* the packet it is at (Unix)
  until,     \* when its window ends; in a TCP round, when the gap does
  call,      \* its calls: wait, out, over
  opened,    \* a handle could be had for one of them
  sendAt,    \* when each packet was sent
  got,       \* the packets that were answered
  R,         \* how many answers were counted
  samples,   \* MS: is it the time that the answer to one's own packet took?
  broken,    \* history: reading the socket failed
  came,      \* history: packets whose answer came while the round could read it
  net,       \* answers on their way
  inbox      \* answers a socket holds

time == <<clock, kind>>
vars == <<time, pc, began, i, until, call, opened, sendAt, got, R, samples, broken,
          came, net, inbox>>

Seqs == 0..Packets - 1
Unix == kind \in {"raw", "dgram"}
Open == {q \in Rounds : pc[q] \in {"send", "gap", "tail"}}
Out(q) == {k \in Seqs : call[q][k] = "out"}

Init ==
  /\ clock = 0 /\ kind \in Kinds
  /\ pc = [q \in Rounds |-> "idle"]
  /\ began = [q \in Rounds |-> 0] /\ i = [q \in Rounds |-> 0]
  /\ until = [q \in Rounds |-> 0]
  /\ call = [q \in Rounds |-> [k \in Seqs |-> "wait"]]
  /\ opened = {}
  /\ sendAt = [q \in Rounds |-> [k \in Seqs |-> 0]]
  /\ got = [q \in Rounds |-> {}] /\ R = [q \in Rounds |-> 0]
  /\ samples = [q \in Rounds |-> {}]
  /\ broken = {} /\ came = [q \in Rounds |-> {}]
  /\ net = {} /\ inbox = [q \in Rounds |-> {}]

\* The socket is closed, and what the function kept for itself is gone.
Return(q, how) ==
  /\ pc' = [pc EXCEPT ![q] = how]
  /\ began' = [began EXCEPT ![q] = 0]
  /\ i' = [i EXCEPT ![q] = 0]
  /\ until' = [until EXCEPT ![q] = 0]
  /\ sendAt' = [sendAt EXCEPT ![q] = [k \in Seqs |-> 0]]
  /\ inbox' = [inbox EXCEPT ![q] = {}]

\* Rounds that share no socket do not meet: one of them is enough (a bound).
Begin(q) ==
  /\ pc[q] = "idle"
  /\ Unix \/ \A p \in Rounds : pc[p] = "idle"
  /\ pc' = [pc EXCEPT ![q] = IF Unix THEN "send" ELSE "calls"]
  /\ began' = [began EXCEPT ![q] = clock]
  /\ UNCHANGED <<time, i, until, call, opened, sendAt, got, R, samples, broken, came, net, inbox>>

-----------------------------------------------------------------------------

(***************************************************************************)
(* Unix.  A packet that cannot be sent has no window.                      *)
(***************************************************************************)
Sent(q) == sendAt' = [sendAt EXCEPT ![q][i[q]] = clock]

\* Mutant: each packet waits for its answer.
SendPatient(q) ==
  /\ pc[q] = "send" /\ i[q] < Packets
  /\ Sent(q)
  /\ net' = net \cup {[of |-> q, seq |-> i[q], sent |-> clock]}
  /\ pc' = [pc EXCEPT ![q] = "gap"]
  /\ until' = [until EXCEPT ![q] = clock + Timeout]
  /\ UNCHANGED <<time, began, i, call, opened, got, R, samples, broken, came, inbox>>

Send(q) ==
  /\ pc[q] = "send" /\ i[q] < Packets
  /\ Sent(q)
  /\ net' = net \cup {[of |-> q, seq |-> i[q], sent |-> clock]}
  /\ pc' = [pc EXCEPT ![q] = "gap"]
  /\ until' = [until EXCEPT ![q] = clock + Gap]
  /\ UNCHANGED <<time, began, i, call, opened, got, R, samples, broken, came, inbox>>

SendFails(q) ==
  /\ pc[q] = "send" /\ i[q] < Packets
  /\ Sent(q)
  /\ i' = [i EXCEPT ![q] = @ + 1]
  /\ UNCHANGED <<time, pc, began, until, call, opened, got, R, samples, broken, came, net, inbox>>

AllSent(q) ==
  /\ pc[q] = "send" /\ i[q] = Packets
  /\ pc' = [pc EXCEPT ![q] = "tail"]
  /\ until' = [until EXCEPT ![q] = clock + Timeout]
  /\ UNCHANGED <<time, began, i, call, opened, sendAt, got, R, samples, broken, came, net, inbox>>

(***************************************************************************)
(* collect: what comes in before the deadline is read; an answer counts    *)
(* once, and only with the nonce of the round.  What is still unread when  *)
(* the window ends is read in the next one.                                *)
(***************************************************************************)
\* Mutant: the identifier is the process's, so any answer to it will do.
MatchesAny(q, m) == m.seq \in Seqs /\ m.seq \notin got[q]

\* Mutant: an answer that is late is taken for lost.
MatchesLatest(q, m) == m.of = q /\ m.seq = i[q] /\ m.seq \notin got[q]

Matches(q, m) == m.of = q /\ m.seq \in Seqs /\ m.seq \notin got[q]

Reading(q) == pc[q] \in {"gap", "tail"} /\ clock < until[q]

Recv(q) ==
  /\ Reading(q)
  /\ \E m \in inbox[q] :
       /\ inbox' = [inbox EXCEPT ![q] = @ \ {m}]
       /\ IF Matches(q, m)
          THEN /\ got' = [got EXCEPT ![q] = @ \cup {m.seq}]
               /\ R' = [R EXCEPT ![q] = @ + 1]
               /\ samples' = [samples EXCEPT ![q] =
                  @ \cup {m.of = q /\ clock - sendAt[q][m.seq] = m.came - m.sent}]
          ELSE UNCHANGED <<got, R, samples>>
  /\ UNCHANGED <<time, pc, began, i, until, call, opened, sendAt, broken, came, net>>

WindowEnds(q) ==
  /\ pc[q] \in {"gap", "tail"}
  /\ \/ clock >= until[q] /\ UNCHANGED broken
     \/ broken = {} /\ broken' = {q}      \* once: a bound
  /\ IF pc[q] = "gap"
     THEN /\ pc' = [pc EXCEPT ![q] = "send"] /\ i' = [i EXCEPT ![q] = @ + 1]
          /\ UNCHANGED <<began, until, sendAt, inbox>>
     ELSE Return(q, "done")
  /\ UNCHANGED <<time, call, opened, got, R, samples, came, net>>

-----------------------------------------------------------------------------

(***************************************************************************)
(* Windows and TCP.  Packet k goes out k gaps after the beginning, or when *)
(* one of the InFlight places is free; a TCP packet a gap after the one    *)
(* before it.                                                              *)
(***************************************************************************)
Due(q, k) ==
  IF kind = "helper"
  THEN clock >= began[q] + k * Gap /\ Cardinality(Out(q)) < InFlight
  ELSE (\A j \in Seqs : j < k <=> call[q][j] = "over") /\ Out(q) = {} /\ clock >= until[q]

Over(q, k) ==
  /\ call' = [call EXCEPT ![q][k] = "over"]
  /\ until' = [until EXCEPT ![q] = IF kind = "tcp" THEN clock + Gap ELSE @]

Call(q, k) ==
  /\ pc[q] = "calls" /\ call[q][k] = "wait" /\ Due(q, k)
  /\ sendAt' = [sendAt EXCEPT ![q][k] = clock]
  /\ \/ call' = [call EXCEPT ![q][k] = "out"] /\ opened' = opened \cup {q} /\ UNCHANGED until
     \/ kind = "helper" /\ Over(q, k) /\ UNCHANGED opened
  /\ UNCHANGED <<time, pc, began, i, got, R, samples, broken, came, net, inbox>>

Answered(q, k) ==
  /\ call[q][k] = "out" /\ clock < sendAt[q][k] + Timeout
  /\ Over(q, k)
  /\ got' = [got EXCEPT ![q] = @ \cup {k}]
  /\ R' = [R EXCEPT ![q] = @ + 1]
  /\ UNCHANGED <<time, pc, began, i, opened, sendAt, samples, broken, came, net, inbox>>

\* Refused at once, or not answered in time.
Lost(q, k) ==
  /\ call[q][k] = "out"
  /\ Over(q, k)
  /\ UNCHANGED <<time, pc, began, i, opened, sendAt, got, R, samples, broken, came, net, inbox>>

\* A round for which no handle could be had is a failure, not a loss.
CallsOver(q) ==
  /\ pc[q] = "calls" /\ \A k \in Seqs : call[q][k] = "over"
  /\ Return(q, IF q \in opened THEN "done" ELSE "failed")
  /\ UNCHANGED <<time, call, opened, got, R, samples, broken, came, net>>

-----------------------------------------------------------------------------

(***************************************************************************)
(* The network.  An answer that has come may come again.                   *)
(***************************************************************************)
Readable(q) == q \in Open /\ (pc[q] = "tail" => clock < until[q])

Sockets(owner) ==
  IF kind = "raw" THEN {Open} ELSE IF owner \in Open THEN {{owner}} ELSE {{q} : q \in Open}

Delivered(owner, m) ==
  \E Q \in Sockets(owner) :
    inbox' = [q \in Rounds |-> IF q \in Q THEN inbox[q] \cup {m} ELSE inbox[q]]

\* One comes at a time: reading it takes less than the time between two.
Quiet == Open # {} /\ \A q \in Rounds : inbox[q] = {}

Arrive ==
  /\ Quiet
  /\ \E m \in net :
       /\ Delivered(m.of, [of |-> m.of, seq |-> m.seq, sent |-> m.sent, came |-> clock])
       /\ net' \in {net, net \ {m}}
       /\ came' = [came EXCEPT ![m.of] = IF Readable(m.of) THEN @ \cup {m.seq} ELSE @]
  /\ UNCHANGED <<time, pc, began, i, until, call, opened, sendAt, got, R, samples, broken>>

ArriveForeign ==
  /\ kind = "raw" /\ Quiet
  /\ \E k \in Seqs :
       Delivered(Other, [of |-> Other, seq |-> k, sent |-> 0, came |-> 0])
  /\ UNCHANGED <<time, pc, began, i, until, call, opened, sendAt, got, R, samples, broken,
                 came, net>>

Idle(q) ==
  /\ pc[q] # "send"
  /\ pc[q] \in {"gap", "tail"} => clock < until[q] /\ inbox[q] = {}
  /\ pc[q] = "calls" =>
       /\ \E k \in Seqs : call[q][k] # "over"
       /\ \A k \in Seqs : ~(call[q][k] = "wait" /\ Due(q, k))
       /\ \A k \in Out(q) : clock < sendAt[q][k] + Timeout

Tick ==
  /\ clock < MaxTime
  /\ \A q \in Rounds : Idle(q)
  /\ clock' = clock + 1
  /\ UNCHANGED <<kind, pc, began, i, until, call, opened, sendAt, got, R, samples, broken,
                 came, net, inbox>>

Calls(q) == CallsOver(q) \/ \E k \in Seqs : Call(q, k) \/ Answered(q, k) \/ Lost(q, k)

Next ==
  \/ \E q \in Rounds :
       \/ Begin(q) \/ Send(q) \/ SendFails(q) \/ AllSent(q) \/ Recv(q) \/ WindowEnds(q)
       \/ Calls(q)
  \/ Arrive \/ ArriveForeign \/ Tick

Spec == Init /\ [][Next]_vars

-----------------------------------------------------------------------------

(***************************************************************************)
(* What a round counts are answers to its own packets, each once, and each *)
(* sample is the time its own answer took - over reordering, repetition,   *)
(* answers to an earlier round, to a round of another target, or to        *)
(* another program (icmp_unix.go 73-74, 111).                              *)
(***************************************************************************)
OwnSamples ==
  \A q \in Rounds :
    /\ R[q] = Cardinality(got[q])
    /\ samples[q] \subseteq {TRUE}

(***************************************************************************)
(* Loss is loss: when a round is over, every answer that came before its   *)
(* last window closed has been counted, however late it was, as long as    *)
(* the socket could be read (icmp_unix.go 74).                             *)
(***************************************************************************)
NoFalseLoss == \A q \in Rounds \ broken : pc[q] = "done" => came[q] \subseteq got[q]

(***************************************************************************)
(* A round takes no longer than its packets and the last one's timeout; on *)
(* Windows, where a lost packet keeps its place, no longer than the rounds *)
(* of InFlight it takes (icmp_windows.go 53-57).                           *)
(***************************************************************************)
Longest ==
  CASE Unix            -> Packets * Gap + Timeout
    [] kind = "helper" -> ((Packets + InFlight - 1) \div InFlight) * Timeout + (InFlight - 1) * Gap
    [] kind = "tcp"    -> Packets * Timeout + (Packets - 1) * Gap

EndsInTime ==
  \A q \in Rounds : pc[q] \notin {"idle", "done", "failed"} => clock <= began[q] + Longest

=============================================================================
