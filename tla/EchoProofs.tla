----------------------------- MODULE EchoProofs -----------------------------
(***************************************************************************)
(* Proofs about Echo, for any number of rounds, packets and places in      *)
(* flight, any gap and any timeout: what a round counts is its own, what   *)
(* came in time is counted, and a round of each kind ends in time; and     *)
(* about Detector: what the burst mark decides for windows of any length.  *)
(***************************************************************************)
EXTENDS Echo, Detector, FiniteSetTheorems, WellFoundedInduction, TLAPS

-----------------------------------------------------------------------------

(***************************************************************************)
(* The types, and the order a round goes through its packets in.           *)
(***************************************************************************)
Sending == {"send", "gap", "tail"}

Answer == [of : Rounds \cup {Other}, seq : Seqs, sent : Nat, came : Nat]

Clocks ==
  /\ clock \in Nat /\ kind \in Kinds
  /\ began \in [Rounds -> Nat] /\ until \in [Rounds -> Nat]
  /\ i \in [Rounds -> 0..Packets]
  /\ sendAt \in [Rounds -> [Seqs -> Nat]]

Tallies ==
  /\ pc \in [Rounds -> Sending \cup {"idle", "calls", "done", "failed"}]
  /\ call \in [Rounds -> [Seqs -> {"wait", "out", "over"}]]
  /\ got \in [Rounds -> SUBSET Seqs] /\ R \in [Rounds -> Nat]
  /\ samples \in [Rounds -> SUBSET BOOLEAN]
  /\ came \in [Rounds -> SUBSET Seqs]
  /\ broken \subseteq Rounds

Mail ==
  /\ net \subseteq [of : Rounds, seq : Seqs, sent : Nat]
  /\ inbox \in [Rounds -> SUBSET Answer]

\* A round sends and reads, or calls, as its kind does.
Kindly ==
  \A q \in Rounds :
    /\ pc[q] \in Sending => Unix
    /\ pc[q] = "calls" => ~Unix
    /\ Unix \/ pc[q] = "idle" => \A k \in Seqs : call[q][k] = "wait"
    /\ \A k \in Seqs : call[q][k] = "out" => pc[q] = "calls"
    /\ pc[q] = "idle" => i[q] = 0
    /\ pc[q] = "gap" => i[q] < Packets

Typed == Clocks /\ Tallies /\ Mail /\ Kindly

(***************************************************************************)
(* Whose answer is whose.                                                  *)
(***************************************************************************)
\* A packet that was sent: those before the one the round is at, and that one
\* while its window is open.
SentOff(q, k) == k < i[q] \/ (k = i[q] /\ pc[q] = "gap")

\* While a round reads, the answers to its packets carry the times they were
\* sent at; no answer is older than its round.
OnTheirWay ==
  \A m \in net :
    /\ pc[m.of] # "idle"
    /\ pc[m.of] \in Sending => SentOff(m.of, m.seq) /\ m.sent = sendAt[m.of][m.seq]

\* An answer in hand came just now; only a round that reads has any.
InHand ==
  \A q \in Rounds : \A m \in inbox[q] :
    /\ pc[q] \in Sending
    /\ m.of = q => SentOff(q, m.seq) /\ m.sent = sendAt[q][m.seq] /\ m.came = clock

\* Each packet is counted once.
Counted ==
  \A q \in Rounds :
    /\ R[q] = Cardinality(got[q])
    /\ ~Unix => \A k \in got[q] : call[q][k] = "over"

OwnInv == OnTheirWay /\ InHand /\ Counted /\ \A q \in Rounds : samples[q] \subseteq {TRUE}

\* What came and is not counted yet is in hand, and the window is still open.
Unread ==
  \A q \in Rounds \ broken : \A k \in came[q] \ got[q] :
    /\ \E m \in inbox[q] : m.of = q /\ m.seq = k
    /\ pc[q] = "tail" => clock < until[q]

(***************************************************************************)
(* Time, by kind.                                                          *)
(***************************************************************************)
UnixTime ==
  \A q \in Rounds :
    /\ pc[q] = "send" => clock <= began[q] + i[q] * Gap
    /\ pc[q] = "gap" => clock <= until[q] /\ until[q] <= began[q] + (i[q] + 1) * Gap
    /\ pc[q] = "tail" => clock <= until[q] /\ until[q] <= began[q] + Packets * Gap + Timeout

\* On Windows: by the time T the packets of the first m + 1 loads are on
\* their way or back.
Full(q, m) == began[q] + (InFlight - 1) * Gap + m * Timeout

SentBy(q, t) == {k \in Seqs : call[q][k] # "wait" /\ sendAt[q][k] <= t}

HelperAt(q) ==
  /\ \A k \in Seqs : call[q][k] # "wait" => sendAt[q][k] <= clock
  /\ \A k \in Out(q) : clock <= sendAt[q][k] + Timeout
  /\ \A m \in Nat : clock > Full(q, m) =>
       \/ Cardinality(SentBy(q, Full(q, m))) >= (m + 1) * InFlight
       \/ SentBy(q, Full(q, m)) = Seqs
  /\ clock <= began[q] + Longest

HelperTime ==
  kind = "helper" => \A q \in Rounds : pc[q] = "calls" => HelperAt(q)

Period == Timeout + Gap

\* A TCP round has j packets behind it; it is at the next, or waits for it.
TcpAt(q, j) ==
  /\ \A k \in Seqs : /\ call[q][k] = "over" <=> k < j
                     /\ k > j => call[q][k] = "wait"
  /\ until[q] <= began[q] + j * Period
  /\ \A k \in Out(q) : /\ sendAt[q][k] <= began[q] + j * Period
                       /\ clock <= sendAt[q][k] + Timeout
  /\ j = Packets => clock <= began[q] + Longest
  /\ Out(q) = {} /\ j < Packets => clock <= began[q] + j * Period

TcpTime ==
  kind = "tcp" =>
    \A q \in Rounds : /\ pc[q] = "calls" => \E j \in 0..Packets : TcpAt(q, j)
                      /\ pc[q] = "idle" => until[q] = 0

-----------------------------------------------------------------------------

(***************************************************************************)
(* Types.                                                                  *)
(***************************************************************************)
\* The constants as the provers want them.
LEMMA Numbers ==
  /\ Packets \in Nat /\ Packets > 0 /\ Gap \in Nat /\ Gap > 0
  /\ Timeout \in Nat /\ Timeout > 0 /\ InFlight \in Nat /\ InFlight > 0
  /\ Seqs \subseteq Nat /\ \A k \in Nat : k \in Seqs <=> k < Packets
BY EchoAssumption DEF Seqs

\* Every round starts out with nothing sent.
LEMMA InitTyped == Init => Typed
<1> SUFFICES ASSUME Init PROVE Typed
  OBVIOUS
<1> USE Numbers DEF Init
<1>1. Clocks
  BY DEF Clocks
<1>2. Tallies
  BY DEF Tallies, Sending
<1>3. Mail
  BY DEF Mail
<1>4. Kindly
  BY DEF Kindly, Sending
<1> QED BY <1>1, <1>2, <1>3, <1>4 DEF Typed

\* The steps of a round that sends and reads.
LEMMA TypedUnix ==
  ASSUME Typed, NEW q \in Rounds,
         Begin(q) \/ Send(q) \/ SendFails(q) \/ AllSent(q) \/ Recv(q) \/ WindowEnds(q)
  PROVE  Typed'
<1> USE Numbers DEF Typed, Sending
<1>1. CASE Begin(q)
  <2>1. Clocks'
    BY <1>1 DEF Begin, Clocks, Tallies, Kindly, time
  <2>2. Tallies'
    BY <1>1 DEF Begin, Tallies, Clocks, Mail, time
  <2>3. Mail'
    BY <1>1 DEF Begin, Mail, Clocks, Answer, time
  <2>4. Kindly'
    BY <1>1 DEF Begin, Kindly, Clocks, Tallies, Unix, time
  <2> QED BY <2>1, <2>2, <2>3, <2>4
<1>2. CASE Send(q)
  <2>1. Clocks'
    BY <1>2 DEF Send, Sent, Clocks, Tallies, Kindly, time
  <2>2. Tallies'
    BY <1>2 DEF Send, Sent, Tallies, Clocks, Mail, time
  <2>3. Mail'
    BY <1>2 DEF Send, Sent, Mail, Clocks, Answer, time
  <2>4. Kindly'
    BY <1>2 DEF Send, Sent, Kindly, Clocks, Tallies, Unix, time
  <2> QED BY <2>1, <2>2, <2>3, <2>4
<1>3. CASE SendFails(q)
  <2>1. Clocks'
    BY <1>3 DEF SendFails, Sent, Clocks, Tallies, Kindly, time
  <2>2. Tallies'
    BY <1>3 DEF SendFails, Sent, Tallies, Clocks, Mail, time
  <2>3. Mail'
    BY <1>3 DEF SendFails, Sent, Mail, Clocks, Answer, time
  <2>4. Kindly'
    BY <1>3 DEF SendFails, Sent, Kindly, Clocks, Tallies, Unix, time
  <2> QED BY <2>1, <2>2, <2>3, <2>4
<1>4. CASE AllSent(q)
  <2>1. Clocks'
    BY <1>4 DEF AllSent, Clocks, Tallies, Kindly, time
  <2>2. Tallies'
    BY <1>4 DEF AllSent, Tallies, Clocks, Mail, time
  <2>3. Mail'
    BY <1>4 DEF AllSent, Mail, Clocks, Answer, time
  <2>4. Kindly'
    BY <1>4 DEF AllSent, Kindly, Clocks, Tallies, Unix, time
  <2> QED BY <2>1, <2>2, <2>3, <2>4
<1>5. CASE Recv(q)
  <2>1. Clocks'
    BY <1>5 DEF Recv, Matches, Answer, Clocks, Tallies, Kindly, time
  <2>2. Tallies'
    <3>1. PICK m \in inbox[q] :
            IF Matches(q, m)
            THEN /\ got' = [got EXCEPT ![q] = @ \cup {m.seq}]
                 /\ R' = [R EXCEPT ![q] = @ + 1]
                 /\ samples' = [samples EXCEPT ![q] =
                      @ \cup {m.of = q /\ clock - sendAt[q][m.seq] = m.came - m.sent}]
            ELSE UNCHANGED <<got, R, samples>>
      BY <1>5 DEF Recv
    <3> DEFINE own == {m.of = q /\ clock - sendAt[q][m.seq] = m.came - m.sent}
    <3>2. own \subseteq BOOLEAN
      BY Zenon
    <3>3. UNCHANGED samples \/ samples' = [samples EXCEPT ![q] = @ \cup own]
      BY <3>1
    <3> HIDE DEF own
    <3>4. samples' \in [Rounds -> SUBSET BOOLEAN]
      BY <3>2, <3>3 DEF Tallies
    <3>5. \/ UNCHANGED <<got, R>>
          \/ /\ m.seq \in Seqs /\ got' = [got EXCEPT ![q] = @ \cup {m.seq}]
             /\ R' = [R EXCEPT ![q] = @ + 1]
      BY <3>1, Zenon DEF Matches
    <3>6. got' \in [Rounds -> SUBSET Seqs]
      <4>1. got \in [Rounds -> SUBSET Seqs]
        BY DEF Tallies
      <4> QED BY <3>5, <4>1
    <3>7. R' \in [Rounds -> Nat]
      <4>1. R \in [Rounds -> Nat]
        BY DEF Tallies
      <4> QED BY <3>5, <4>1
    <3> QED BY <1>5, <3>4, <3>6, <3>7 DEF Recv, Tallies
  <2>3. Mail'
    BY <1>5 DEF Recv, Matches, Answer, Mail, Clocks, Answer, time
  <2>4. Kindly'
    BY <1>5 DEF Recv, Matches, Answer, Kindly, Clocks, Tallies, Unix, time
  <2> QED BY <2>1, <2>2, <2>3, <2>4
<1>6. CASE WindowEnds(q)
  <2>1. Clocks'
    <3>1. CASE Return(q, "done")
      BY <1>6, <3>1 DEF WindowEnds, Return, Clocks, time
    <3>2. CASE pc[q] = "gap" /\ i' = [i EXCEPT ![q] = @ + 1]
               /\ UNCHANGED <<began, until, sendAt>>
      BY <1>6, <3>2 DEF WindowEnds, Clocks, Kindly, time
    <3> QED BY <1>6, <3>1, <3>2 DEF WindowEnds
  <2>2. Tallies'
    BY <1>6 DEF WindowEnds, Return, Tallies, Clocks, Mail, time
  <2>3. Mail'
    BY <1>6 DEF WindowEnds, Return, Mail, Clocks, Answer, time
  <2>4. Kindly'
    BY <1>6 DEF WindowEnds, Return, Kindly, Clocks, Tallies, Unix, time
  <2> QED BY <2>1, <2>2, <2>3, <2>4
<1> QED BY <1>1, <1>2, <1>3, <1>4, <1>5, <1>6

\* The steps of a round that calls.
LEMMA TypedCalls ==
  ASSUME Typed, NEW q \in Rounds, Calls(q)
  PROVE  Typed'
<1> USE Numbers DEF Typed, Sending
<1>1. CASE CallsOver(q)
  <2>1. Clocks'
    BY <1>1 DEF CallsOver, Return, Clocks, Tallies, Kindly, time
  <2>2. Tallies'
    BY <1>1 DEF CallsOver, Return, Tallies, Clocks, Mail, time
  <2>3. Mail'
    BY <1>1 DEF CallsOver, Return, Mail, Clocks, Answer, time
  <2>4. Kindly'
    BY <1>1 DEF CallsOver, Return, Kindly, Clocks, Tallies, Unix, time
  <2> QED BY <2>1, <2>2, <2>3, <2>4
<1>2. ASSUME NEW k \in Seqs, Call(q, k) \/ Answered(q, k) \/ Lost(q, k) PROVE Typed'
  <2>1. /\ call' \in [Rounds -> [Seqs -> {"wait", "out", "over"}]]
        /\ until' \in [Rounds -> Nat]
    <3>1. CASE Over(q, k)
      BY <3>1 DEF Over, Clocks, Tallies
    <3>2. CASE call' = [call EXCEPT ![q][k] = "out"] /\ UNCHANGED until
      BY <3>2 DEF Clocks, Tallies
    <3> QED BY <1>2, <3>1, <3>2 DEF Call, Answered, Lost
  <2>2. sendAt' \in [Rounds -> [Seqs -> Nat]]
    BY <1>2 DEF Call, Answered, Lost, Clocks
  <2>3. Clocks'
    BY <1>2, <2>1, <2>2 DEF Call, Answered, Lost, Clocks, time
  <2>4. Tallies'
    BY <1>2, <2>1 DEF Call, Answered, Lost, Tallies
  <2>5. Mail'
    BY <1>2 DEF Call, Answered, Lost, Mail
  <2>6. Kindly'
    <3>1. pc[q] = "calls" /\ UNCHANGED <<kind, pc, i>>
      BY <1>2 DEF Call, Answered, Lost, Kindly, time
    <3>2. \A p \in Rounds \ {q} : call'[p] = call[p]
      BY <1>2 DEF Call, Answered, Lost, Over, Tallies
    <3> QED BY <3>1, <3>2 DEF Kindly, Unix
  <2> QED BY <2>3, <2>4, <2>5, <2>6
<1> QED BY <1>1, <1>2 DEF Calls

\* The network, and time.
LEMMA TypedWorld ==
  ASSUME Typed, Arrive \/ ArriveForeign \/ Tick
  PROVE  Typed'
<1> USE Numbers DEF Typed, Sending
<1>1. ASSUME NEW owner, NEW m \in Answer, Delivered(owner, m)
      PROVE  inbox' \in [Rounds -> SUBSET Answer]
  BY <1>1 DEF Delivered, Mail
<1>2. CASE Arrive
  <2>1. PICK m \in net :
          /\ Delivered(m.of, [of |-> m.of, seq |-> m.seq, sent |-> m.sent, came |-> clock])
          /\ net' \in {net, net \ {m}}
          /\ came' = [came EXCEPT ![m.of] = IF Readable(m.of) THEN @ \cup {m.seq} ELSE @]
    BY <1>2 DEF Arrive
  <2>2. /\ m.of \in Rounds /\ m.seq \in Seqs
        /\ [of |-> m.of, seq |-> m.seq, sent |-> m.sent, came |-> clock] \in Answer
    BY DEF Mail, Answer, Clocks
  <2>3. Mail'
    BY <1>1, <2>1, <2>2 DEF Mail
  <2>4. Clocks' /\ Kindly'
    BY <1>2 DEF Arrive, Clocks, Kindly, Unix, time
  <2>5. Tallies'
    BY <1>2, <2>1, <2>2 DEF Arrive, Tallies
  <2> QED BY <2>3, <2>4, <2>5
<1>3. CASE ArriveForeign
  <2>1. PICK k \in Seqs : Delivered(Other, [of |-> Other, seq |-> k, sent |-> 0, came |-> 0])
    BY <1>3 DEF ArriveForeign
  <2>2. [of |-> Other, seq |-> k, sent |-> 0, came |-> 0] \in Answer
    BY DEF Answer
  <2>3. Mail'
    BY <1>1, <1>3, <2>1, <2>2 DEF ArriveForeign, Mail
  <2>4. Clocks' /\ Kindly'
    BY <1>3 DEF ArriveForeign, Clocks, Kindly, Unix, time
  <2>5. Tallies'
    BY <1>3 DEF ArriveForeign, Tallies
  <2> QED BY <2>3, <2>4, <2>5
<1>4. CASE Tick
  <2>1. Clocks' /\ Kindly'
    BY <1>4 DEF Tick, Clocks, Kindly, Unix, time
  <2>2. Tallies' /\ Mail'
    BY <1>4 DEF Tick, Tallies, Mail, Answer
  <2> QED BY <2>1, <2>2
<1> QED BY <1>2, <1>3, <1>4

\* No step leaves the types.
LEMMA TypedNext == Typed /\ [Next]_vars => Typed'
<1> SUFFICES ASSUME Typed, [Next]_vars PROVE Typed'
  OBVIOUS
<1>1. CASE UNCHANGED vars
  BY <1>1 DEF vars, time, Typed, Clocks, Tallies, Mail, Kindly, Unix, Sending, Answer
<1>2. CASE Next
  BY <1>2, TypedUnix, TypedCalls, TypedWorld DEF Next
<1> QED BY <1>1, <1>2

-----------------------------------------------------------------------------

(***************************************************************************)
(* Whose answer is whose.                                                  *)
(***************************************************************************)
\* An answer is given to rounds that read, and to its own among them.
LEMMA DeliveredIs ==
  ASSUME Typed, NEW owner, NEW m, Delivered(owner, m)
  PROVE  /\ \A q \in Rounds : \A x \in inbox'[q] : x \in inbox[q] \/ (x = m /\ q \in Open)
         /\ \A q \in Rounds : inbox[q] \subseteq inbox'[q]
         /\ owner \in Open => m \in inbox'[owner]
<1>1. PICK Q \in Sockets(owner) :
        inbox' = [q \in Rounds |-> IF q \in Q THEN inbox[q] \cup {m} ELSE inbox[q]]
  BY DEF Delivered
<1>2. Q \subseteq Open /\ (owner \in Open => owner \in Q)
  BY DEF Sockets
<1>3. Open \subseteq Rounds
  BY DEF Open
<1> QED BY <1>1, <1>2, <1>3

\* Nothing is on its way at first.
LEMMA InitOwn == Init => OwnInv
BY FS_EmptySet DEF Init, OwnInv, OnTheirWay, InHand, Counted

\* A step that sends nothing and gives out no answer, and lets a round that
\* reads forget no packet it has sent.
LEMMA MailKept ==
  ASSUME Typed, OnTheirWay, InHand, UNCHANGED <<clock, net>>,
         \A p \in Rounds :
           /\ inbox'[p] \subseteq inbox[p]
           /\ pc'[p] = "idle" => pc[p] = "idle"
           /\ pc[p] \in Sending => pc'[p] \in Sending \/ inbox'[p] = {}
           /\ pc'[p] \in Sending => pc[p] \in Sending \cup {"idle"}
           /\ pc[p] \in Sending /\ pc'[p] \in Sending =>
                \A k \in Seqs : SentOff(p, k) => SentOff(p, k)' /\ sendAt'[p][k] = sendAt[p][k]
  PROVE  OnTheirWay' /\ InHand'
<1> USE DEF Typed, Mail, Answer
<1>1. OnTheirWay'
  BY DEF OnTheirWay, Sending
<1>2. ASSUME NEW p \in Rounds, NEW m \in inbox'[p]
      PROVE  /\ pc'[p] \in Sending
             /\ m.of = p => SentOff(p, m.seq)' /\ m.sent = sendAt'[p][m.seq] /\ m.came = clock'
  <2>1. m \in inbox[p] /\ pc[p] \in Sending /\ pc'[p] \in Sending
    BY <1>2 DEF InHand
  <2> QED BY <2>1 DEF InHand
<1> QED BY <1>1, <1>2 DEF InHand

\* The steps of a round that sends and reads.
LEMMA MailUnix ==
  ASSUME Typed, OnTheirWay, InHand, NEW q \in Rounds,
         Begin(q) \/ Send(q) \/ SendFails(q) \/ AllSent(q) \/ Recv(q) \/ WindowEnds(q)
  PROVE  OnTheirWay' /\ InHand'
<1> USE Numbers DEF Typed, Clocks, Tallies, Mail, Kindly, SentOff, Sending, Answer, time
<1>1. CASE Begin(q)
  BY <1>1 DEF Begin, OnTheirWay, InHand
<1>2. CASE Send(q)
  <2>1. OnTheirWay'
    BY <1>2 DEF Send, Sent, OnTheirWay
  <2>2. InHand'
    BY <1>2 DEF Send, Sent, InHand
  <2> QED BY <2>1, <2>2
<1>3. CASE SendFails(q)
  BY <1>3, MailKept DEF SendFails, Sent
<1>4. CASE AllSent(q)
  BY <1>4, MailKept DEF AllSent
<1>5. CASE Recv(q)
  <2>1. \A p \in Rounds : inbox'[p] \subseteq inbox[p]
    BY <1>5 DEF Recv
  <2>2. UNCHANGED <<time, pc, i, sendAt, net>>
    BY <1>5 DEF Recv
  <2> QED BY <2>1, <2>2, MailKept
<1>6. CASE WindowEnds(q)
  <2>1. CASE pc[q] = "gap"
    BY <1>6, <2>1, MailKept DEF WindowEnds
  <2>2. CASE pc[q] = "tail"
    BY <1>6, <2>2, MailKept DEF WindowEnds, Return
  <2> QED BY <1>6, <2>1, <2>2 DEF WindowEnds
<1> QED BY <1>1, <1>2, <1>3, <1>4, <1>5, <1>6

\* A round that calls has no mail.
LEMMA MailCalls ==
  ASSUME Typed, OnTheirWay, InHand, NEW q \in Rounds, Calls(q)
  PROVE  OnTheirWay' /\ InHand'
<1> USE DEF Typed, Clocks, Tallies, Mail, SentOff
<1>1. CASE CallsOver(q)
  BY <1>1, MailKept DEF CallsOver, Return, Sending, time
<1>2. ASSUME NEW k \in Seqs, Call(q, k) \/ Answered(q, k) \/ Lost(q, k)
      PROVE  OnTheirWay' /\ InHand'
  <2>1. pc[q] \notin Sending
    BY <1>2 DEF Call, Answered, Lost, Kindly, Sending
  <2>2. UNCHANGED <<clock, pc, i, net, inbox>>
    BY <1>2 DEF Call, Answered, Lost, time
  <2>3. \A p \in Rounds : p # q => sendAt'[p] = sendAt[p]
    BY <1>2 DEF Call, Answered, Lost
  <2> QED BY <2>1, <2>2, <2>3, MailKept
<1> QED BY <1>1, <1>2 DEF Calls

\* Time passes when nothing is in hand.
LEMMA MailWorld ==
  ASSUME Typed, OnTheirWay, InHand, Arrive \/ ArriveForeign \/ Tick
  PROVE  OnTheirWay' /\ InHand'
<1> USE DEF OnTheirWay, InHand, SentOff
<1>1. CASE Arrive
  <2>1. PICK m \in net :
          /\ Delivered(m.of, [of |-> m.of, seq |-> m.seq, sent |-> m.sent, came |-> clock])
          /\ net' \in {net, net \ {m}}
    BY <1>1 DEF Arrive
  <2> DEFINE a == [of |-> m.of, seq |-> m.seq, sent |-> m.sent, came |-> clock]
  <2>2. \A q \in Rounds : \A x \in inbox'[q] : x \in inbox[q] \/ (x = a /\ q \in Open)
    BY <2>1, DeliveredIs
  <2>3. UNCHANGED <<clock, pc, i, sendAt>>
    BY <1>1 DEF Arrive, time
  <2>4. OnTheirWay'
    BY <2>1, <2>3
  <2>5. InHand'
    BY <2>2, <2>3 DEF Open, Sending
  <2> QED BY <2>4, <2>5
<1>2. CASE ArriveForeign
  <2>1. PICK k \in Seqs : Delivered(Other, [of |-> Other, seq |-> k, sent |-> 0, came |-> 0])
    BY <1>2 DEF ArriveForeign
  <2> DEFINE a == [of |-> Other, seq |-> k, sent |-> 0, came |-> 0]
  <2>2. \A q \in Rounds : \A x \in inbox'[q] : x \in inbox[q] \/ (x = a /\ q \in Open)
    BY <2>1, DeliveredIs
  <2>3. UNCHANGED <<clock, pc, i, sendAt, net>>
    BY <1>2 DEF ArriveForeign, time
  <2>4. InHand'
    BY <2>2, <2>3, EchoAssumption DEF Open, Sending
  <2> QED BY <2>3, <2>4
<1>3. CASE Tick
  <2>1. \A q \in Rounds : inbox[q] = {}
    BY <1>3 DEF Tick, Idle, Sending, Typed, Mail, Answer
  <2> QED BY <1>3, <2>1 DEF Tick
<1> QED BY <1>1, <1>2, <1>3

\* A packet is counted when its answer is read or its call is over, not twice.
LEMMA CountedNext ==
  ASSUME Typed, Counted, [Next]_vars
  PROVE  Counted'
<1> USE DEF Typed, Tallies, Counted
<1>1. \A q \in Rounds : IsFiniteSet(got[q])
  <2>1. IsFiniteSet(Seqs)
    BY FS_Interval, EchoAssumption DEF Seqs
  <2> QED BY <2>1, FS_Subset
<1>2. ASSUME NEW q \in Rounds, NEW k \in Seqs, k \notin got[q],
             got' = [got EXCEPT ![q] = @ \cup {k}], R' = [R EXCEPT ![q] = @ + 1]
      PROVE  \A p \in Rounds : R'[p] = Cardinality(got'[p])
  <2>1. Cardinality(got[q] \cup {k}) = Cardinality(got[q]) + 1
    BY <1>1, <1>2, FS_AddElement
  <2> QED BY <1>2, <2>1
<1>3. ASSUME NEW q \in Rounds, Recv(q) PROVE Counted'
  <2>1. UNCHANGED <<got, R>> \/ \E k \in Seqs :
          /\ k \notin got[q] /\ got' = [got EXCEPT ![q] = @ \cup {k}]
          /\ R' = [R EXCEPT ![q] = @ + 1]
    BY <1>3, Zenon DEF Recv, Matches
  <2>2. \A p \in Rounds : R'[p] = Cardinality(got'[p])
    BY <1>2, <2>1
  <2>3. Unix
    BY <1>3 DEF Recv, Reading, Kindly, Sending
  <2> QED BY <1>3, <2>2, <2>3 DEF Recv, Unix, time
<1>4. ASSUME NEW q \in Rounds, NEW k \in Seqs, Answered(q, k) PROVE Counted'
  <2>1. ~Unix
    BY <1>4 DEF Answered, Kindly
  <2>2. k \notin got[q]
    BY <1>4, <2>1 DEF Answered
  <2>3. \A p \in Rounds : R'[p] = Cardinality(got'[p])
    BY <1>2, <1>4, <2>2 DEF Answered
  <2>4. \A p \in Rounds : \A j \in got'[p] : call'[p][j] = "over"
    BY <1>4, <2>1 DEF Answered, Over
  <2> QED BY <2>3, <2>4
<1>5. ASSUME NEW q \in Rounds, NEW k \in Seqs, Call(q, k) \/ Lost(q, k) PROVE Counted'
  BY <1>5 DEF Call, Lost, Over, Unix, time
<1>6. ASSUME NEW q \in Rounds,
             \/ Begin(q) \/ Send(q) \/ SendFails(q) \/ AllSent(q) \/ WindowEnds(q)
             \/ CallsOver(q)
      PROVE  Counted'
  BY <1>6 DEF Begin, Send, SendFails, AllSent, WindowEnds, CallsOver, Unix, time
<1>7. CASE Arrive \/ ArriveForeign \/ Tick \/ UNCHANGED vars
  BY <1>7 DEF Arrive, ArriveForeign, Tick, vars, Unix, time
<1> QED
  BY <1>3, <1>4, <1>5, <1>6, <1>7 DEF Next, Calls

\* A sample is taken when an answer of the round's own is read.
LEMMA SamplesNext ==
  ASSUME Typed, OwnInv, [Next]_vars
  PROVE  \A q \in Rounds : samples'[q] \subseteq {TRUE}
<1>1. ASSUME NEW q \in Rounds, Recv(q) PROVE \A p \in Rounds : samples'[p] \subseteq {TRUE}
  <2>1. PICK m \in inbox[q] :
          \/ UNCHANGED samples
          \/ /\ m.of = q
             /\ samples' = [samples EXCEPT ![q] =
                  @ \cup {m.of = q /\ clock - sendAt[q][m.seq] = m.came - m.sent}]
    BY <1>1, Zenon DEF Recv, Matches
  <2>2. m.of = q => clock - sendAt[q][m.seq] = m.came - m.sent
    BY DEF OwnInv, InHand
  <2>3. UNCHANGED samples \/ samples' = [samples EXCEPT ![q] = @ \cup {TRUE}]
    BY <2>1, <2>2
  <2> QED BY <2>3 DEF OwnInv, Typed, Tallies
<1>2. CASE UNCHANGED samples
  BY <1>2 DEF OwnInv
<1> QED
  BY <1>1, <1>2 DEF Next, Begin, Send, SendFails, AllSent, WindowEnds, Calls, CallsOver, Call,
                    Answered, Lost, Arrive, ArriveForeign, Tick, vars

\* All of it together.
LEMMA OwnNext == Typed /\ OwnInv /\ [Next]_vars => OwnInv'
<1> SUFFICES ASSUME Typed, OwnInv, [Next]_vars PROVE OwnInv'
  OBVIOUS
<1>1. Counted' /\ \A q \in Rounds : samples'[q] \subseteq {TRUE}
  BY CountedNext, SamplesNext DEF OwnInv
<1>2. OnTheirWay' /\ InHand'
  <2>1. CASE UNCHANGED vars
    BY <2>1 DEF vars, time, OwnInv, OnTheirWay, InHand, SentOff
  <2>2. CASE Next
    BY <2>2, MailUnix, MailCalls, MailWorld DEF Next, OwnInv
  <2> QED BY <2>1, <2>2
<1> QED BY <1>1, <1>2 DEF OwnInv

(***************************************************************************)
(* What a round counts are answers to its own packets, each once, and each *)
(* sample is the time its own answer took - over reordering, repetition,   *)
(* answers to an earlier round, to a round of another target, or to        *)
(* another program (icmp_unix.go 73-74, 111).                              *)
(***************************************************************************)
THEOREM RoundsCountTheirOwn == Spec => []OwnSamples
<1>1. Init => Typed /\ OwnInv
  BY InitTyped, InitOwn
<1>2. Typed /\ OwnInv /\ [Next]_vars => (Typed /\ OwnInv)'
  BY TypedNext, OwnNext
<1>3. OwnInv => OwnSamples
  BY DEF OwnInv, Counted, OwnSamples
<1> QED
  BY <1>1, <1>2, <1>3, PTL DEF Spec

-----------------------------------------------------------------------------

(***************************************************************************)
(* What came is counted.                                                   *)
(***************************************************************************)
\* Nothing has come at first.
LEMMA InitUnread == Init => Unread
BY DEF Init, Unread

\* A step that loses no answer and closes no window.
LEMMA UnreadKept ==
  ASSUME Unread, UNCHANGED <<clock, came, broken>>,
         \A p \in Rounds :
           /\ got[p] \subseteq got'[p] /\ inbox[p] \subseteq inbox'[p]
           /\ pc'[p] = "tail" => \/ clock < until'[p]
                                 \/ pc[p] = "tail" /\ until'[p] = until[p]
  PROVE  Unread'
<1> SUFFICES ASSUME NEW p \in Rounds \ broken, NEW k \in came[p] \ got'[p]
             PROVE  /\ \E m \in inbox'[p] : m.of = p /\ m.seq = k
                    /\ pc'[p] = "tail" => clock < until'[p]
  BY DEF Unread
<1>1. k \in came[p] \ got[p]
  OBVIOUS
<1> QED BY <1>1 DEF Unread

\* The steps of a round that sends and reads: only a deadline closes a window,
\* or a socket that broke.
LEMMA UnreadUnix ==
  ASSUME Typed, InHand, Unread, NEW q \in Rounds,
         Begin(q) \/ Send(q) \/ SendFails(q) \/ AllSent(q) \/ Recv(q) \/ WindowEnds(q)
  PROVE  Unread'
<1> USE Numbers DEF Typed, Clocks, Tallies, time
<1>1. CASE Begin(q)
  BY <1>1, UnreadKept DEF Begin
<1>2. CASE Send(q) \/ SendFails(q) \/ AllSent(q)
  <2>1. UNCHANGED <<clock, inbox, came, got, broken>>
    BY <1>2 DEF Send, SendFails, AllSent
  <2>2. \A p \in Rounds : pc'[p] = "tail" => \/ clock < until'[p]
                                             \/ pc[p] = "tail" /\ until'[p] = until[p]
    BY <1>2 DEF Send, SendFails, AllSent
  <2> QED BY <2>1, <2>2, UnreadKept
<1>3. CASE Recv(q)
  <2>1. PICK m \in inbox[q] :
          /\ inbox' = [inbox EXCEPT ![q] = @ \ {m}]
          /\ \/ UNCHANGED got /\ ~Matches(q, m)
             \/ got' = [got EXCEPT ![q] = @ \cup {m.seq}]
    BY <1>3, Zenon DEF Recv
  <2>2. UNCHANGED <<clock, pc, until, broken, came>>
    BY <1>3 DEF Recv
  <2>3. ASSUME NEW p \in Rounds \ broken, NEW k \in came[p] \ got'[p]
        PROVE  \E x \in inbox'[p] : x.of = p /\ x.seq = k
    <3>1. k \in came[p] \ got[p] /\ k \in Seqs
      BY <2>1, <2>3
    <3>2. PICK x \in inbox[p] : x.of = p /\ x.seq = k
      BY <3>1 DEF Unread
    <3>3. ~(p = q /\ x = m)
      BY <2>1, <2>3, <3>1, <3>2 DEF Matches
    <3> QED BY <2>1, <3>2, <3>3 DEF Mail
  <2>4. \A p \in Rounds : got[p] \subseteq got'[p]
    BY <2>1
  <2> QED BY <2>2, <2>3, <2>4 DEF Unread
<1>4. CASE WindowEnds(q)
  <2>1. UNCHANGED <<clock, came, got>> /\ broken \subseteq broken'
    BY <1>4 DEF WindowEnds
  <2>2. CASE pc[q] = "gap"
    BY <1>4, <2>1, <2>2 DEF WindowEnds, Unread
  <2>3. CASE pc[q] = "tail"
    <3>1. q \in broken' \/ clock >= until[q]
      BY <1>4 DEF WindowEnds
    <3>2. q \in broken' \/ came[q] \subseteq got[q]
      BY <2>1, <2>3, <3>1 DEF Unread
    <3>3. \A p \in Rounds : p # q => /\ pc'[p] = pc[p] /\ inbox'[p] = inbox[p]
                                     /\ until'[p] = until[p]
      BY <1>4, <2>3 DEF WindowEnds, Return, Mail
    <3> QED BY <2>1, <3>2, <3>3 DEF Unread
  <2> QED BY <1>4, <2>2, <2>3 DEF WindowEnds
<1> QED BY <1>1, <1>2, <1>3, <1>4

\* A round that calls has nothing in hand, so nothing that is not counted.
LEMMA UnreadCalls ==
  ASSUME Typed, InHand, Unread, NEW q \in Rounds, Calls(q)
  PROVE  Unread'
<1>1. pc[q] = "calls" \/ ~Unix
  BY DEF Calls, CallsOver, Call, Answered, Lost, Typed, Kindly
<1>2. pc[q] \notin Sending
  BY <1>1 DEF Typed, Kindly, Sending
<1>3. q \notin broken => came[q] \subseteq got[q]
  BY <1>2 DEF Unread, InHand
<1>4. UNCHANGED <<clock, came, broken>> /\ \A p \in Rounds : got[p] \subseteq got'[p]
  BY DEF Calls, CallsOver, Call, Answered, Lost, time, Typed, Tallies
<1>5. \A p \in Rounds : p # q => /\ pc'[p] = pc[p] /\ inbox'[p] = inbox[p]
                                 /\ until'[p] = until[p]
  BY DEF Calls, CallsOver, Return, Call, Over, Answered, Lost, time, Typed, Clocks, Tallies, Mail
<1> QED BY <1>3, <1>4, <1>5 DEF Unread

\* An answer that comes while its round reads is put in its hand, and time
\* passes when no hand holds any.
LEMMA UnreadWorld ==
  ASSUME Typed, InHand, Unread, Arrive \/ ArriveForeign \/ Tick
  PROVE  Unread'
<1>1. CASE Arrive
  <2>1. PICK m \in net :
          /\ Delivered(m.of, [of |-> m.of, seq |-> m.seq, sent |-> m.sent, came |-> clock])
          /\ came' = [came EXCEPT ![m.of] = IF Readable(m.of) THEN @ \cup {m.seq} ELSE @]
    BY <1>1 DEF Arrive
  <2> DEFINE a == [of |-> m.of, seq |-> m.seq, sent |-> m.sent, came |-> clock]
  <2>2. /\ \A q \in Rounds : inbox[q] \subseteq inbox'[q]
        /\ m.of \in Open => a \in inbox'[m.of]
    BY <2>1, DeliveredIs
  <2>3. UNCHANGED <<clock, pc, until, got, broken>>
    BY <1>1 DEF Arrive, time
  <2>4. ASSUME NEW p \in Rounds \ broken, NEW k \in came'[p] \ got[p]
        PROVE  /\ \E x \in inbox'[p] : x.of = p /\ x.seq = k
               /\ pc[p] = "tail" => clock < until[p]
    <3>1. CASE k \in came[p]
      BY <2>2, <2>4, <3>1 DEF Unread
    <3>2. CASE k \notin came[p]
      <4>1. p = m.of /\ k = m.seq /\ Readable(p)
        BY <2>1, <2>4, <3>2 DEF Typed, Tallies
      <4> QED BY <2>2, <4>1 DEF Readable
    <3> QED BY <3>1, <3>2
  <2> QED BY <2>3, <2>4 DEF Unread
<1>2. CASE ArriveForeign
  <2>1. \A q \in Rounds : inbox[q] \subseteq inbox'[q]
    BY <1>2, DeliveredIs DEF ArriveForeign
  <2> QED BY <1>2, <2>1 DEF ArriveForeign, Unread, time
<1>3. CASE Tick
  <2>1. \A q \in Rounds : inbox[q] = {}
    BY <1>3 DEF Tick, Idle, Sending, InHand, Typed, Mail, Answer
  <2>2. \A q \in Rounds \ broken : came[q] \subseteq got[q]
    BY <2>1 DEF Unread
  <2> QED BY <1>3, <2>2 DEF Tick, Unread
<1> QED BY <1>1, <1>2, <1>3

\* All of it together.
LEMMA UnreadNext == Typed /\ OwnInv /\ Unread /\ [Next]_vars => Unread'
<1> SUFFICES ASSUME Typed, InHand, Unread, [Next]_vars PROVE Unread'
  BY DEF OwnInv
<1>1. CASE UNCHANGED vars
  BY <1>1 DEF vars, time, Unread
<1>2. CASE Next
  BY <1>2, UnreadUnix, UnreadCalls, UnreadWorld DEF Next
<1> QED BY <1>1, <1>2

(***************************************************************************)
(* Loss is loss: when a round is over, every answer that came before its   *)
(* last window closed has been counted, however late it was and in         *)
(* whatever order, as long as the socket could be read (icmp_unix.go 74).  *)
(***************************************************************************)
THEOREM LossIsLoss == Spec => []NoFalseLoss
<1>1. Init => Typed /\ OwnInv /\ Unread
  BY InitTyped, InitOwn, InitUnread
<1>2. Typed /\ OwnInv /\ Unread /\ [Next]_vars => (Typed /\ OwnInv /\ Unread)'
  BY TypedNext, OwnNext, UnreadNext
<1>3. OwnInv /\ Unread => NoFalseLoss
  BY DEF OwnInv, InHand, Unread, NoFalseLoss, Sending
<1> QED
  BY <1>1, <1>2, <1>3, PTL DEF Spec

-----------------------------------------------------------------------------

(***************************************************************************)
(* A round ends in time.                                                   *)
(***************************************************************************)
\* Products, as the bounds below use them.
LEMMA Products ==
  ASSUME NEW d \in Nat, NEW j \in Nat
  PROVE  /\ j * d \in Nat /\ (j + 1) * d = j * d + d
         /\ \A p \in Nat : j <= p => j * d <= p * d
<1>1. j * d \in Nat /\ (j + 1) * d = j * d + d
  OBVIOUS
<1>2. ASSUME NEW p \in Nat, j <= p PROVE j * d <= p * d
  <2> DEFINE x == p - j
  <2>1. x \in Nat /\ p = j + x
    BY <1>2
  <2>2. x * d \in Nat
    BY <2>1
  <2>3. (j + x) * d = j * d + x * d
    BY <2>1
  <2> HIDE DEF x
  <2> QED BY <1>1, <2>1, <2>2, <2>3
<1> QED BY <1>1, <1>2

\* Without a socket to read there is no mail, and nothing but calls.
LEMMA OnlyCalls ==
  ASSUME Typed, ~Unix, Next
  PROVE  Tick \/ \E q \in Rounds : Begin(q) \/ Calls(q)
<1>1. Open = {}
  BY DEF Typed, Kindly, Open, Sending
<1>2. ~Arrive /\ ~ArriveForeign
  BY <1>1 DEF Arrive, ArriveForeign, Quiet
<1>3. \A q \in Rounds :
        ~(Send(q) \/ SendFails(q) \/ AllSent(q) \/ Recv(q) \/ WindowEnds(q))
  BY DEF Send, SendFails, AllSent, Recv, Reading, WindowEnds, Typed, Kindly, Sending
<1> QED BY <1>2, <1>3 DEF Next

\* Unix: the windows follow each other, and no window outlasts its deadline.
LEMMA UnixTimeNext == Typed /\ UnixTime /\ [Next]_vars => UnixTime'
<1> SUFFICES ASSUME Typed, UnixTime, [Next]_vars PROVE UnixTime'
  OBVIOUS
<1> USE Numbers DEF Typed, Clocks, Tallies, time
<1>1. /\ \A j \in 0..Packets : j * Gap \in Nat /\ (j + 1) * Gap = j * Gap + Gap
      /\ Packets * Gap \in Nat
  BY Products
<1>2. CASE UNCHANGED vars
  BY <1>2 DEF vars, UnixTime
<1>3. ASSUME NEW q \in Rounds,
             Begin(q) \/ Send(q) \/ SendFails(q) \/ AllSent(q) \/ Recv(q) \/ WindowEnds(q)
      PROVE  UnixTime'
  <2>1. \A p \in Rounds : p # q => /\ pc'[p] = pc[p] /\ began'[p] = began[p] /\ i'[p] = i[p]
                                   /\ until'[p] = until[p]
    BY <1>3 DEF Begin, Send, SendFails, AllSent, Recv, WindowEnds, Return
  <2>2. clock' = clock
    BY <1>3 DEF Begin, Send, SendFails, AllSent, Recv, WindowEnds
  <2> DEFINE Ok == /\ pc'[q] = "send" => clock <= began'[q] + i'[q] * Gap
                   /\ pc'[q] = "gap" =>
                        clock <= until'[q] /\ until'[q] <= began'[q] + (i'[q] + 1) * Gap
                   /\ pc'[q] = "tail" =>
                        clock <= until'[q] /\ until'[q] <= began'[q] + Packets * Gap + Timeout
  <2>3. Ok => UnixTime'
    BY <2>1, <2>2 DEF UnixTime
  <2>4. CASE Begin(q)
    BY <1>1, <2>3, <2>4 DEF Begin, Kindly
  <2>5. CASE Send(q)
    BY <1>1, <2>3, <2>5 DEF Send, UnixTime
  <2>6. CASE SendFails(q)
    <3>1. pc'[q] = "send" /\ i'[q] = i[q] + 1 /\ i[q] \in 0..Packets /\ began'[q] = began[q]
      BY <2>6 DEF SendFails
    <3>2. clock <= began[q] + i[q] * Gap
      BY <2>6 DEF SendFails, UnixTime
    <3>3. clock <= began[q] + (i[q] + 1) * Gap
      BY <1>1, <3>1, <3>2
    <3> QED BY <2>3, <3>1, <3>3
  <2>7. CASE AllSent(q)
    BY <1>1, <2>3, <2>7 DEF AllSent, UnixTime
  <2>8. CASE Recv(q)
    BY <2>3, <2>8 DEF Recv, UnixTime
  <2>9. CASE WindowEnds(q)
    BY <1>1, <2>3, <2>9 DEF WindowEnds, Return, UnixTime
  <2> QED BY <1>3, <2>4, <2>5, <2>6, <2>7, <2>8, <2>9
<1>4. ASSUME NEW q \in Rounds, Calls(q) PROVE UnixTime'
  <2>1. pc'[q] \notin Sending /\ clock' = clock
    BY <1>4 DEF Calls, CallsOver, Return, Call, Answered, Lost, Kindly, Sending
  <2>2. \A p \in Rounds : p # q => /\ pc'[p] = pc[p] /\ began'[p] = began[p] /\ i'[p] = i[p]
                                   /\ until'[p] = until[p]
    BY <1>4 DEF Calls, CallsOver, Return, Call, Over, Answered, Lost
  <2> QED BY <2>1, <2>2 DEF UnixTime, Sending
<1>5. CASE Arrive \/ ArriveForeign
  BY <1>5 DEF Arrive, ArriveForeign, UnixTime
<1>6. CASE Tick
  <2>1. \A q \in Rounds : Idle(q)
    BY <1>6 DEF Tick
  <2>2. UNCHANGED <<pc, began, i, until>> /\ clock' = clock + 1
    BY <1>6 DEF Tick
  <2>3. \A q \in Rounds : /\ pc[q] # "send"
                          /\ pc[q] \in {"gap", "tail"} => clock < until[q]
    BY <2>1 DEF Idle
  <2>4. \A q \in Rounds : pc[q] \in {"gap", "tail"} => clock + 1 <= until[q]
    BY <2>3
  <2> QED BY <2>2, <2>3, <2>4 DEF UnixTime
<1> QED BY <1>2, <1>3, <1>4, <1>5, <1>6 DEF Next

\* What the longest round of each kind is.
LEMMA LongestIs ==
  /\ Unix => Longest = Packets * Gap + Timeout
  /\ kind = "helper" => Longest = ((Packets + InFlight - 1) \div InFlight) * Timeout
                                  + (InFlight - 1) * Gap
  /\ kind = "tcp" => Longest = Packets * Timeout + (Packets - 1) * Gap
BY DEF Longest, Unix

\* TCP: the last packet has all the time there is.
LEMMA TcpLongest ==
  ASSUME kind = "tcp"
  PROVE  (Packets - 1) * Period + Timeout = Longest
<1>1. PICK n \in Nat : Packets = n + 1
  <2>1. Packets - 1 \in Nat /\ Packets = (Packets - 1) + 1
    BY Numbers
  <2> QED BY <2>1
<1>2. Packets - 1 = n
  BY <1>1
<1>3. n * Period + Timeout = (n + 1) * Timeout + n * Gap
  BY Numbers DEF Period
<1> QED BY <1>1, <1>2, <1>3, LongestIs

\* TCP: the packets follow each other, a gap after each.
LEMMA TcpTimeNext ==
  ASSUME Typed, TcpTime, [Next]_vars
  PROVE  TcpTime'
<1> SUFFICES ASSUME kind' = "tcp" PROVE TcpTime'
  BY DEF TcpTime
<1> USE Numbers
<1>1. kind = "tcp" /\ ~Unix
  <2>1. kind' = kind
    BY DEF Next, Begin, Send, SendFails, AllSent, Recv, WindowEnds, Calls, CallsOver, Call,
           Answered, Lost, Arrive, ArriveForeign, Tick, time, vars
  <2> QED BY <2>1 DEF Unix
<1>2. /\ Period \in Nat /\ Period = Timeout + Gap
      /\ \A j \in Nat : j * Period \in Nat /\ (j + 1) * Period = j * Period + Period
  <2>1. Period \in Nat
    BY DEF Period
  <2> QED BY <2>1, Products DEF Period
<1>3. (Packets - 1) * Period + Timeout = Longest
  BY <1>1, TcpLongest
<1> USE DEF Typed, Clocks, Tallies, time
<1>4. CASE UNCHANGED vars
  <2>1. UNCHANGED <<clock, kind, pc, began, until, call, sendAt>> /\ Longest' = Longest
    BY <1>4 DEF vars, Longest, Unix
  <2>2. \A p \in Rounds, j \in 0..Packets : TcpAt(p, j) => TcpAt(p, j)'
    BY <2>1 DEF TcpAt, Out
  <2> QED BY <1>1, <2>1, <2>2 DEF TcpTime
<1>5. ASSUME NEW q \in Rounds, Begin(q) \/ Calls(q) PROVE TcpTime'
  <2>1. \A p \in Rounds : p # q => /\ pc'[p] = pc[p] /\ began'[p] = began[p]
                                   /\ until'[p] = until[p] /\ call'[p] = call[p]
                                   /\ sendAt'[p] = sendAt[p]
    BY <1>5 DEF Begin, Calls, CallsOver, Return, Call, Over, Answered, Lost
  <2>2. UNCHANGED <<clock, kind>> /\ Longest' = Longest
    BY <1>1, <1>5 DEF Begin, Calls, CallsOver, Call, Answered, Lost, Longest, Unix
  <2>3. ASSUME pc'[q] = "calls" => \E j \in 0..Packets : TcpAt(q, j)', pc'[q] # "idle"
        PROVE  TcpTime'
    <3>1. \A p \in Rounds \ {q}, j \in 0..Packets : TcpAt(p, j) => TcpAt(p, j)'
      BY <2>1, <2>2 DEF TcpAt, Out
    <3>2. ASSUME NEW p \in Rounds
          PROVE  /\ pc'[p] = "calls" => \E j \in 0..Packets : TcpAt(p, j)'
                 /\ pc'[p] = "idle" => until'[p] = 0
      <4>1. CASE p = q
        BY <2>3, <4>1
      <4>2. CASE p \in Rounds \ {q}
        BY <1>1, <2>1, <3>1, <4>2 DEF TcpTime
      <4> QED BY <4>1, <4>2
    <3> QED BY <3>2 DEF TcpTime
  <2>4. CASE Begin(q)
    <3>1. pc[q] = "idle" /\ until[q] = 0 /\ UNCHANGED <<call, until>>
          /\ began' = [began EXCEPT ![q] = clock] /\ pc'[q] = "calls"
      BY <1>1, <2>4 DEF Begin, TcpTime
    <3>2. \A k \in Seqs : call[q][k] = "wait"
      BY <3>1 DEF Kindly
    <3>3. 0 * Period = 0
      BY <1>2
    <3>4. TcpAt(q, 0)'
      <4>1. clock' = clock /\ clock \in Nat /\ until'[q] = 0 /\ began'[q] = clock
        BY <2>2, <3>1 DEF Typed, Clocks
      <4>2. \A k \in Seqs : k \in Nat /\ ~(k < 0) /\ call'[q][k] = "wait"
        BY <3>1, <3>2
      <4>3. Out(q)' = {}
        BY <4>2 DEF Out
      <4> QED BY <3>3, <4>1, <4>2, <4>3 DEF TcpAt
    <3> QED BY <2>3, <3>1, <3>4
  <2>5. CASE CallsOver(q)
    <3>1. pc'[q] \in {"done", "failed"}
      BY <2>5 DEF CallsOver, Return
    <3> QED BY <2>3, <3>1
  <2>6. ASSUME NEW k \in Seqs, Call(q, k) \/ Answered(q, k) \/ Lost(q, k) PROVE TcpTime'
    <3>1. pc[q] = "calls" /\ pc' = pc /\ UNCHANGED <<clock, began>>
      BY <1>1, <2>6 DEF Call, Answered, Lost, Kindly
    <3>2. PICK j \in 0..Packets : TcpAt(q, j)
      BY <1>1, <3>1 DEF TcpTime
    <3>3. CASE Call(q, k)
      <4>1. /\ call[q][k] = "wait" /\ Due(q, k) /\ call' = [call EXCEPT ![q][k] = "out"]
            /\ sendAt' = [sendAt EXCEPT ![q][k] = clock] /\ UNCHANGED until
        BY <1>1, <3>3 DEF Call
      <4>2. (\A x \in Seqs : x < k <=> call[q][x] = "over") /\ Out(q) = {}
        BY <1>1, <4>1 DEF Due
      <4>3. k = j
        <5>1. \A x \in Seqs : x < k <=> x < j
          BY <3>2, <4>2 DEF TcpAt
        <5>2. ~(k < j)
          BY <5>1
        <5>3. j < k => j \in Seqs
          OBVIOUS
        <5> QED BY <5>1, <5>2, <5>3
      <4>4. clock <= began[q] + j * Period
        BY <3>2, <4>2, <4>3 DEF TcpAt
      <4>5. TcpAt(q, j)'
        BY <1>2, <2>2, <3>1, <3>2, <4>1, <4>2, <4>3, <4>4 DEF TcpAt, Out
      <4> QED BY <2>3, <3>1, <4>5
    <3>4. CASE Answered(q, k) \/ Lost(q, k)
      <4>1. /\ k \in Out(q) /\ call' = [call EXCEPT ![q][k] = "over"]
            /\ until' = [until EXCEPT ![q] = clock + Gap] /\ UNCHANGED sendAt
        BY <1>1, <3>4 DEF Answered, Lost, Over, Out
      <4>2. k = j
        <5>1. call[q][k] = "out"
          BY <4>1 DEF Out
        <5>2. ~(k < j) /\ ~(k > j)
          BY <3>2, <5>1 DEF TcpAt
        <5> QED BY <5>2
      <4>3. clock <= began[q] + j * Period + Timeout
        BY <1>2, <3>2, <4>1 DEF TcpAt
      <4>4. until'[q] <= began[q] + (j + 1) * Period
        BY <1>2, <4>1, <4>3
      <4>5. Out(q)' = {}
        <5>1. \A x \in Seqs : call'[q][x] = IF x = j THEN "over" ELSE call[q][x]
          BY <4>1, <4>2
        <5>2. \A x \in Seqs : x # j => call[q][x] # "out"
          BY <3>2 DEF TcpAt
        <5> QED BY <5>1, <5>2 DEF Out
      <4>6. j + 1 = Packets => clock <= began[q] + Longest
        <5> SUFFICES ASSUME j + 1 = Packets PROVE clock <= began[q] + Longest
          OBVIOUS
        <5>1. j = Packets - 1
          OBVIOUS
        <5>2. clock <= began[q] + ((Packets - 1) * Period + Timeout)
          BY <1>2, <4>3, <5>1
        <5> QED BY <1>3, <5>2
      <4>7. clock <= began[q] + (j + 1) * Period
        BY <1>2, <4>3
      <4>8. \A x \in Seqs : /\ call'[q][x] = "over" <=> x < j + 1
                            /\ x > j + 1 => call'[q][x] = "wait"
        BY <3>2, <4>1, <4>2 DEF TcpAt
      <4>9. TcpAt(q, j + 1)'
        BY <2>2, <3>1, <4>4, <4>5, <4>6, <4>7, <4>8 DEF TcpAt
      <4> QED BY <2>3, <3>1, <4>2, <4>9
    <3> QED BY <2>6, <3>3, <3>4
  <2> QED BY <1>5, <2>4, <2>5, <2>6 DEF Calls
<1>6. CASE Tick
  <2>1. /\ clock' = clock + 1 /\ \A q \in Rounds : Idle(q)
        /\ UNCHANGED <<kind, pc, began, until, call, sendAt>>
    BY <1>6 DEF Tick
  <2>2. Longest' = Longest
    BY <2>1 DEF Longest, Unix
  <2>3. ASSUME NEW q \in Rounds, pc[q] = "calls" PROVE \E j \in 0..Packets : TcpAt(q, j)'
    <3>1. PICK j \in 0..Packets : TcpAt(q, j)
      BY <1>1, <2>3 DEF TcpTime
    <3>2. j < Packets
      <4>1. PICK k \in Seqs : call[q][k] # "over"
        BY <2>1, <2>3 DEF Idle
      <4>2. ~(k < j)
        BY <3>1, <4>1 DEF TcpAt
      <4> QED BY <4>2
    <3>3. \A k \in Out(q) : clock + 1 <= sendAt[q][k] + Timeout
      <4>1. \A k \in Out(q) : clock < sendAt[q][k] + Timeout
        BY <2>1, <2>3 DEF Idle
      <4> QED BY <4>1 DEF Out
    <3>4. ASSUME Out(q) = {} PROVE clock + 1 <= began[q] + j * Period
      <4>1. j \in Seqs /\ call[q][j] = "wait"
        BY <3>1, <3>2, <3>4 DEF TcpAt, Out
      <4>2. ~Due(q, j)
        BY <2>1, <2>3, <4>1 DEF Idle
      <4>3. clock < until[q]
        BY <1>1, <3>1, <3>4, <4>2 DEF Due, TcpAt
      <4> QED BY <1>2, <3>1, <4>3 DEF TcpAt
    <3>5. TcpAt(q, j)'
      BY <2>1, <2>2, <3>1, <3>2, <3>3, <3>4 DEF TcpAt, Out
    <3> QED BY <3>5
  <2> QED BY <1>1, <2>1, <2>3 DEF TcpTime
<1> QED BY <1>1, <1>4, <1>5, <1>6, OnlyCalls

\* How many loads of InFlight packets there are.
Loads == (Packets + InFlight - 1) \div InFlight

\* They are enough for all packets.
LEMMA RoundedUp == Loads \in Nat /\ Loads > 0 /\ Loads * InFlight >= Packets
<1> DEFINE n == Packets + InFlight - 1
<1>1. n \in Nat /\ n >= InFlight /\ InFlight \in Nat /\ InFlight > 0
  BY Numbers
<1> HIDE DEF n
<1>2. /\ n \div InFlight \in Int /\ n % InFlight \in Int
      /\ n = InFlight * (n \div InFlight) + (n % InFlight)
      /\ 0 <= n % InFlight /\ n % InFlight < InFlight
  BY <1>1
<1> DEFINE c == n \div InFlight
           r == n % InFlight
<1>3. c \in Int /\ r \in Int /\ n = InFlight * c + r /\ 0 <= r /\ r < InFlight
  BY <1>2
<1> HIDE DEF c, r
<1>4. InFlight * c > 0
  BY <1>1, <1>3
<1>5. c > 0
  BY <1>1, <1>3, <1>4
<1>6. InFlight * c >= Packets
  BY <1>1, <1>3, Numbers DEF n
<1>7. c * InFlight = InFlight * c
  BY <1>1, <1>3
<1>8. Loads = c
  BY DEF Loads, c, n
<1> QED BY <1>3, <1>5, <1>6, <1>7, <1>8

\* The times of the loads.
LEMMA FullIs ==
  ASSUME Clocks, NEW q \in Rounds, NEW m \in Nat
  PROVE  /\ Full(q, m) \in Nat /\ began[q] \in Nat /\ clock \in Nat
         /\ Full(q, m) = began[q] + (InFlight - 1) * Gap + m * Timeout
<1>1. InFlight - 1 \in Nat /\ Gap \in Nat /\ Timeout \in Nat
  BY Numbers
<1>2. (InFlight - 1) * Gap \in Nat /\ m * Timeout \in Nat
  BY <1>1, Products
<1>3. began[q] \in Nat /\ clock \in Nat
  BY DEF Clocks
<1> DEFINE a == (InFlight - 1) * Gap
           b == m * Timeout
<1>4. Full(q, m) = began[q] + a + b
  BY DEF Full
<1>5. a \in Nat /\ b \in Nat
  BY <1>2
<1> HIDE DEF a, b
<1> QED BY <1>3, <1>4, <1>5 DEF a, b

\* A step that leaves a round alone.
LEMMA HelperKept ==
  ASSUME NEW p \in Rounds, HelperAt(p), clock' = clock, Longest' = Longest,
         began'[p] = began[p], call'[p] = call[p], sendAt'[p] = sendAt[p]
  PROVE  HelperAt(p)'
<1>1. Out(p)' = Out(p)
  BY DEF Out
<1>2. \A m : Full(p, m)' = Full(p, m)
  BY DEF Full
<1>3. \A m : SentBy(p, Full(p, m))' = SentBy(p, Full(p, m))
  BY <1>2 DEF SentBy
<1>4. ASSUME NEW m \in Nat, clock' > Full(p, m)'
      PROVE  \/ Cardinality(SentBy(p, Full(p, m)))' >= (m + 1) * InFlight
             \/ SentBy(p, Full(p, m))' = Seqs
  <2>1. clock > Full(p, m)
    BY <1>2, <1>4
  <2>2. \/ Cardinality(SentBy(p, Full(p, m))) >= (m + 1) * InFlight
        \/ SentBy(p, Full(p, m)) = Seqs
    BY <2>1 DEF HelperAt
  <2>3. SentBy(p, Full(p, m))' = SentBy(p, Full(p, m))
    BY <1>3
  <2> QED BY <2>2, <2>3
<1>5. \A k \in Seqs : call'[p][k] # "wait" => sendAt'[p][k] <= clock'
  BY DEF HelperAt
<1>6. \A k \in Out(p)' : clock' <= sendAt'[p][k] + Timeout
  BY <1>1 DEF HelperAt
<1>7. clock' <= began'[p] + Longest'
  BY DEF HelperAt
<1> QED BY <1>4, <1>5, <1>6, <1>7 DEF HelperAt

\* The packets that are on their way or back.
Gone(q) == {k \in Seqs : call[q][k] # "wait"}

\* Some of the first n packets has not been sent, if fewer than n have and not
\* all have.
LEMMA SomeWaits ==
  ASSUME NEW N \in SUBSET Seqs, NEW n \in Nat, Cardinality(N) < n, N # Seqs
  PROVE  \E k \in Seqs \ N : k < n
<1> USE Numbers
<1>1. IsFiniteSet(Seqs) /\ Cardinality(Seqs) = Packets
  BY FS_Interval DEF Seqs
<1>2. IsFiniteSet(N) /\ Cardinality(N) \in Nat
  BY <1>1, FS_Subset, FS_CardinalityType
<1> SUFFICES ASSUME \A k \in Seqs : k < n => k \in N PROVE FALSE
  OBVIOUS
<1>3. n < Packets
  <2> SUFFICES ASSUME n >= Packets PROVE FALSE
    OBVIOUS
  <2>1. \A k \in Seqs : k \in N
    OBVIOUS
  <2> QED BY <2>1
<1>4. 0..n - 1 \subseteq N
  BY <1>3 DEF Seqs
<1>5. Cardinality(0..n - 1) = n
  BY FS_Interval
<1>6. Cardinality(0..n - 1) <= Cardinality(N)
  BY <1>2, <1>4, FS_Subset
<1> QED BY <1>2, <1>5, <1>6

\* A set of packets that is as large as all of them is all of them.
LEMMA AllSeqs ==
  ASSUME NEW N \in SUBSET Seqs, Cardinality(N) >= Packets
  PROVE  N = Seqs
<1>1. IsFiniteSet(Seqs) /\ Cardinality(Seqs) = Packets
  BY FS_Interval, Numbers DEF Seqs
<1>2. IsFiniteSet(N) /\ Cardinality(N) <= Packets /\ (Cardinality(N) = Packets => N = Seqs)
  BY <1>1, FS_Subset
<1>3. Cardinality(N) \in Nat
  BY <1>2, FS_CardinalityType
<1> QED BY <1>2, <1>3, Numbers

\* Windows: when nothing is left to do at the time of a load, its packets are
\* on their way.  Those of the load before have been waited for, so less than
\* InFlight are out; and the first ones are all due by then, since InFlight
\* gaps are no more than a timeout.
LEMMA LoadsFill ==
  ASSUME Typed, kind = "helper", NEW q \in Rounds, pc[q] = "calls", HelperAt(q), Idle(q),
         NEW m \in Nat, clock = Full(q, m)
  PROVE  Cardinality(Gone(q)) >= (m + 1) * InFlight \/ Gone(q) = Seqs
<1> USE Numbers DEF Typed, Clocks, Tallies
<1>1. Gone(q) \in SUBSET Seqs /\ IsFiniteSet(Gone(q)) /\ Cardinality(Gone(q)) \in Nat
  <2>1. IsFiniteSet(Seqs) /\ Gone(q) \in SUBSET Seqs
    BY FS_Interval DEF Gone, Seqs
  <2> QED BY <2>1, FS_Subset, FS_CardinalityType
<1>2. /\ m * Timeout \in Nat /\ (m + 1) * InFlight = m * InFlight + InFlight
      /\ m * InFlight \in Nat /\ (InFlight - 1) * Gap \in Nat
      /\ (m + 1) * InFlight \in Nat
  BY Products
<1> SUFFICES ASSUME Gone(q) # Seqs, Cardinality(Gone(q)) < (m + 1) * InFlight PROVE FALSE
  BY <1>1, <1>2
<1>3. Cardinality(Out(q)) < InFlight
  <2>1. Out(q) \subseteq Gone(q)
    BY DEF Out, Gone
  <2>2. CASE m = 0
    <3>1. Cardinality(Out(q)) <= Cardinality(Gone(q)) /\ Cardinality(Out(q)) \in Nat
      BY <1>1, <2>1, FS_Subset, FS_CardinalityType
    <3> QED BY <1>1, <1>2, <2>2, <3>1
  <2>3. CASE m # 0
    <3>1. PICK l \in Nat : m = l + 1
      <4>1. m - 1 \in Nat /\ m = (m - 1) + 1
        BY <2>3
      <4> QED BY <4>1
    <3>2. l * Timeout \in Nat /\ m * Timeout = l * Timeout + Timeout
      BY <3>1, Products
    <3>3. Full(q, l) = clock - Timeout /\ clock > Full(q, l)
      <4> DEFINE a == began[q] + (InFlight - 1) * Gap
      <4>1. a \in Nat
        <5> DEFINE b == (InFlight - 1) * Gap
        <5>1. began[q] \in Nat /\ b \in Nat
          BY <1>2
        <5> HIDE DEF b
        <5>2. began[q] + b \in Nat
          BY <5>1
        <5> QED BY <5>2 DEF b
      <4>2. clock = a + m * Timeout /\ Full(q, l) = a + l * Timeout
        BY DEF Full
      <4> HIDE DEF a
      <4> QED BY <3>2, <4>1, <4>2
    <3> DEFINE S == SentBy(q, Full(q, l))
    <3>4. Cardinality(S) >= m * InFlight \/ S = Seqs
      BY <3>1, <3>3 DEF HelperAt
    <3>5. S \subseteq Gone(q) /\ Out(q) \subseteq Gone(q) \ S
      <4>1. \A k \in Out(q) : clock < sendAt[q][k] + Timeout
        BY DEF Idle
      <4>2. \A k \in Out(q) : ~(sendAt[q][k] <= clock - Timeout)
        BY <4>1 DEF Out
      <4> QED BY <2>1, <3>3, <4>2 DEF SentBy, Gone
    <3>6. S # Seqs
      BY <3>5 DEF Gone
    <3>7. /\ Cardinality(Gone(q) \ S) = Cardinality(Gone(q)) - Cardinality(S)
          /\ IsFiniteSet(Gone(q) \ S) /\ IsFiniteSet(S)
      <4>1. IsFiniteSet(S) /\ Gone(q) \cap S = S
        BY <1>1, <3>5, FS_Subset
      <4> QED BY <1>1, <4>1, FS_Difference
    <3>8. Cardinality(Out(q)) <= Cardinality(Gone(q) \ S) /\ Cardinality(Out(q)) \in Nat
      BY <3>5, <3>7, FS_Subset, FS_CardinalityType
    <3>9. Cardinality(S) \in Nat
      BY <3>7, FS_CardinalityType
    <3> HIDE DEF S
    <3> QED BY <1>1, <1>2, <3>4, <3>6, <3>7, <3>8, <3>9
  <2> QED BY <2>2, <2>3
<1>4. PICK k \in Seqs \ Gone(q) : k < (m + 1) * InFlight
  BY <1>1, <1>2, SomeWaits
<1>5. clock >= began[q] + k * Gap
  <2>1. k <= m * InFlight + (InFlight - 1)
    BY <1>2, <1>4
  <2>2. /\ k * Gap <= (m * InFlight + (InFlight - 1)) * Gap
        /\ k * Gap \in Nat
    BY <1>2, <2>1, Products
  <2>3. (m * InFlight + (InFlight - 1)) * Gap = m * (InFlight * Gap) + (InFlight - 1) * Gap
    OBVIOUS
  <2>4. m * (InFlight * Gap) <= m * Timeout
    <3>1. InFlight * Gap \in Nat /\ InFlight * Gap <= Timeout
      BY EchoAssumption
    <3>2. (InFlight * Gap) * m <= Timeout * m
      BY <3>1, Products
    <3> QED BY <3>1, <3>2
  <2>5. k * Gap <= m * Timeout + (InFlight - 1) * Gap
    <3> DEFINE a == m * (InFlight * Gap)
               b == (InFlight - 1) * Gap
               c == m * Timeout
               d == k * Gap
    <3>1. a \in Nat /\ b \in Nat /\ c \in Nat /\ d \in Nat /\ d <= a + b /\ a <= c
      <4>1. InFlight * Gap \in Nat
        OBVIOUS
      <4> QED BY <1>2, <2>2, <2>3, <2>4, <4>1, Products
    <3> HIDE DEF a, b, c, d
    <3>2. d <= c + b
      BY <3>1
    <3> QED BY <3>2 DEF b, c, d
  <2> QED BY <1>2, <2>2, <2>5 DEF Full
<1>6. Due(q, k)
  BY <1>3, <1>5 DEF Due
<1> QED BY <1>4, <1>6 DEF Idle, Gone

\* Windows: each load is on its way a timeout after the one before it.
LEMMA HelperTimeNext ==
  ASSUME Typed, HelperTime, [Next]_vars
  PROVE  HelperTime'
<1> SUFFICES ASSUME kind' = "helper" PROVE HelperTime'
  BY DEF HelperTime
<1> USE Numbers
<1>1. kind = "helper" /\ ~Unix /\ Longest' = Longest
  <2>1. kind' = kind
    BY DEF Next, Begin, Send, SendFails, AllSent, Recv, WindowEnds, Calls, CallsOver, Call,
           Answered, Lost, Arrive, ArriveForeign, Tick, time, vars
  <2> QED BY <2>1 DEF Unix, Longest
<1>2. Longest = Loads * Timeout + (InFlight - 1) * Gap /\ Longest \in Nat
  <2>1. Loads * Timeout \in Nat /\ (InFlight - 1) * Gap \in Nat
    BY RoundedUp, Products
  <2> QED BY <1>1, <2>1, LongestIs DEF Loads
<1>3. \A m \in Nat : m * Timeout \in Nat /\ (InFlight - 1) * Gap \in Nat
  BY Products
<1> USE DEF Typed, Clocks, Tallies, time
<1>4. CASE UNCHANGED vars
  <2>1. UNCHANGED <<clock, kind, pc, began, call, sendAt>>
    BY <1>4 DEF vars
  <2>2. \A p \in Rounds : HelperAt(p) => HelperAt(p)'
    BY <1>1, <2>1, HelperKept
  <2> QED BY <1>1, <2>1, <2>2 DEF HelperTime
<1>5. ASSUME NEW q \in Rounds, Begin(q) \/ Calls(q) PROVE HelperTime'
  <2>1. \A p \in Rounds : p # q => /\ pc'[p] = pc[p] /\ began'[p] = began[p]
                                   /\ call'[p] = call[p] /\ sendAt'[p] = sendAt[p]
    BY <1>5 DEF Begin, Calls, CallsOver, Return, Call, Over, Answered, Lost
  <2>2. UNCHANGED <<clock, kind>>
    BY <1>5 DEF Begin, Calls, CallsOver, Call, Answered, Lost
  <2>3. ASSUME pc'[q] = "calls" => HelperAt(q)'
        PROVE  HelperTime'
    <3>1. \A p \in Rounds \ {q} : HelperAt(p) => HelperAt(p)'
      BY <1>1, <2>1, <2>2, HelperKept
    <3>2. ASSUME NEW p \in Rounds, pc'[p] = "calls" PROVE HelperAt(p)'
      <4>1. CASE p = q
        BY <2>3, <3>2, <4>1
      <4>2. CASE p \in Rounds \ {q}
        BY <1>1, <2>1, <3>1, <3>2, <4>2 DEF HelperTime
      <4> QED BY <4>1, <4>2
    <3> QED BY <3>2 DEF HelperTime
  <2>4. CASE Begin(q)
    <3>1. /\ pc[q] = "idle" /\ UNCHANGED <<call, sendAt>>
          /\ began' = [began EXCEPT ![q] = clock]
      BY <2>4 DEF Begin
    <3>2. \A k \in Seqs : call[q][k] = "wait"
      BY <3>1 DEF Kindly
    <3>3. \A m \in Nat : ~(clock > Full(q, m)')
      <4> SUFFICES ASSUME NEW m \in Nat PROVE ~(clock > Full(q, m)')
        OBVIOUS
      <4>1. Full(q, m)' = clock + (InFlight - 1) * Gap + m * Timeout
        BY <3>1 DEF Full
      <4> DEFINE a == (InFlight - 1) * Gap
                 b == m * Timeout
      <4>2. a \in Nat /\ b \in Nat
        BY <1>3
      <4>3. clock \in Nat /\ Full(q, m)' = clock + a + b
        BY <4>1
      <4> HIDE DEF a, b
      <4> QED BY <4>2, <4>3
    <3>4. HelperAt(q)'
      BY <1>1, <1>2, <2>2, <3>1, <3>2, <3>3 DEF HelperAt, Out
    <3> QED BY <2>3, <3>4
  <2>5. CASE CallsOver(q)
    <3>1. pc'[q] \in {"done", "failed"}
      BY <2>5 DEF CallsOver, Return
    <3> QED BY <2>3, <3>1
  <2>6. ASSUME NEW k \in Seqs, Call(q, k) \/ Answered(q, k) \/ Lost(q, k) PROVE HelperTime'
    <3>1. pc[q] = "calls" /\ UNCHANGED <<clock, pc, began>>
      BY <1>1, <2>6 DEF Call, Answered, Lost, Kindly
    <3>2. HelperAt(q)
      BY <1>1, <3>1 DEF HelperTime
    <3>3. \A m \in Nat : Full(q, m)' = Full(q, m) /\ Full(q, m) \in Nat
      <4>1. \A m \in Nat : Full(q, m)' = Full(q, m)
        BY <3>1 DEF Full
      <4> QED BY <4>1, FullIs
    <3>4. CASE Call(q, k)
      <4>1. /\ call[q][k] = "wait" /\ call'[q][k] \in {"out", "over"}
            /\ \A x \in Seqs : x # k => call'[q][x] = call[q][x] /\ sendAt'[q][x] = sendAt[q][x]
            /\ sendAt'[q][k] = clock
        BY <3>4 DEF Call, Over
      <4>2. \A x \in Seqs : call'[q][x] # "wait" => sendAt'[q][x] <= clock
        BY <3>2, <4>1 DEF HelperAt
      <4>3. \A x \in Out(q)' : clock <= sendAt'[q][x] + Timeout
        BY <3>2, <4>1 DEF HelperAt, Out
      <4>4. ASSUME NEW m \in Nat, clock > Full(q, m)
            PROVE  SentBy(q, Full(q, m))' = SentBy(q, Full(q, m))
        BY <3>3, <4>1, <4>4 DEF SentBy
      <4>5. HelperAt(q)'
        BY <1>1, <3>1, <3>2, <3>3, <4>2, <4>3, <4>4 DEF HelperAt
      <4> QED BY <2>3, <4>5
    <3>5. CASE Answered(q, k) \/ Lost(q, k)
      <4>1. /\ call[q][k] = "out" /\ call'[q][k] = "over" /\ sendAt'[q] = sendAt[q]
            /\ \A x \in Seqs : x # k => call'[q][x] = call[q][x]
        BY <3>5 DEF Answered, Lost, Over
      <4>2. /\ \A x \in Seqs : call'[q][x] # "wait" <=> call[q][x] # "wait"
            /\ Out(q)' \subseteq Out(q)
        BY <4>1 DEF Out
      <4>3. \A t \in Nat : SentBy(q, t)' = SentBy(q, t)
        BY <4>1, <4>2 DEF SentBy
      <4>4. \A m \in Nat : SentBy(q, Full(q, m))' = SentBy(q, Full(q, m))
        BY <3>3, <4>1, <4>2 DEF SentBy
      <4>5. HelperAt(q)'
        BY <1>1, <3>1, <3>2, <3>3, <4>1, <4>2, <4>4 DEF HelperAt
      <4> QED BY <2>3, <4>5
    <3> QED BY <2>6, <3>4, <3>5
  <2> QED BY <1>5, <2>4, <2>5, <2>6 DEF Calls
<1>6. CASE Tick
  <2>1. /\ clock' = clock + 1 /\ \A q \in Rounds : Idle(q)
        /\ UNCHANGED <<kind, pc, began, call, sendAt>>
    BY <1>6 DEF Tick
  <2>2. ASSUME NEW q \in Rounds, pc[q] = "calls" PROVE HelperAt(q)'
    <3>1. HelperAt(q) /\ Idle(q)
      BY <1>1, <2>1, <2>2 DEF HelperTime
    <3>2. \A k \in Out(q) : clock < sendAt[q][k] + Timeout
      BY <2>2, <3>1 DEF Idle
    <3>3. \A m \in Nat : Full(q, m)' = Full(q, m) /\ Full(q, m) \in Nat
      <4>1. \A m \in Nat : Full(q, m)' = Full(q, m)
        BY <2>1 DEF Full
      <4> QED BY <4>1, FullIs
    <3>4. \A m \in Nat : SentBy(q, Full(q, m))' = SentBy(q, Full(q, m))
      BY <2>1, <3>3 DEF SentBy
    <3>5. ASSUME NEW m \in Nat, clock + 1 > Full(q, m)
          PROVE  \/ Cardinality(SentBy(q, Full(q, m))) >= (m + 1) * InFlight
                 \/ SentBy(q, Full(q, m)) = Seqs
      <4>1. CASE clock > Full(q, m)
        BY <3>1, <4>1 DEF HelperAt
      <4>2. CASE clock = Full(q, m)
        <5>1. SentBy(q, Full(q, m)) = Gone(q)
          BY <3>1, <4>2 DEF SentBy, Gone, HelperAt
        <5> QED BY <1>1, <2>2, <3>1, <4>2, <5>1, LoadsFill
      <4>3. clock \in Nat /\ Full(q, m) \in Nat
        BY <3>3
      <4>4. clock > Full(q, m) \/ clock = Full(q, m)
        <5>1. \A x, y \in Nat : x + 1 > y => x > y \/ x = y
          OBVIOUS
        <5> QED BY <3>5, <4>3, <5>1
      <4> QED BY <4>1, <4>2, <4>4
    <3>6. clock # began[q] + Longest
      <4> SUFFICES ASSUME clock = began[q] + Longest PROVE FALSE
        OBVIOUS
      <4>1. PICK l \in Nat : Loads = l + 1
        <5>1. Loads - 1 \in Nat /\ Loads = (Loads - 1) + 1
          BY RoundedUp
        <5> QED BY <5>1
      <4>2. Full(q, l) = clock - Timeout
        <5>1. Loads * Timeout = l * Timeout + Timeout
          BY <4>1, Products
        <5>2. clock = began[q] + ((l * Timeout + Timeout) + (InFlight - 1) * Gap)
          BY <1>2, <5>1
        <5>3. Full(q, l) = began[q] + (InFlight - 1) * Gap + l * Timeout
          BY DEF Full
        <5> QED BY <1>3, <5>2, <5>3
      <4> DEFINE S == SentBy(q, Full(q, l))
      <4>3. Cardinality(S) >= (l + 1) * InFlight \/ S = Seqs
        BY <3>1, <3>3, <4>2 DEF HelperAt
      <4>4. S = Seqs
        <5>1. S \in SUBSET Seqs
          BY DEF SentBy
        <5>2. (l + 1) * InFlight >= Packets /\ (l + 1) * InFlight \in Nat
          BY <4>1, RoundedUp
        <5>3. Cardinality(S) \in Nat
          <6>1. IsFiniteSet(Seqs)
            BY FS_Interval DEF Seqs
          <6> QED BY <5>1, <6>1, FS_Subset, FS_CardinalityType
        <5> HIDE DEF S
        <5>4. S = Seqs \/ Cardinality(S) >= Packets
          BY <4>3, <5>2, <5>3
        <5> QED BY <5>1, <5>4, AllSeqs
      <4>5. \A k \in Seqs : call[q][k] # "wait" /\ sendAt[q][k] <= clock - Timeout
        BY <4>2, <4>4 DEF SentBy
      <4>6. Out(q) = {}
        <5> SUFFICES ASSUME NEW k \in Out(q) PROVE FALSE
          OBVIOUS
        <5>1. k \in Seqs /\ sendAt[q][k] \in Nat /\ clock \in Nat
          BY DEF Out
        <5>2. clock < sendAt[q][k] + Timeout /\ sendAt[q][k] <= clock - Timeout
          BY <3>2, <4>5, <5>1
        <5> QED BY <5>1, <5>2
      <4>7. \A k \in Seqs : call[q][k] = "over"
        BY <4>5, <4>6 DEF Out
      <4> QED BY <2>2, <3>1, <4>7 DEF Idle
    <3>7. clock + 1 <= began[q] + Longest
      <4>1. clock <= began[q] + Longest /\ clock \in Nat /\ began[q] \in Nat
        BY <3>1 DEF HelperAt
      <4>2. \A x, y, z \in Nat : x <= y + z /\ x # y + z => x + 1 <= y + z
        OBVIOUS
      <4> QED BY <1>2, <3>6, <4>1, <4>2
    <3>8. /\ \A k \in Seqs : call'[q][k] # "wait" => sendAt'[q][k] <= clock'
          /\ \A k \in Out(q)' : clock' <= sendAt'[q][k] + Timeout
      BY <2>1, <3>1, <3>2 DEF HelperAt, Out
    <3> QED BY <1>1, <2>1, <3>3, <3>4, <3>5, <3>7, <3>8 DEF HelperAt
  <2> QED BY <1>1, <2>1, <2>2 DEF HelperTime
<1> QED BY <1>1, <1>4, <1>5, <1>6, OnlyCalls

-----------------------------------------------------------------------------

(***************************************************************************)
(* A round ends in time.                                                   *)
(***************************************************************************)
\* No round is under way at first.
LEMMA InitTimes == Init => UnixTime /\ HelperTime /\ TcpTime
BY DEF Init, UnixTime, HelperTime, TcpTime

\* Unix: neither the windows so far nor the last one are longer than they may
\* be.
LEMMA UnixEnds ==
  ASSUME Typed, UnixTime, Unix, NEW q \in Rounds, pc[q] \in Sending
  PROVE  clock <= began[q] + Longest
<1> USE Numbers
<1>1. clock \in Nat /\ began[q] \in Nat /\ until[q] \in Nat /\ i[q] \in 0..Packets
  BY DEF Typed, Clocks
<1>2. i[q] \in Nat /\ i[q] <= Packets /\ (pc[q] = "gap" => i[q] + 1 <= Packets)
  BY <1>1 DEF Typed, Kindly
<1>3. /\ i[q] * Gap \in Nat /\ (i[q] + 1) * Gap \in Nat /\ Packets * Gap \in Nat
      /\ i[q] * Gap <= Packets * Gap
      /\ pc[q] = "gap" => (i[q] + 1) * Gap <= Packets * Gap
  BY <1>2, Products
<1> DEFINE a == i[q] * Gap
           b == (i[q] + 1) * Gap
           c == Packets * Gap
<1>4. Longest = c + Timeout
  BY LongestIs
<1>5. /\ pc[q] = "send" => clock <= began[q] + a
      /\ pc[q] = "gap" => clock <= until[q] /\ until[q] <= began[q] + b
      /\ pc[q] = "tail" => clock <= until[q] /\ until[q] <= began[q] + c + Timeout
  BY DEF UnixTime
<1>6. a \in Nat /\ b \in Nat /\ c \in Nat /\ a <= c /\ (pc[q] = "gap" => b <= c)
  BY <1>3
<1> HIDE DEF a, b, c
<1>7. CASE pc[q] = "send"
  BY <1>1, <1>4, <1>5, <1>6, <1>7
<1>8. CASE pc[q] = "gap"
  BY <1>1, <1>4, <1>5, <1>6, <1>8
<1>9. CASE pc[q] = "tail"
  BY <1>1, <1>4, <1>5, <1>6, <1>9
<1> QED BY <1>7, <1>8, <1>9 DEF Sending

\* TCP: the packet that is out was sent a period after the one before it.
LEMMA TcpEnds ==
  ASSUME Typed, TcpTime, kind = "tcp", NEW q \in Rounds, pc[q] = "calls"
  PROVE  clock <= began[q] + Longest
<1> USE Numbers
<1>1. PICK j \in 0..Packets : TcpAt(q, j)
  BY DEF TcpTime
<1>2. CASE j = Packets
  BY <1>1, <1>2 DEF TcpAt
<1>3. CASE j < Packets
  <2>1. Period \in Nat /\ Packets - 1 \in Nat /\ j \in Nat /\ j <= Packets - 1
    BY <1>3 DEF Period
  <2>2. /\ j * Period \in Nat /\ (Packets - 1) * Period \in Nat
        /\ j * Period <= (Packets - 1) * Period
    BY <2>1, Products
  <2>3. clock \in Nat /\ began[q] \in Nat /\ \A k \in Seqs : sendAt[q][k] \in Nat
    BY DEF Typed, Clocks
  <2> DEFINE a == j * Period
             b == (Packets - 1) * Period
  <2>4. a \in Nat /\ b \in Nat /\ a <= b /\ Longest = b + Timeout
    BY <2>2, TcpLongest
  <2>5. /\ \A k \in Out(q) : sendAt[q][k] <= began[q] + a /\ clock <= sendAt[q][k] + Timeout
        /\ Out(q) = {} => clock <= began[q] + a
    BY <1>1, <1>3 DEF TcpAt
  <2> HIDE DEF a, b
  <2>6. CASE Out(q) = {}
    BY <2>3, <2>4, <2>5, <2>6
  <2>7. CASE Out(q) # {}
    <3>1. PICK k \in Out(q) : TRUE
      BY <2>7
    <3>2. sendAt[q][k] \in Nat
      BY <2>3, <3>1 DEF Out
    <3> QED BY <2>3, <2>4, <2>5, <3>1, <3>2
  <2> QED BY <2>6, <2>7
<1> QED BY <1>1, <1>2, <1>3

\* A round of any kind takes no longer than its packets and the timeout of the
\* last; on Windows, no longer than the loads of InFlight packets it takes, all
\* of them lost (EndsInTime; icmp_windows.go 53-57).
THEOREM RoundsEndInTime == Spec => []EndsInTime
<1> DEFINE TimeInv == UnixTime /\ HelperTime /\ TcpTime
<1>1. Init => Typed /\ TimeInv
  BY InitTyped, InitTimes
<1>2. Typed /\ TimeInv /\ [Next]_vars => (Typed /\ TimeInv)'
  BY TypedNext, UnixTimeNext, HelperTimeNext, TcpTimeNext
<1>3. Typed /\ TimeInv => EndsInTime
  <2> SUFFICES ASSUME Typed, TimeInv, NEW q \in Rounds, pc[q] \notin {"idle", "done", "failed"}
               PROVE  clock <= began[q] + Longest
    BY DEF EndsInTime
  <2>1. pc[q] \in Sending \/ pc[q] = "calls"
    BY DEF Typed, Tallies
  <2>2. kind \in {"raw", "dgram", "helper", "tcp"}
    BY EchoAssumption DEF Typed, Clocks
  <2>3. CASE pc[q] \in Sending
    <3>1. Unix
      BY <2>3 DEF Typed, Kindly
    <3> QED BY <2>3, <3>1, UnixEnds
  <2>4. CASE pc[q] = "calls"
    <3>1. kind \in {"helper", "tcp"}
      BY <2>2, <2>4 DEF Typed, Kindly, Unix
    <3>2. CASE kind = "helper"
      BY <2>4, <3>2 DEF HelperTime, HelperAt
    <3>3. CASE kind = "tcp"
      BY <2>4, <3>3, TcpEnds
    <3> QED BY <3>1, <3>2, <3>3
  <2> QED BY <2>1, <2>3, <2>4
<1> QED BY <1>1, <1>2, <1>3, PTL DEF Spec

-----------------------------------------------------------------------------
(* The mark a round is given afterwards.                                   *)

\* The naturals are well founded.
LEMMA LossesWellFounded == IsWellFoundedOn({p \in Nat \X Nat : p[1] < p[2]}, Nat)
  BY NatLessThanWellFounded DEF OpToRel

\* A set of naturals has a least element, and a bounded one a greatest.
LEMMA LeastLoss ==
  ASSUME NEW T, T \subseteq Nat, T # {}
  PROVE  \E x \in T : \A y \in T : x <= y
  <1>1. PICK x \in T : \A y \in T : ~ (<<y, x>> \in {p \in Nat \X Nat : p[1] < p[2]})
    BY LossesWellFounded, WFMin
  <1>2. \A y \in T : ~(y < x)
    BY <1>1
  <1> QED BY <1>2

\* A bounded set of naturals has a greatest element.
LEMMA GreatestLoss ==
  ASSUME NEW b \in Nat, NEW T, T \subseteq 0..b, T # {}
  PROVE  \E x \in T : \A y \in T : y <= x
  <1> DEFINE U == {b - x : x \in T}
  <1>1. U \subseteq Nat /\ U # {}
    <2>1. \A x \in T : x \in 0..b /\ b - x \in Nat
      OBVIOUS
    <2> QED BY <2>1
  <1>2. PICK u \in U : \A y \in U : u <= y
    <2> HIDE DEF U
    <2> QED BY <1>1, LeastLoss
  <1>3. PICK x \in T : u = b - x
    OBVIOUS
  <1>4. \A y \in T : b - x <= b - y
    BY <1>2, <1>3
  <1> QED BY <1>4

\* How many rounds lost less than v, and how many no more.
LEMMA Counts ==
  ASSUME NEW s \in Seq(Nat), NEW v \in Nat
  PROVE  /\ Below(s, v) \in Nat /\ UpTo(s, v) \in Nat
         /\ Below(s, v) <= UpTo(s, v) /\ UpTo(s, v) <= Len(s)
         /\ Len(s) \in Nat /\ DOMAIN s = 1..Len(s)
         /\ (\A j \in DOMAIN s : s[j] <= v) => UpTo(s, v) = Len(s)
         /\ (\A j \in DOMAIN s : ~(s[j] < v)) => Below(s, v) = 0
         /\ \A w \in Nat : w < v => UpTo(s, w) <= Below(s, v)
  <1> DEFINE A(w) == {j \in DOMAIN s : s[j] < w}
             B(w) == {j \in DOMAIN s : s[j] <= w}
  <1>1. Len(s) \in Nat /\ DOMAIN s = 1..Len(s) /\ \A j \in DOMAIN s : s[j] \in Nat
    OBVIOUS
  <1>2. IsFiniteSet(DOMAIN s) /\ Cardinality(DOMAIN s) = Len(s)
    <2>1. 1 \in Int /\ Len(s) \in Int
      BY <1>1
    <2>2. IsFiniteSet(1..Len(s)) /\ Cardinality(1..Len(s)) = IF 1 > Len(s) THEN 0 ELSE Len(s) - 1 + 1
      BY <2>1, FS_Interval
    <2> QED BY <1>1, <2>2
  <1>3. \A S, T : T \subseteq DOMAIN s /\ S \subseteq T =>
          /\ IsFiniteSet(S) /\ IsFiniteSet(T) /\ Cardinality(S) \in Nat /\ Cardinality(T) \in Nat
          /\ Cardinality(S) <= Cardinality(T) /\ Cardinality(T) <= Len(s)
    <2> TAKE S, T
    <2> HAVE T \subseteq DOMAIN s /\ S \subseteq T
    <2>1. IsFiniteSet(T) /\ Cardinality(T) <= Cardinality(DOMAIN s)
      BY <1>2, FS_Subset, Zenon
    <2>2. IsFiniteSet(S) /\ Cardinality(S) <= Cardinality(T)
      BY <2>1, FS_Subset, Zenon
    <2> QED BY <1>2, <2>1, <2>2, FS_CardinalityType
  <1>4. A(v) \subseteq B(v) /\ B(v) \subseteq DOMAIN s
    BY <1>1
  <1>5. \A w \in Nat : w < v => B(w) \subseteq A(v) /\ A(v) \subseteq DOMAIN s
    BY <1>1
  <1>6. (\A j \in DOMAIN s : s[j] <= v) => B(v) = DOMAIN s
    OBVIOUS
  <1>7. (\A j \in DOMAIN s : ~(s[j] < v)) => A(v) = {}
    OBVIOUS
  <1>8. \A w : Below(s, w) = Cardinality(A(w)) /\ UpTo(s, w) = Cardinality(B(w))
    BY DEF Below, UpTo
  <1> HIDE DEF A, B
  <1>9. Below(s, v) \in Nat /\ UpTo(s, v) \in Nat /\ Below(s, v) <= UpTo(s, v) /\ UpTo(s, v) <= Len(s)
    BY <1>3, <1>4, <1>8
  <1>10. (\A j \in DOMAIN s : s[j] <= v) => UpTo(s, v) = Len(s)
    BY <1>2, <1>6, <1>8
  <1>11. (\A j \in DOMAIN s : ~(s[j] < v)) => Below(s, v) = 0
    BY <1>7, <1>8, FS_EmptySet
  <1>12. \A w \in Nat : w < v => UpTo(s, w) <= Below(s, v)
    BY <1>3, <1>5, <1>8
  <1> QED BY <1>1, <1>9, <1>10, <1>11, <1>12

\* Losses have a bound: the least place without one would have one.
LEMMA LossesBounded ==
  ASSUME NEW n \in Nat, NEW f, \A j \in 1..n : f[j] \in Nat
  PROVE  \E b \in Nat : \A j \in 1..n : f[j] <= b
  <1> DEFINE I(m) == \E b \in Nat : \A j \in 1..m : f[j] <= b
             F == {m \in 0..n : ~I(m)}
  <1>1. I(0)
    <2>1. 0 \in Nat /\ \A j \in 1..0 : f[j] <= 0
      OBVIOUS
    <2> QED BY <2>1
  <1>2. ASSUME NEW m \in 1..n, I(m - 1) PROVE I(m)
    <2>1. m \in Nat /\ f[m] \in Nat
      OBVIOUS
    <2>2. PICK b \in Nat : \A j \in 1..m - 1 : f[j] <= b
      BY <1>2
    <2> DEFINE c == IF b <= f[m] THEN f[m] ELSE b
    <2>3. c \in Nat /\ b <= c /\ f[m] <= c
      BY <2>1
    <2> HIDE DEF c
    <2>4. \A j \in 1..m : j \in 1..m - 1 \/ j = m
      BY <2>1
    <2>5. \A j \in 1..m - 1 : f[j] \in Nat
      BY <2>1
    <2>6. \A j \in 1..m : f[j] <= c
      BY <2>2, <2>3, <2>4, <2>5
    <2> QED BY <2>3, <2>6
  <1> HIDE DEF I
  <1>3. F = {}
    <2> SUFFICES ASSUME F # {} PROVE FALSE
      OBVIOUS
    <2>1. PICK m \in F : \A l \in F : m <= l
      <3>1. F \subseteq Nat
        OBVIOUS
      <3> HIDE DEF F
      <3> QED BY <3>1, LeastLoss
    <2>2. m \in 0..n /\ ~I(m)
      BY <2>1
    <2>3. m \in 1..n
      BY <1>1, <2>2
    <2>4. m - 1 \in 0..n /\ ~(m <= m - 1)
      BY <2>3
    <2>5. I(m - 1)
      BY <2>1, <2>4
    <2> QED BY <1>2, <2>2, <2>3, <2>5
  <1>4. I(n)
    BY <1>3
  <1> QED BY <1>4 DEF I

\* Sorting puts a loss of the window in every place.
LEMMA AscendingIs ==
  ASSUME NEW s \in Seq(Nat), NEW k \in 1..Len(s)
  PROVE  Ascending(s)[k] \in Nat
  <1> DEFINE V == {s[j] : j \in DOMAIN s}
             T == {v \in V : k <= UpTo(s, v)}
  <1>1. Len(s) \in Nat /\ DOMAIN s = 1..Len(s) /\ V \subseteq Nat /\ k \in DOMAIN s
    OBVIOUS
  <1>2. T # {}
    <2>1. PICK b \in Nat : V \subseteq 0..b
      <3>1. \A j \in 1..Len(s) : s[j] \in Nat
        BY <1>1
      <3>2. PICK b \in Nat : \A j \in 1..Len(s) : s[j] <= b
        <4> HIDE DEF V, T
        <4> QED BY <1>1, <3>1, LossesBounded
      <3>3. V \subseteq 0..b
        BY <1>1, <3>1, <3>2
      <3> QED BY <3>3
    <2>2. PICK v \in V : \A y \in V : y <= v
      <3>1. V # {}
        BY <1>1
      <3> HIDE DEF V
      <3> QED BY <2>1, <3>1, GreatestLoss
    <2>3. UpTo(s, v) = Len(s)
      <3>1. v \in Nat /\ \A j \in DOMAIN s : s[j] <= v
        BY <1>1, <2>2
      <3> QED BY <3>1, Counts
    <2> QED BY <2>2, <2>3, <1>1
  <1>3. PICK v \in T : \A y \in T : v <= y
    <2>1. T \subseteq Nat
      BY <1>1
    <2> HIDE DEF T
    <2> QED BY <2>1, <1>2, LeastLoss
  <1>4. v \in V /\ v \in Nat /\ k <= UpTo(s, v)
    BY <1>1, <1>3
  <1>5. Below(s, v) < k
    <2>1. CASE \A j \in DOMAIN s : ~(s[j] < v)
      <3>1. Below(s, v) = 0
        BY <1>4, <2>1, Counts
      <3> QED BY <3>1
    <2>2. CASE \E j \in DOMAIN s : s[j] < v
      <3> DEFINE W == {y \in V : y < v}
      <3>1. W # {} /\ W \subseteq 0..v
        BY <1>1, <1>4, <2>2
      <3>2. PICK w \in W : \A y \in W : y <= w
        <4> HIDE DEF W
        <4> QED BY <3>1, <1>4, GreatestLoss
      <3>3. w \in V /\ w \in Nat /\ w < v
        BY <1>1, <3>2
      <3>4. UpTo(s, w) < k
        <4>1. w \notin T
          BY <1>3, <1>4, <3>3
        <4>2. ~(k <= UpTo(s, w))
          BY <3>3, <4>1
        <4> QED BY <3>3, <4>2, Counts
      <3>5. \A j \in DOMAIN s : s[j] < v <=> s[j] <= w
        <4> TAKE j \in DOMAIN s
        <4>1. s[j] \in V /\ s[j] \in Nat
          BY <1>1
        <4>2. s[j] < v => s[j] \in W
          BY <4>1
        <4> HIDE DEF W, V, T
        <4> QED BY <4>1, <4>2, <3>2, <3>3, <1>4
      <3>6. Below(s, v) = UpTo(s, w)
        BY <3>5 DEF Below, UpTo
      <3> QED BY <3>4, <3>6
    <2> QED BY <2>1, <2>2
  <1>6. Ascending(s)[k] = CHOOSE y \in V : Below(s, y) < k /\ k <= UpTo(s, y)
    BY <1>1 DEF Ascending
  <1>7. Ascending(s)[k] \in V
    <2> HIDE DEF V, T
    <2> QED BY <1>4, <1>5, <1>6
  <1> QED BY <1>1, <1>7

\* A median is not negative.
LEMMA MedianTyped ==
  ASSUME NEW s \in Seq(Nat)
  PROVE  Median2(s) \in Nat
  <1> DEFINE n == Len(s)
  <1>1. n \in Nat
    OBVIOUS
  <1>2. CASE n = 0
    BY <1>2 DEF Median2
  <1>3. CASE n # 0 /\ n % 2 = 1
    <2>1. n \div 2 + 1 \in 1..n
      BY <1>1, <1>3
    <2>2. Ascending(s)[n \div 2 + 1] \in Nat
      BY <2>1, AscendingIs
    <2> QED BY <1>3, <2>2 DEF Median2
  <1>4. CASE n # 0 /\ n % 2 # 1
    <2>1. n \div 2 \in 1..n /\ n \div 2 + 1 \in 1..n
      BY <1>1, <1>4
    <2>2. Ascending(s)[n \div 2] \in Nat /\ Ascending(s)[n \div 2 + 1] \in Nat
      BY <2>1, AscendingIs
    <2> QED BY <1>4, <2>2 DEF Median2
  <1> QED BY <1>2, <1>3, <1>4

\* Of a window most of which is 0, the median is 0.
LEMMA MedianOfHealthy ==
  ASSUME NEW s \in Seq(Nat), 2 * UpTo(s, 0) > Len(s)
  PROVE  Median2(s) = 0
  <1> DEFINE n == Len(s)
             z == UpTo(s, 0)
  <1>1. n \in Nat /\ z \in Nat /\ z <= n /\ DOMAIN s = 1..n /\ Below(s, 0) = 0
    <2>1. 0 \in Nat /\ \A j \in DOMAIN s : ~(s[j] < 0)
      OBVIOUS
    <2> QED BY <2>1, Counts
  <1>2. ASSUME NEW k \in 1..n, k <= z
        PROVE  Ascending(s)[k] = 0
    <2> DEFINE V == {s[j] : j \in DOMAIN s}
    <2>1. 0 \in V
      <3>1. SUFFICES ASSUME 0 \notin V PROVE FALSE
        OBVIOUS
      <3>2. {j \in DOMAIN s : s[j] <= 0} = {}
        <4>1. \A j \in DOMAIN s : s[j] \in Nat /\ s[j] # 0
          BY <3>1
        <4> QED BY <4>1
      <3>3. z = 0
        BY <3>2, FS_EmptySet DEF UpTo
      <3> QED BY <1>2, <1>1, <3>3
    <2>2. Below(s, 0) < k /\ k <= UpTo(s, 0)
      BY <1>1, <1>2
    <2>3. ASSUME NEW v \in V, Below(s, v) < k /\ k <= UpTo(s, v)
          PROVE  v = 0
      <3>1. v \in Nat
        OBVIOUS
      <3>2. SUFFICES ASSUME 0 < v PROVE FALSE
        BY <3>1
      <3>3. z <= Below(s, v) /\ Below(s, v) \in Nat
        BY <3>1, <3>2, Counts
      <3> QED BY <1>1, <1>2, <2>3, <3>3
    <2>4. Ascending(s)[k] = CHOOSE v \in V : Below(s, v) < k /\ k <= UpTo(s, v)
      BY <1>1 DEF Ascending
    <2> HIDE DEF V
    <2> QED BY <2>1, <2>2, <2>3, <2>4
  <1>3. CASE n = 0
    BY <1>3 DEF Median2
  <1>4. CASE n # 0 /\ n % 2 = 1
    <2>1. n \div 2 + 1 \in 1..n /\ n \div 2 + 1 <= z
      BY <1>1, <1>4
    <2>2. Ascending(s)[n \div 2 + 1] = 0
      BY <1>2, <2>1
    <2> QED BY <1>4, <2>2 DEF Median2
  <1>5. CASE n # 0 /\ n % 2 # 1
    <2>1. n \div 2 \in 1..n /\ n \div 2 + 1 \in 1..n /\ n \div 2 <= z /\ n \div 2 + 1 <= z
      BY <1>1, <1>5
    <2>2. Ascending(s)[n \div 2] = 0 /\ Ascending(s)[n \div 2 + 1] = 0
      BY <1>2, <2>1
    <2> QED BY <1>5, <2>2 DEF Median2
  <1> QED BY <1>1, <1>3, <1>4, <1>5

\* What the deviation is the median of.
Deviations(s) ==
  [j \in DOMAIN s |-> IF 2 * s[j] > Median2(s) THEN 2 * s[j] - Median2(s) ELSE Median2(s) - 2 * s[j]]

\* The deviation is the median of as many numbers as the window has.
LEMMA DeviationsAre ==
  ASSUME NEW s \in Seq(Nat)
  PROVE  /\ Deviations(s) \in Seq(Nat) /\ Len(Deviations(s)) = Len(s)
         /\ Mad4(s) = Median2(Deviations(s)) /\ Mad4(s) \in Nat
  <1> DEFINE m == Median2(s)
  <1>1. m \in Nat /\ Len(s) \in Nat /\ DOMAIN s = 1..Len(s) /\ \A j \in 1..Len(s) : s[j] \in Nat
    BY MedianTyped
  <1>2. \A j \in 1..Len(s) : Deviations(s)[j] \in Nat
    <2> TAKE j \in 1..Len(s)
    <2> DEFINE x == s[j]
    <2>1. x \in Nat
      BY <1>1
    <2>2. Deviations(s)[j] = IF 2 * x > m THEN 2 * x - m ELSE m - 2 * x
      BY <1>1 DEF Deviations
    <2> HIDE DEF x, m
    <2> QED BY <2>1, <2>2, <1>1
  <1>3. Deviations(s) \in [1..Len(s) -> Nat]
    <2>1. DOMAIN Deviations(s) = 1..Len(s) /\ Deviations(s) = [j \in 1..Len(s) |-> Deviations(s)[j]]
      BY <1>1 DEF Deviations
    <2> QED BY <1>2, <2>1
  <1>4. Deviations(s) \in Seq(Nat) /\ Len(Deviations(s)) = Len(s)
    BY <1>1, <1>3
  <1>5. Mad4(s) = Median2(Deviations(s))
    BY DEF Mad4, Deviations
  <1> QED BY <1>4, <1>5, MedianTyped

\* Outages do not hide the next one: while more than half of the window lost
\* nothing, a round is marked for two lost probes that are a tenth of it,
\* however much the rest of the window lost (CheckBurst, robustZ).
THEOREM OutagesNeverHide ==
  ASSUME NEW hist \in Seq(Nat), Len(hist) >= Warm, Healthy(hist), NEW sent \in Nat, NEW loss \in Nat
  PROVE  CheckBurst(hist, sent, loss) <=> loss >= 2 /\ 10 * loss >= sent
  <1>1. Median2(hist) = 0
    BY MedianOfHealthy DEF Healthy
  <1>2. Deviations(hist) \in Seq(Nat) /\ Len(Deviations(hist)) = Len(hist)
    BY DeviationsAre
  <1>3. UpTo(Deviations(hist), 0) = UpTo(hist, 0)
    <2>1. \A j \in DOMAIN hist : hist[j] \in Nat
      OBVIOUS
    <2>2. \A x \in Nat : (IF 2 * x > 0 THEN 2 * x - 0 ELSE 0 - 2 * x) <= 0 <=> x <= 0
      OBVIOUS
    <2>3. DOMAIN Deviations(hist) = DOMAIN hist
      BY DEF Deviations
    <2>4. \A j \in DOMAIN hist : Deviations(hist)[j] <= 0 <=> hist[j] <= 0
      BY <1>1, <2>1, <2>2 DEF Deviations
    <2> QED BY <2>3, <2>4 DEF UpTo
  <1>4. Mad4(hist) = 0
    <2>1. 2 * UpTo(Deviations(hist), 0) > Len(Deviations(hist))
      BY <1>2, <1>3 DEF Healthy
    <2> QED BY <2>1, <1>2, MedianOfHealthy, DeviationsAre
  <1>5. ~(Len(hist) < Warm)
    BY WarmAssumption
  <1> QED BY <1>4, <1>5 DEF CheckBurst, Negative

\* A round that is marked for its score lost more than the median of the
\* window (robustZ's score is positive).
THEOREM ScoreAlwaysStandsOut ==
  ASSUME NEW hist \in Seq(Nat), Len(hist) >= Warm, NEW sent \in Nat, NEW loss \in Nat,
         CheckBurst(hist, sent, loss), ~Negative(loss, hist)
  PROVE  2 * loss > Median2(hist)
  <1>1. ~(Len(hist) < Warm)
    BY WarmAssumption
  <1>2. Beyond(loss, hist) /\ Mad4(hist) # 0
    BY <1>1 DEF CheckBurst, Negative
  <1>3. Mad4(hist) \in Nat /\ Median2(hist) \in Nat
    BY DeviationsAre, MedianTyped
  <1>4. \A x, y, z \in Nat : z # 0 /\ 13490 * (2 * x - y) >= 35000 * z => 2 * x > y
    OBVIOUS
  <1> QED BY <1>2, <1>3, <1>4 DEF Beyond

=============================================================================
