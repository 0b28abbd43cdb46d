------------------------------ MODULE RoundLog ------------------------------
(***************************************************************************)
(* What the store promises about recorded rounds, without saying how: a    *)
(* round that was accepted waits in memory, is made durable with others in *)
(* one step, and stays durable.  Waiting rounds are lost only together     *)
(* with the process, or when the database refuses to take them.            *)
(*                                                                         *)
(* Storage is keyed by second: a later round of the same second replaces   *)
(* an earlier one, but a second that has a round never loses it.           *)
(***************************************************************************)
EXTENDS Naturals

CONSTANTS Round,         \* records with a field t, the second of the round
          WritesFail     \* BOOLEAN: may the database refuse a write?

VARIABLES waiting, durable

vars == <<waiting, durable>>

Seconds(S) == {r.t : r \in S}

Init == waiting = {} /\ durable = {}

Accept(r) ==
  /\ waiting' = waiting \cup {r}
  /\ UNCHANGED durable

Commit(S) ==
  /\ S \subseteq waiting
  /\ waiting' = waiting \ S
  /\ durable' \subseteq durable \cup S
  /\ Seconds(durable') = Seconds(durable \cup S)

WriteError(S) ==
  /\ WritesFail
  /\ S \subseteq waiting
  /\ waiting' = waiting \ S
  /\ UNCHANGED durable

\* Crash, or the end of a shutdown: what still waits is gone.
ProcessEnds ==
  /\ waiting' = {}
  /\ UNCHANGED durable

Next ==
  \/ \E r \in Round : Accept(r)
  \/ \E S \in SUBSET waiting : Commit(S) \/ WriteError(S)
  \/ ProcessEnds

Spec == Init /\ [][Next]_vars

=============================================================================
