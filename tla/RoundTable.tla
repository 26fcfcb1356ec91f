----------------------------- MODULE RoundTable -----------------------------
(***************************************************************************)
(* What a governance table promises about its seats (examples/81_govern):  *)
(* only members vote, each has at most one vote on a seat, and a seat      *)
(* changes hands only when the votes that members hold at that moment      *)
(* reach four fifths of them, and never fewer than two.  A member who      *)
(* leaves takes their votes along; a member moves rather than sit twice.   *)
(***************************************************************************)
EXTENDS Integers, FiniteSets

CONSTANTS
  Account,  \* accounts that may sit
  Seat,     \* seats of the table
  None      \* an empty seat, also what a vote to empty one names

VARIABLES
  open,     \* setup has run
  seats,    \* who sits where
  ballots   \* standing votes: [voter, seat, value]

abstractVars == <<open, seats, ballots>>

Members(s) == {s[n] : n \in Seat} \ {None}

Four5ths(k) == IF (k * 4) \div 5 < 2 THEN 2 ELSE (k * 4) \div 5

Agree(b, n, a) == {x.voter : x \in {y \in b : y.seat = n /\ y.value = a}}

\* Seating a at n: whoever sat at n leaves, and a leaves any other seat.
Seated(n, a) ==
  [k \in Seat |-> IF k = n THEN a ELSE IF a # None /\ seats[k] = a THEN None ELSE seats[k]]

TableInit == open = FALSE /\ seats = [n \in Seat |-> None] /\ ballots = {}

\* Setup seats some accounts, no one twice.
OpenTable ==
  /\ ~open /\ open'
  /\ seats' \in [Seat -> Account \cup {None}]
  /\ Members(seats') # {}
  /\ \A j, k \in Seat : seats'[j] = seats'[k] /\ seats'[j] # None => j = k
  /\ UNCHANGED ballots

\* The ballots once v's stands: it replaces the one v had on that seat.
Standing(v, n, a) == {x \in ballots : ~(x.voter = v /\ x.seat = n)} \cup {[voter |-> v, seat |-> n, value |-> a]}

\* Member v votes, and that is all.
Cast(v, n, a) ==
  /\ open /\ UNCHANGED <<open, seats>>
  /\ ballots' = Standing(v, n, a)

\* A vote of member v that completes a quorum of the members of the moment.
Decide(v, n, a) ==
  /\ open /\ UNCHANGED open
  /\ seats' = Seated(n, a) /\ Cardinality(Members(seats')) >= 2
  /\ Cardinality(Agree(Standing(v, n, a), n, a) \cap Members(seats)) >= Four5ths(Cardinality(Members(seats)))
  /\ ballots' = {x \in Standing(v, n, a) : x.voter \in Members(seats')}

TableNext ==
  \/ OpenTable
  \/ \E x \in ballots' : x.voter \in Members(seats) /\ Cast(x.voter, x.seat, x.value)
  \/ \E v \in Members(seats), n \in Seat, a \in Account \cup {None} : Decide(v, n, a)

TableSpec == TableInit /\ [][TableNext]_abstractVars
=============================================================================
