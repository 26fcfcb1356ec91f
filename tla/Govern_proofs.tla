---------------------------- MODULE Govern_proofs ----------------------------
(***************************************************************************)
(* Proofs about Govern, alone and with Reward on the same account, for     *)
(* every number of seats, people and ballots, every order of Invokes,      *)
(* deliveries and losses.                                                  *)
(*                                                                         *)
(* The invariants build on each other.  IInv: seats, members and the count *)
(* of members agree; it is inductive once their types and those of the     *)
(* ballots in flight are known, for a change of seats reads the two maps   *)
(* only at the voted seat and at the proposed member, and TableSound says  *)
(* what they hold there.  VInv adds that votes are members' votes, CInv    *)
(* that a member has one on a topic and that counts are numbers of votes;  *)
(* from it follow the quorums and, with RInv, that both tables are round   *)
(* tables.  AInv says what an account has accumulated.                     *)
(***************************************************************************)
EXTENDS Reward, FiniteSetTheorems, TLAPS

\* The seats that someone sits in.
Taken(f) == {n \in Seat : f[n] # None}

\* The maps name seats and accounts, the count is a number once setup has run.
TypedTables ==
  /\ mc \in [Table -> Nat \cup {None}]
  /\ forward \in [Table -> [Seat -> Account \cup {None}]]
  /\ reverse \in [Table -> [Account -> Seat \cup {None}]]

\* Every ballot that can be counted is one of Ballot.
TypedBallots ==
  /\ script \in Scripts
  /\ \A e \in flight : e.kind = "Invoke" => e.ballot \in Ballot

IInv == TypedTables /\ TypedBallots /\ TableSound

\* A ballot on a seat names an account or nobody.
LEMMA SeatBallotTyped ==
  ASSUME NEW b \in Ballot, b.type = "S"
  PROVE  b.value \in Account \cup {Zero}
BY DEF Ballot

\* A forwarded ballot is a ballot of the L1 table.
LEMMA ForwardTyped ==
  ASSUME NEW b \in Ballot
  PROVE  [b EXCEPT !.table = Genesis] \in Ballot
BY DEF Ballot, Table

\* The seats of a table are finitely many.
LEMMA SeatsFinite ==
  ASSUME NEW f
  PROVE  IsFiniteSet(Taken(f)) /\ Cardinality(Taken(f)) \in Nat
<1>1. IsFiniteSet(Seat) BY FS_Interval, GovernConstants DEF Seat
<1>2. Taken(f) \subseteq Seat BY DEF Taken
<1>3. IsFiniteSet(Taken(f)) BY <1>1, <1>2, FS_Subset
<1> QED BY <1>3, FS_CardinalityType

\* What a change of seats does to the count, in the code's cases.
LEMMA SeatChangeCounts ==
  ASSUME TypedTables, TableSound, NEW t \in Table, mc[t] # None,
         NEW n \in Seat, NEW a \in Account \cup {Zero}, forward[t][n] # a
  PROVE  NewCount(t, n, a) = Cardinality(Taken(NewForward(t, n, a)))
<1> DEFINE f == forward[t]
           g == NewForward(t, n, a)
           m == SeatHeld(t, a)
<1>1. mc[t] = Cardinality(Taken(f)) /\ mc[t] \in Nat
  <2>1. mc[t] = Cardinality({k \in Seat : forward[t][k] # None}) BY DEF TableSound
  <2>2. mc[t] \in Nat BY DEF TypedTables
  <2> QED BY <2>1, <2>2 DEF Taken
<1>2. f \in [Seat -> Account \cup {None}] /\ reverse[t] \in [Account -> Seat \cup {None}]
  BY DEF TypedTables
<1>3. None \notin Account /\ Zero \notin Account /\ Zero # None /\ None \notin Seat
  BY GovernConstants DEF Seat
<1>4. IsFiniteSet(Taken(f)) BY SeatsFinite
<1>5. CASE a = Zero
  <2>1. m = None BY <1>5 DEF SeatHeld
  <2>2. Taken(g) = Taken(f) \ {n} BY <1>2, <1>3, <1>5, <2>1 DEF Taken, NewForward
  <2>3. CASE f[n] = None
    <3>1. Taken(g) = Taken(f) BY <2>2, <2>3 DEF Taken
    <3> QED BY <3>1, <1>1, <1>5, <2>1, <2>3 DEF NewCount
  <2>4. CASE f[n] # None
    <3>1. n \in Taken(f) BY <2>4 DEF Taken
    <3>2. Cardinality(Taken(g)) = Cardinality(Taken(f)) - 1
      BY <3>1, <2>2, <1>4, FS_RemoveElement
    <3> QED BY <3>2, <1>1, <1>5, <2>1, <2>4 DEF NewCount
  <2> QED BY <2>3, <2>4
<1>6. CASE a # Zero /\ m = None
  <2>1. a \in Account BY <1>6
  <2>2. Taken(g) = Taken(f) \cup {n} BY <1>2, <1>3, <1>6, <2>1 DEF Taken, NewForward
  <2>3. CASE f[n] = None
    <3>1. n \notin Taken(f) BY <2>3 DEF Taken
    <3>2. Cardinality(Taken(g)) = Cardinality(Taken(f)) + 1
      BY <3>1, <2>2, <1>4, FS_AddElement
    <3> QED BY <3>2, <1>1, <1>6, <2>3 DEF NewCount
  <2>4. CASE f[n] # None
    <3>1. Taken(g) = Taken(f) BY <2>2, <2>4 DEF Taken
    <3> QED BY <3>1, <1>1, <1>6, <2>4 DEF NewCount
  <2> QED BY <2>3, <2>4
<1>7. CASE a # Zero /\ m # None
  <2>1. a \in Account BY <1>7
  <2>2. m = reverse[t][a] /\ m \in Seat BY <1>2, <1>7, <2>1 DEF SeatHeld
  <2>3. f[m] = a
    <3>1. \A k \in Seat, x \in Account : forward[t][k] = x <=> reverse[t][x] = k
      BY DEF TableSound
    <3> QED BY <2>1, <2>2, <3>1
  <2>4. m # n BY <2>3
  <2>5. Taken(g) = (Taken(f) \ {m}) \cup {n}
    BY <1>2, <1>3, <1>7, <2>1, <2>2, <2>4 DEF Taken, NewForward
  <2>6. m \in Taken(f) BY <1>3, <2>1, <2>2, <2>3 DEF Taken
  <2>7. /\ IsFiniteSet(Taken(f) \ {m})
        /\ Cardinality(Taken(f) \ {m}) = Cardinality(Taken(f)) - 1
    BY <2>6, <1>4, FS_RemoveElement
  <2>8. CASE f[n] = None
    <3>1. n \notin Taken(f) \ {m} BY <2>8 DEF Taken
    <3>2. Cardinality(Taken(g)) = Cardinality(Taken(f) \ {m}) + 1
      BY <3>1, <2>5, <2>7, FS_AddElement
    <3>3. Cardinality(Taken(g)) = mc[t] BY <3>2, <2>7, <1>1
    <3> QED BY <3>3, <1>7, <2>8 DEF NewCount
  <2>9. CASE f[n] # None
    <3>1. Taken(g) = Taken(f) \ {m} BY <2>4, <2>5, <2>9 DEF Taken
    <3> QED BY <3>1, <2>7, <1>1, <1>7, <2>9 DEF NewCount
  <2> QED BY <2>8, <2>9
<1> QED BY <1>5, <1>6, <1>7

\* The maps after a change of seats are inverse to each other again.
LEMMA SeatChangeMaps ==
  ASSUME TypedTables, TableSound, NEW t \in Table,
         NEW n \in Seat, NEW a \in Account \cup {Zero}, forward[t][n] # a
  PROVE  /\ NewForward(t, n, a) \in [Seat -> Account \cup {None}]
         /\ NewReverse(t, n, a) \in [Account -> Seat \cup {None}]
         /\ \A k \in Seat, x \in Account :
              NewForward(t, n, a)[k] = x <=> NewReverse(t, n, a)[x] = k
<1>1. forward[t] \in [Seat -> Account \cup {None}] /\ reverse[t] \in [Account -> Seat \cup {None}]
  BY DEF TypedTables
<1>2. None \notin Account /\ Zero \notin Account /\ Zero # None /\ None \notin Seat
  BY GovernConstants DEF Seat
<1>3. \A k \in Seat, x \in Account : forward[t][k] = x <=> reverse[t][x] = k
  BY DEF TableSound
<1>4. NewForward(t, n, a) \in [Seat -> Account \cup {None}] BY <1>1 DEF NewForward
<1>5. NewReverse(t, n, a) \in [Account -> Seat \cup {None}] BY <1>1 DEF NewReverse
<1>6. ASSUME NEW k \in Seat, NEW x \in Account
      PROVE  NewForward(t, n, a)[k] = x <=> NewReverse(t, n, a)[x] = k
  <2>1. NewForward(t, n, a)[k] =
          IF k = n THEN (IF a = Zero THEN None ELSE a)
          ELSE IF k = SeatHeld(t, a) THEN None ELSE forward[t][k]
    BY DEF NewForward
  <2>2. NewReverse(t, n, a)[x] =
          IF x = a THEN n ELSE IF x = forward[t][n] THEN None ELSE reverse[t][x]
    BY DEF NewReverse
  <2>3. CASE k = n
    <3>1. NewForward(t, n, a)[k] = x <=> x = a BY <2>1, <2>3, <1>2
    <3>2. x # a /\ NewReverse(t, n, a)[x] = k => FALSE
      <4>1. SUFFICES ASSUME x # a, NewReverse(t, n, a)[x] = k PROVE FALSE OBVIOUS
      <4>2. x # forward[t][n] BY <4>1, <2>2, <1>2
      <4>3. reverse[t][x] = n BY <4>1, <4>2, <2>2, <2>3
      <4> QED BY <4>2, <4>3, <1>3
    <3>3. x = a => NewReverse(t, n, a)[x] = k BY <2>2, <2>3
    <3> QED BY <3>1, <3>2, <3>3
  <2>4. CASE k # n
    <3>1. CASE x = a
      <4>1. SeatHeld(t, a) = reverse[t][a] BY <3>1, <1>2 DEF SeatHeld
      <4>2. NewReverse(t, n, a)[x] # k BY <3>1, <2>2, <2>4
      <4>3. NewForward(t, n, a)[k] # x BY <2>1, <2>4, <3>1, <4>1, <1>2, <1>3
      <4> QED BY <4>2, <4>3
    <3>2. CASE x # a
      <4>1. CASE k = SeatHeld(t, a)
        <5>1. a # Zero /\ reverse[t][a] = k BY <4>1, <1>2 DEF SeatHeld
        <5>2. forward[t][k] = a BY <5>1, <1>3
        <5>3. NewForward(t, n, a)[k] # x BY <2>1, <2>4, <4>1, <1>2
        <5>4. reverse[t][x] # k BY <5>2, <3>2, <1>3
        <5> QED BY <5>3, <5>4, <2>2, <3>2, <1>2
      <4>2. CASE k # SeatHeld(t, a)
        <5>1. NewForward(t, n, a)[k] = forward[t][k] BY <2>1, <2>4, <4>2
        <5>2. CASE x = forward[t][n]
          <6>1. reverse[t][x] = n BY <5>2, <1>3
          <6>2. forward[t][k] # x BY <6>1, <1>3, <2>4
          <6> QED BY <5>1, <6>2, <5>2, <2>2, <3>2, <1>2
        <5>3. CASE x # forward[t][n]
          BY <5>1, <5>3, <2>2, <3>2, <1>3
        <5> QED BY <5>2, <5>3
      <4> QED BY <4>1, <4>2
    <3> QED BY <3>1, <3>2
  <2> QED BY <2>3, <2>4
<1> QED BY <1>4, <1>5, <1>6

\* A state in which all the tables' variables are the same, and the ballots
\* in flight are still ballots, is as good.
LEMMA TablesUnchanged ==
  ASSUME IInv, UNCHANGED <<script, mc, forward, reverse>>,
         \A e \in flight' : e \in flight \/ (e.kind = "Invoke" => e.ballot \in Ballot)
  PROVE  IInv'
<1>1. TypedTables' BY DEF IInv, TypedTables
<1>2. TypedBallots' BY DEF IInv, TypedBallots
<1>3. TableSound' BY DEF IInv, TableSound
<1> QED BY <1>1, <1>2, <1>3 DEF IInv

LEMMA InitSound == GovernInit => IInv
<1> SUFFICES ASSUME GovernInit PROVE IInv OBVIOUS
<1>1. TypedTables BY DEF GovernInit, TypedTables
<1>2. TypedBallots BY DEF GovernInit, TypedBallots
<1>3. TableSound
  BY GovernConstants DEF GovernInit, TableSound, Seat
<1> QED BY <1>1, <1>2, <1>3 DEF IInv

LEMMA SetupSound ==
  ASSUME IInv, NEW t \in Table, Setup(t)
  PROVE  IInv'
<1> DEFINE who == InitialMembers[t]
           k   == Cardinality(DOMAIN who)
           fwd == [n \in Seat |-> IF n < k THEN who[n+1] ELSE None]
           rev == [a \in Account |-> IF \E n \in 1 .. k : who[n] = a
                                     THEN (CHOOSE n \in 1 .. k : who[n] = a) - 1 ELSE None]
<1>1. /\ DOMAIN who = 1 .. k /\ k <= SeatCount
      /\ \A j \in 1 .. k : who[j] \in Account
      /\ \A i, j \in 1 .. k : who[i] = who[j] => i = j
  BY GovernParameters DEF Distinct
<1>2. k \in Nat
  <2>1. IsFiniteSet(DOMAIN who) BY GovernParameters
  <2> QED BY <2>1, FS_CardinalityType
<1>3. mc' = [mc EXCEPT ![t] = k] /\ forward' = [forward EXCEPT ![t] = fwd]
      /\ reverse' = [reverse EXCEPT ![t] = rev]
  BY DEF Setup
<1>4. fwd \in [Seat -> Account \cup {None}]
  BY <1>1, <1>2, GovernConstants DEF Seat
<1>5. \A a \in Account : (\E n \in 1 .. k : who[n] = a) =>
         (CHOOSE n \in 1 .. k : who[n] = a) \in 1 .. k /\ who[CHOOSE n \in 1 .. k : who[n] = a] = a
  OBVIOUS
<1>6. rev \in [Account -> Seat \cup {None}]
  BY <1>1, <1>2, <1>5, GovernConstants DEF Seat
<1>7. \A n \in Seat, a \in Account : fwd[n] = a <=> rev[a] = n
  <2> SUFFICES ASSUME NEW n \in Seat, NEW a \in Account PROVE fwd[n] = a <=> rev[a] = n
    OBVIOUS
  <2>1. ASSUME fwd[n] = a PROVE rev[a] = n
    <3>1. n < k /\ who[n+1] = a BY <2>1, GovernConstants
    <3>2. n \in Nat /\ n+1 \in 1 .. k BY <3>1, <1>2, GovernConstants DEF Seat
    <3>3. \E i \in 1 .. k : who[i] = a BY <3>1, <3>2
    <3>4. (CHOOSE i \in 1 .. k : who[i] = a) = n+1 BY <1>1, <1>5, <3>1, <3>2, <3>3
    <3>5. rev[a] = (n+1) - 1 BY <3>3, <3>4
    <3> QED BY <3>2, <3>5
  <2>2. ASSUME rev[a] = n PROVE fwd[n] = a
    <3>1. \E i \in 1 .. k : who[i] = a BY <2>2, GovernConstants DEF Seat
    <3> DEFINE i == CHOOSE j \in 1 .. k : who[j] = a
    <3>2. i \in 1 .. k /\ who[i] = a BY <3>1, <1>5
    <3>3. n = i - 1 BY <3>1, <2>2
    <3> HIDE DEF i
    <3>4. n < k /\ n+1 = i BY <3>2, <3>3, <1>2
    <3> QED BY <3>2, <3>4
  <2> QED BY <2>1, <2>2
<1>8. Cardinality({n \in Seat : fwd[n] # None}) = k
  <2>1. {n \in Seat : fwd[n] # None} = 0 .. k-1
    BY <1>1, <1>2, GovernConstants DEF Seat
  <2>2. Cardinality(0 .. k-1) = k BY <1>2, FS_Interval
  <2> QED BY <2>1, <2>2
<1>9. TypedTables' BY <1>2, <1>3, <1>4, <1>6 DEF IInv, TypedTables
<1>10. TypedBallots' BY DEF IInv, TypedBallots, Setup
<1>11. TableSound'
  <2> SUFFICES ASSUME NEW u \in Table
               PROVE  /\ \A n \in Seat, a \in Account : forward'[u][n] = a <=> reverse'[u][a] = n
                      /\ mc'[u] # None => mc'[u] = Cardinality({n \in Seat : forward'[u][n] # None})
    BY DEF TableSound
  <2>1. CASE u = t
    <3>1. forward'[u] = fwd /\ reverse'[u] = rev /\ mc'[u] = k
      BY <2>1, <1>3 DEF IInv, TypedTables
    <3> HIDE DEF fwd, rev, k
    <3> QED BY <3>1, <1>7, <1>8
  <2>2. CASE u # t
    <3>1. forward'[u] = forward[u] /\ reverse'[u] = reverse[u] /\ mc'[u] = mc[u]
      BY <2>2, <1>3 DEF IInv, TypedTables
    <3> QED BY <3>1 DEF IInv, TableSound
  <2> QED BY <2>1, <2>2
<1> QED BY <1>9, <1>10, <1>11 DEF IInv

LEMMA SeatSound ==
  ASSUME IInv, NEW t \in Table, NEW v \in Account, NEW b \in Ballot, NEW used,
         ActionSeat(t, v, b, used)
  PROVE  IInv'
<1> DEFINE fwd == NewForward(t, b.id, b.value)
           rev == NewReverse(t, b.id, b.value)
<1>1. b.type = "S" /\ mc[t] # None /\ b.id \in Seat /\ forward[t][b.id] # b.value
  BY DEF ActionSeat, Actioned, Accepts, ValidTopic, Seat
<1>2. b.value \in Account \cup {Zero} BY <1>1, SeatBallotTyped
<1>3. /\ mc' = [mc EXCEPT ![t] = NewCount(t, b.id, b.value)]
      /\ forward' = [forward EXCEPT ![t] = fwd] /\ reverse' = [reverse EXCEPT ![t] = rev]
  BY DEF ActionSeat
<1>4. NewCount(t, b.id, b.value) = Cardinality(Taken(fwd))
  BY <1>1, <1>2, SeatChangeCounts DEF IInv
<1>5. Cardinality(Taken(fwd)) \in Nat BY SeatsFinite
<1>6. /\ fwd \in [Seat -> Account \cup {None}] /\ rev \in [Account -> Seat \cup {None}]
      /\ \A k \in Seat, x \in Account : fwd[k] = x <=> rev[x] = k
  BY <1>1, <1>2, SeatChangeMaps DEF IInv
<1>7. TypedTables' BY <1>3, <1>4, <1>5, <1>6 DEF IInv, TypedTables
<1>8. TypedBallots' BY DEF IInv, TypedBallots, ActionSeat, Emits, Counted
<1>9. TableSound'
  <2> SUFFICES ASSUME NEW u \in Table
               PROVE  /\ \A n \in Seat, a \in Account : forward'[u][n] = a <=> reverse'[u][a] = n
                      /\ mc'[u] # None => mc'[u] = Cardinality({n \in Seat : forward'[u][n] # None})
    BY DEF TableSound
  <2>1. CASE u = t
    <3>1. mc'[u] = Cardinality({n \in Seat : fwd[n] # None})
      BY <2>1, <1>3, <1>4 DEF IInv, TypedTables, Taken
    <3> QED BY <2>1, <3>1, <1>3, <1>6 DEF IInv, TypedTables
  <2>2. CASE u # t
    <3>1. forward'[u] = forward[u] /\ reverse'[u] = reverse[u] /\ mc'[u] = mc[u]
      BY <2>2, <1>3 DEF IInv, TypedTables
    <3> QED BY <3>1 DEF IInv, TableSound
  <2> QED BY <2>1, <2>2
<1> QED BY <1>7, <1>8, <1>9 DEF IInv

\* Whatever an accepted vote is about.
LEMMA DecidedSound ==
  ASSUME IInv, NEW t \in Table, NEW v \in Account, NEW b \in Ballot, NEW used,
         Decided(t, v, b, used)
  PROVE  IInv'
<1>1. CASE VoteOnly(t, v, b, used)
  BY <1>1, TablesUnchanged DEF VoteOnly, Emits, Counted
<1>2. CASE ActionReward(t, v, b, used)
  BY <1>2, TablesUnchanged DEF ActionReward, Emits, Counted
<1>3. CASE ActionHook(t, v, b, used)
  BY <1>3, TablesUnchanged DEF ActionHook, Emits, Counted
<1>4. CASE ActionSeat(t, v, b, used) BY <1>4, SeatSound
<1>5. CASE AlreadySeated(t, v, b, used)
  BY <1>5, TablesUnchanged DEF AlreadySeated, Emits, Counted
<1> QED BY <1>1, <1>2, <1>3, <1>4, <1>5 DEF Decided

LEMMA StepSound == IInv /\ [GovernNext]_governVars => IInv'
<1> SUFFICES ASSUME IInv, [GovernNext]_governVars PROVE IInv' OBVIOUS
<1>1. ASSUME NEW t \in Table, Setup(t) PROVE IInv' BY <1>1, SetupSound
<1>2. ASSUME NEW v \in Account, NEW b \in script.ballots,
             ForwardVote(b.table, v, b) \/ Decided(b.table, v, b, {})
      PROVE  IInv'
  <2>1. b \in Ballot BY GovernConstants DEF IInv, TypedBallots
  <2>2. b.table \in Table BY <2>1 DEF Ballot
  <2>3. CASE ForwardVote(b.table, v, b)
    <3>1. [b EXCEPT !.table = Genesis] \in Ballot BY <2>1, ForwardTyped
    <3> QED BY <2>3, <3>1, TablesUnchanged DEF ForwardVote, Emits, Counted
  <2>4. CASE Decided(b.table, v, b, {}) BY <2>1, <2>2, <2>4, DecidedSound
  <2> QED BY <1>2, <2>3, <2>4
<1>3. ASSUME NEW e \in flight, Deliver(e) PROVE IInv'
  <2>1. e.ballot \in Ballot BY <1>3 DEF Deliver, IInv, TypedBallots
  <2>2. Genesis \in Table /\ Table2 \in Account BY DEF Table, Account
  <2> QED BY <1>3, <2>1, <2>2, DecidedSound DEF Deliver
<1>4. ASSUME NEW e \in flight, InstallHook(e) PROVE IInv'
  BY <1>4, TablesUnchanged DEF InstallHook, tableVars
<1>5. ASSUME NEW e \in flight, Lose(e) PROVE IInv'
  BY <1>5, TablesUnchanged DEF Lose, tableVars
<1>6. CASE UNCHANGED governVars BY <1>6, TablesUnchanged DEF governVars, tableVars
<1> QED BY <1>1, <1>2, <1>3, <1>4, <1>5, <1>6 DEF GovernNext

\* The two maps of either table are inverse to each other and the member count
\* is the number of taken seats, after every sequence of setups, votes, seat
\* changes and deliveries (action_seat, setup).
THEOREM TablesStaySound == GovernSpec => []TableSound
<1>1. IInv => TableSound BY DEF IInv
<1> QED BY InitSound, StepSound, <1>1, PTL DEF GovernSpec

-----------------------------------------------------------------------------
(* Votes of members who left *)

\* A table holds no vote before its setup.
NoEarlyVotes ==
  /\ votes = [t \in Table |-> votes[t]]
  /\ \A t \in Table : mc[t] = None => votes[t] = {}

VInv == IInv /\ NoEarlyVotes /\ OnlyMembersVotes

\* A step that leaves a table's votes, maps and count alone.
LEMMA VotesUnchanged ==
  ASSUME VInv, UNCHANGED <<mc, reverse, votes>>, IInv'
  PROVE  VInv'
BY DEF VInv, NoEarlyVotes, OnlyMembersVotes, Members

\* A vote that is accepted is a member's, and moves nobody.
LEMMA RecordKeepsVotes ==
  ASSUME VInv, NEW t \in Table, NEW v \in Account, NEW b \in Ballot,
         Accepts(t, v, b), Record(t, v, b), UNCHANGED <<mc, reverse>>, IInv'
  PROVE  VInv'
<1> DEFINE w == VoteOf(v, t, b)
<1>1. votes' = [votes EXCEPT ![t] = Recast(t, w)] BY DEF Record
<1>2. v \in Members(t) /\ w.voter = v BY DEF Accepts, Members, VoteOf
<1>3. \A x \in Recast(t, w) : x \in votes[t] \/ x = w BY DEF Recast
<1>4. mc[t] # None BY DEF Accepts
<1> HIDE DEF w
<1>5. NoEarlyVotes' BY <1>1, <1>4 DEF VInv, NoEarlyVotes
<1>6. \A u \in Table : Members(u)' = Members(u) BY DEF Members
<1>7. OnlyMembersVotes'
  BY <1>1, <1>2, <1>3, <1>6 DEF VInv, NoEarlyVotes, OnlyMembersVotes, GcTopic
<1> QED BY <1>5, <1>7 DEF VInv

\* A change of seats unseats whoever sat there and nobody else, and collects
\* the votes of that one.
LEMMA SeatKeepsVotes ==
  ASSUME VInv, NEW t \in Table, NEW v \in Account, NEW b \in Ballot, NEW used,
         ActionSeat(t, v, b, used), IInv'
  PROVE  VInv'
<1> DEFINE w == VoteOf(v, t, b)
           p == forward[t][b.id]
           gone == IF p = None THEN {} ELSE Collected(Recast(t, w), p)
<1>1. votes' = [votes EXCEPT ![t] = Recast(t, w) \ gone] BY DEF ActionSeat
<1>2. v \in Members(t) /\ w.voter = v
  BY DEF ActionSeat, Actioned, Accepts, Members, VoteOf
<1>3. \A x \in Recast(t, w) : x \in votes[t] \/ x = w BY DEF Recast
<1>4. mc[t] # None BY DEF ActionSeat, Actioned, Accepts
<1>5. \A x \in Recast(t, w) \ gone : GcTopic(x) /\ p # None => x.voter # p
  BY DEF Collected
<1>6. reverse' = [reverse EXCEPT ![t] = NewReverse(t, b.id, b.value)] BY DEF ActionSeat
<1>7. b.id # None BY GovernConstants DEF Ballot
<1>8. \A x \in Members(t) : x # p => x \in Members(t)'
  BY <1>6, <1>7 DEF Members, NewReverse, VInv, IInv, TypedTables
<1>9. None \notin Members(t) BY GovernConstants DEF Members
<1>10. \A u \in Table : u # t => Members(u)' = Members(u)
  BY <1>6 DEF Members, VInv, IInv, TypedTables
<1> HIDE DEF w, p, gone
<1>11. NoEarlyVotes'
  <2>1. mc[t] \in Nat BY <1>4 DEF VInv, IInv, TypedTables
  <2>2. NewCount(t, b.id, b.value) \in Int BY <2>1 DEF NewCount
  <2>3. mc' = [mc EXCEPT ![t] = NewCount(t, b.id, b.value)] BY DEF ActionSeat
  <2>4. mc'[t] # None BY <2>2, <2>3, GovernConstants DEF VInv, IInv, TypedTables
  <2>5. \A u \in Table : u # t => mc'[u] = mc[u] BY <2>3 DEF VInv, IInv, TypedTables
  <2> QED BY <1>1, <2>4, <2>5 DEF VInv, NoEarlyVotes
<1>12. \A x \in votes'[t] : GcTopic(x) => x.voter \in Members(t)'
  BY <1>1, <1>2, <1>3, <1>5, <1>8, <1>9 DEF VInv, NoEarlyVotes, OnlyMembersVotes
<1>13. \A u \in Table : u # t => votes'[u] = votes[u] BY <1>1 DEF VInv, NoEarlyVotes
<1>14. OnlyMembersVotes'
  BY <1>10, <1>12, <1>13 DEF VInv, OnlyMembersVotes, GcTopic
<1> QED BY <1>11, <1>14 DEF VInv

LEMMA DecidedKeepsVotes ==
  ASSUME VInv, NEW t \in Table, NEW v \in Account, NEW b \in Ballot, NEW used,
         Decided(t, v, b, used)
  PROVE  VInv'
<1>1. IInv' BY DecidedSound DEF VInv
<1>2. CASE VoteOnly(t, v, b, used)
  BY <1>1, <1>2, RecordKeepsVotes DEF VoteOnly
<1>3. CASE ActionReward(t, v, b, used)
  BY <1>1, <1>3, RecordKeepsVotes DEF ActionReward, Actioned
<1>4. CASE ActionHook(t, v, b, used)
  BY <1>1, <1>4, RecordKeepsVotes DEF ActionHook, Actioned
<1>5. CASE ActionSeat(t, v, b, used) BY <1>1, <1>5, SeatKeepsVotes
<1>6. CASE AlreadySeated(t, v, b, used)
  BY <1>1, <1>6, RecordKeepsVotes DEF AlreadySeated, Actioned
<1> QED BY <1>2, <1>3, <1>4, <1>5, <1>6 DEF Decided

LEMMA StepKeepsVotes == VInv /\ [GovernNext]_governVars => VInv'
<1> SUFFICES ASSUME VInv, [GovernNext]_governVars PROVE VInv' OBVIOUS
<1> USE DEF VInv
<1>0. IInv' BY StepSound
<1>1. ASSUME NEW t \in Table, Setup(t) PROVE VInv'
  <2>1. votes[t] = {} /\ votes' = votes BY <1>1 DEF Setup, NoEarlyVotes
  <2>2. \A u \in Table : u # t => mc'[u] = mc[u] /\ Members(u)' = Members(u)
    BY <1>1 DEF Setup, Members, IInv, TypedTables
  <2>3. NoEarlyVotes' BY <2>1, <2>2 DEF NoEarlyVotes
  <2>4. OnlyMembersVotes' BY <2>1, <2>2 DEF OnlyMembersVotes, GcTopic
  <2> QED BY <1>0, <2>3, <2>4
<1>2. ASSUME NEW v \in Account, NEW b \in script.ballots,
             ForwardVote(b.table, v, b) \/ Decided(b.table, v, b, {})
      PROVE  VInv'
  <2>1. b \in Ballot BY GovernConstants DEF IInv, TypedBallots
  <2>2. b.table \in Table BY <2>1 DEF Ballot
  <2>3. CASE ForwardVote(b.table, v, b)
    BY <1>0, <2>1, <2>2, <2>3, RecordKeepsVotes DEF ForwardVote, Actioned
  <2>4. CASE Decided(b.table, v, b, {}) BY <2>1, <2>2, <2>4, DecidedKeepsVotes
  <2> QED BY <1>2, <2>3, <2>4
<1>3. ASSUME NEW e \in flight, Deliver(e) PROVE VInv'
  <2>1. e.ballot \in Ballot BY <1>3 DEF Deliver, IInv, TypedBallots
  <2>2. Genesis \in Table /\ Table2 \in Account BY DEF Table, Account
  <2> QED BY <1>3, <2>1, <2>2, DecidedKeepsVotes DEF Deliver
<1>4. ASSUME NEW e \in flight, InstallHook(e) \/ Lose(e) PROVE VInv'
  BY <1>0, <1>4, VotesUnchanged DEF InstallHook, Lose, tableVars
<1>5. CASE UNCHANGED governVars BY <1>0, <1>5, VotesUnchanged DEF governVars, tableVars
<1> QED BY <1>1, <1>2, <1>3, <1>4, <1>5 DEF GovernNext

\* A vote on any topic but the last hook position stands only while its voter
\* is a member: whoever leaves a table takes their votes along, at both layers
\* (garbage_collect_votes), and nobody else's votes are taken.
THEOREM OnlyMembersVotesStand == GovernSpec => []OnlyMembersVotes
<1>1. GovernInit => VInv
  BY InitSound DEF GovernInit, VInv, NoEarlyVotes, OnlyMembersVotes
<1>2. VInv => OnlyMembersVotes BY DEF VInv
<1> QED BY <1>1, <1>2, StepKeepsVotes, PTL DEF GovernSpec

-----------------------------------------------------------------------------
(* Counts *)

\* The votes of vs that are counted under key k.
Stand(vs, k) == {x \in vs : CountKey(x) = k}

\* A count is a byte.  It holds what is counted under k when that is members'
\* votes alone, for a table has fewer than 256 seats, or when there are not as
\* many accounts.  On the last hook position, whose votes are not collected,
\* votes of 256 accounts that were members in turn wrap the count to zero.
ByteHolds(k) == GcTopic(k) \/ Cardinality(Account) < 256

\* The counts c say how many votes of vs stand under every key a byte holds.
Exact(c, vs) ==
  /\ IsFiniteSet(vs)
  /\ \A x \in vs : ByteHolds(CountKey(x)) => CountKey(x) \in DOMAIN c
  /\ \A k \in DOMAIN c : ByteHolds(k) => c[k] = Cardinality(Stand(vs, k))

\* One vote per voter, layer and topic, and only accounts vote.
OneEach(vs) ==
  /\ \A x \in vs : x.voter \in Account
  /\ \A x, y \in vs : SameVote(x, y) => x = y

LEMMA AccountsFinite == IsFiniteSet(Account)
<1>1. IsFiniteSet({Genesis}) BY FS_Singleton
<1>2. IsFiniteSet({Table2}) BY FS_Singleton
<1>3. Table = {Genesis} \cup {Table2} BY DEF Table
<1>4. IsFiniteSet(Table) BY <1>1, <1>2, <1>3, FS_Union
<1> QED BY <1>4, GovernConstants, FS_Union DEF Account

LEMMA StandFinite ==
  ASSUME NEW vs, IsFiniteSet(vs), NEW k
  PROVE  IsFiniteSet(Stand(vs, k)) /\ Cardinality(Stand(vs, k)) \in Nat
BY FS_Subset, FS_CardinalityType DEF Stand

\* Keys tell topics and layers apart.
LEMMA KeyNamesTopic ==
  ASSUME NEW x, NEW y, CountKey(x) = CountKey(y)
  PROVE  x.layer = y.layer /\ x.type = y.type /\ x.id = y.id
<1> DEFINE kx == CountKey(x)
           ky == CountKey(y)
<1>1. kx.layer = x.layer /\ kx.type = x.type /\ kx.id = x.id BY DEF CountKey
<1>2. ky.layer = y.layer /\ ky.type = y.type /\ ky.id = y.id BY DEF CountKey
<1> QED BY <1>1, <1>2

\* A key is of the topic of the votes counted under it.
LEMMA KeyOfTopic ==
  ASSUME NEW x
  PROVE  GcTopic(CountKey(x)) <=> GcTopic(x)
<1>1. CountKey(x).type = x.type /\ CountKey(x).id = x.id BY DEF CountKey
<1> QED BY <1>1 DEF GcTopic

\* What stands under one key are votes of different people.
LEMMA StandBound ==
  ASSUME NEW vs, IsFiniteSet(vs), OneEach(vs), NEW k, NEW M, IsFiniteSet(M),
         \A x \in Stand(vs, k) : x.voter \in M
  PROVE  Cardinality(Stand(vs, k)) <= Cardinality(M)
<1> DEFINE S == Stand(vs, k)
           f == [x \in S |-> x.voter]
<1>2. f \in Injection(S, M)
  <2>1. f \in [S -> M] OBVIOUS
  <2>2. ASSUME NEW x \in S, NEW y \in S, f[x] = f[y] PROVE x = y
    <3>1. x.voter = y.voter BY <2>2
    <3>2. CountKey(x) = CountKey(y) /\ x \in vs /\ y \in vs BY DEF Stand
    <3>3. SameVote(x, y) BY <3>1, <3>2, KeyNamesTopic DEF SameVote
    <3> QED BY <3>2, <3>3 DEF OneEach
  <2> QED BY <2>1, <2>2 DEF Injection, IsInjective
<1> HIDE DEF f, S
<1> QED BY <1>2, FS_Injection DEF S

\* Taking a vote back.
LEMMA LessExact ==
  ASSUME NEW c, NEW vs, Exact(c, vs), NEW o \in vs
  PROVE  Exact(Less(c, CountKey(o)), vs \ {o})
<1> DEFINE k0 == CountKey(o)
           ws == vs \ {o}
           d == Less(c, k0)
<1>1. IsFiniteSet(ws) BY FS_RemoveElement DEF Exact
<1>2. Stand(ws, k0) = Stand(vs, k0) \ {o} /\ o \in Stand(vs, k0) BY DEF Stand
<1>3. \A k : k # k0 => Stand(ws, k) = Stand(vs, k) BY DEF Stand
<1>4. ByteHolds(k0) => c[k0] = Cardinality(Stand(vs, k0)) /\ k0 \in DOMAIN c BY DEF Exact
<1>5. IsFiniteSet(Stand(vs, k0)) BY StandFinite DEF Exact
<1>6. ByteHolds(k0) => Cardinality(Stand(ws, k0)) = c[k0] - 1 /\ c[k0] \in Nat
  <2>1. Cardinality(Stand(vs, k0)) \in Nat BY <1>5, FS_CardinalityType
  <2>2. Cardinality(Stand(vs, k0) \ {o}) = Cardinality(Stand(vs, k0)) - 1
    BY <1>2, <1>5, FS_RemoveElement
  <2> QED BY <1>2, <1>4, <2>1, <2>2
<1>7. IsFiniteSet(Stand(ws, k0)) BY <1>1, StandFinite
<1>8. CASE c[k0] <= 1
  <2>1. d = [x \in DOMAIN c \ {k0} |-> c[x]] BY <1>8 DEF Less
  <2>2. ByteHolds(k0) => Cardinality(Stand(ws, k0)) = 0
    BY <1>6, <1>7, <1>8, FS_CardinalityType
  <2>3. ByteHolds(k0) => Stand(ws, k0) = {} BY <2>2, <1>7, FS_EmptySet
  <2>4. \A x \in ws : ByteHolds(CountKey(x)) => CountKey(x) \in DOMAIN d
    BY <2>1, <2>3 DEF Stand, Exact
  <2>5. \A k \in DOMAIN d : ByteHolds(k) => d[k] = Cardinality(Stand(ws, k))
    BY <2>1, <1>3 DEF Exact
  <2> QED BY <1>1, <2>4, <2>5 DEF Exact
<1>9. CASE ~(c[k0] <= 1)
  <2>1. d = [c EXCEPT ![k0] = @ - 1] BY <1>9 DEF Less
  <2>2. \A x \in ws : ByteHolds(CountKey(x)) => CountKey(x) \in DOMAIN d BY <2>1 DEF Exact
  <2>3. \A k \in DOMAIN d : ByteHolds(k) => d[k] = Cardinality(Stand(ws, k))
    BY <2>1, <1>3, <1>4, <1>6 DEF Exact
  <2> QED BY <1>1, <2>2, <2>3 DEF Exact
<1> QED BY <1>8, <1>9

\* Counting one more, as long as a byte holds it.
LEMMA MoreExact ==
  ASSUME NEW c, NEW vs, Exact(c, vs), NEW w, w \notin vs,
         ByteHolds(CountKey(w)) => Cardinality(Stand(vs \cup {w}, CountKey(w))) < 256
  PROVE  Exact(More(c, CountKey(w)), vs \cup {w})
<1> DEFINE k0 == CountKey(w)
           ws == vs \cup {w}
           d == More(c, k0)
<1>1. IsFiniteSet(ws) BY FS_AddElement DEF Exact
<1>2. Stand(ws, k0) = Stand(vs, k0) \cup {w} /\ w \notin Stand(vs, k0) BY DEF Stand
<1>3. \A k : k # k0 => Stand(ws, k) = Stand(vs, k) BY DEF Stand
<1>4. IsFiniteSet(Stand(vs, k0)) BY StandFinite DEF Exact
<1>5. Cardinality(Stand(ws, k0)) = Cardinality(Stand(vs, k0)) + 1
      /\ Cardinality(Stand(vs, k0)) \in Nat
  BY <1>2, <1>4, FS_AddElement, FS_CardinalityType
<1>6. d = [x \in DOMAIN c \cup {k0} |->
             IF x # k0 THEN c[x] ELSE IF k0 \in DOMAIN c THEN (c[k0] + 1) % 256 ELSE 1]
  BY DEF More
<1>7. \A x \in ws : ByteHolds(CountKey(x)) => CountKey(x) \in DOMAIN d BY <1>6 DEF Exact
<1>8. \A k \in DOMAIN d : k # k0 /\ ByteHolds(k) => d[k] = Cardinality(Stand(ws, k))
  BY <1>3, <1>6 DEF Exact
<1>9. ASSUME ByteHolds(k0) PROVE d[k0] = Cardinality(Stand(ws, k0))
  <2>1. CASE k0 \in DOMAIN c
    <3>1. c[k0] = Cardinality(Stand(vs, k0)) BY <1>9, <2>1 DEF Exact
    <3>2. d[k0] = (c[k0] + 1) % 256 BY <1>6, <2>1
    <3>3. \A n \in Nat : n < 256 => n % 256 = n OBVIOUS
    <3> QED BY <1>5, <1>9, <3>1, <3>2, <3>3
  <2>2. CASE k0 \notin DOMAIN c
    <3>1. Stand(vs, k0) = {} BY <1>9, <2>2 DEF Stand, Exact
    <3> QED BY <1>5, <1>6, <2>2, <3>1, FS_EmptySet
  <2> QED BY <2>1, <2>2
<1> QED BY <1>1, <1>7, <1>8, <1>9 DEF Exact

\* Taking back every vote of one account, which has one per topic.
LEMMA UncountExact ==
  ASSUME NEW c, NEW vs, Exact(c, vs), OneEach(vs), NEW p, NEW gone \in SUBSET vs,
         \A x \in gone : x.voter = p
  PROVE  Exact(Uncount(c, gone), vs \ gone)
<1> DEFINE hit == {CountKey(x) : x \in gone}
           ws == vs \ gone
           d == Uncount(c, gone)
<1>1. IsFiniteSet(ws) BY FS_Subset DEF Exact
<1>2. \A k \in DOMAIN c : k \notin hit => Stand(ws, k) = Stand(vs, k) BY DEF Stand
<1>3. ASSUME NEW k \in hit, ByteHolds(k)
      PROVE  k \in DOMAIN c /\ c[k] \in Nat /\ Cardinality(Stand(ws, k)) = c[k] - 1
  <2> PICK o \in gone : CountKey(o) = k OBVIOUS
  <2>1. ASSUME NEW x \in gone, CountKey(x) = k PROVE x = o
    <3>1. SameVote(x, o) BY <2>1, KeyNamesTopic DEF SameVote
    <3> QED BY <3>1 DEF OneEach
  <2>2. Stand(ws, k) = Stand(vs, k) \ {o} /\ o \in Stand(vs, k) BY <2>1 DEF Stand
  <2>3. k \in DOMAIN c /\ c[k] = Cardinality(Stand(vs, k)) BY <1>3 DEF Exact
  <2>4. IsFiniteSet(Stand(vs, k)) /\ Cardinality(Stand(vs, k)) \in Nat
    BY StandFinite DEF Exact
  <2>5. Cardinality(Stand(vs, k) \ {o}) = Cardinality(Stand(vs, k)) - 1
    BY <2>2, <2>4, FS_RemoveElement
  <2> QED BY <2>2, <2>3, <2>4, <2>5
<1>4. d = [k \in {k \in DOMAIN c : k \notin hit \/ c[k] > 1} |-> IF k \in hit THEN c[k] - 1 ELSE c[k]]
  BY DEF Uncount
<1>5. \A k \in DOMAIN d : ByteHolds(k) => d[k] = Cardinality(Stand(ws, k))
  BY <1>2, <1>3, <1>4 DEF Exact
<1>6. ASSUME NEW x \in ws, ByteHolds(CountKey(x)) PROVE CountKey(x) \in DOMAIN d
  <2> DEFINE k == CountKey(x)
  <2>1. k \in DOMAIN c BY <1>6 DEF Exact
  <2>2. CASE k \notin hit BY <2>1, <2>2, <1>4
  <2>3. CASE k \in hit
    <3>1. x \in Stand(ws, k) BY DEF Stand
    <3>2. IsFiniteSet(Stand(ws, k)) BY <1>1, StandFinite
    <3>3. Cardinality(Stand(ws, k)) # 0 BY <3>1, <3>2, FS_EmptySet
    <3>4. Cardinality(Stand(ws, k)) \in Nat BY <3>2, FS_CardinalityType
    <3>5. c[k] > 1 BY <1>6, <2>3, <1>3, <3>3, <3>4
    <3> QED BY <2>1, <3>5, <1>4
  <2> QED BY <2>2, <2>3
<1> QED BY <1>1, <1>5, <1>6 DEF Exact

\* Replacing the vote that stands for the topic of a new one, where the votes
\* on collected topics are those of a table's members M.
LEMMA RecordExact ==
  ASSUME NEW t \in Table, Exact(counts[t], votes[t]), OneEach(votes[t]),
         NEW w, w.voter \in Account, w \notin votes[t],
         NEW M, IsFiniteSet(M), Cardinality(M) < 256,
         \A x \in votes[t] \cup {w} : GcTopic(x) => x.voter \in M
  PROVE  Exact(Recount(t, w), Recast(t, w)) /\ OneEach(Recast(t, w))
<1> DEFINE vs == votes[t]
           prev == Previous(t, w)
           old == {CountKey(x) : x \in prev}
<1>1. Recast(t, w) = (vs \ prev) \cup {w} BY DEF Recast
<1>2. prev = {x \in vs : SameVote(x, w)} BY DEF Previous
<1>3. OneEach(Recast(t, w))
  <2>1. \A x \in Recast(t, w) : x.voter \in Account BY <1>1 DEF OneEach
  <2>2. \A x, y : SameVote(x, y) => SameVote(y, x) BY DEF SameVote
  <2>3. \A x \in Recast(t, w) : x # w => x \in vs /\ ~SameVote(x, w) BY <1>1, <1>2
  <2>4. \A x, y \in Recast(t, w) : SameVote(x, y) => x = y BY <2>2, <2>3 DEF OneEach
  <2> QED BY <2>1, <2>4 DEF OneEach
<1>4. IsFiniteSet(Recast(t, w))
  <2>1. IsFiniteSet(vs \ prev) BY FS_Difference DEF Exact
  <2> QED BY <1>1, <2>1, FS_AddElement
<1>5. ASSUME ByteHolds(CountKey(w))
      PROVE  Cardinality(Stand(Recast(t, w), CountKey(w))) < 256
  <2> DEFINE S == Stand(Recast(t, w), CountKey(w))
  <2>1. Cardinality(S) \in Nat BY <1>4, StandFinite
  <2>2. ASSUME GcTopic(CountKey(w)) PROVE Cardinality(S) < 256
    <3>1. \A x \in S : x.voter \in M
      <4> SUFFICES ASSUME NEW x \in S PROVE x.voter \in M OBVIOUS
      <4>1. x \in vs \cup {w} /\ CountKey(x) = CountKey(w) BY <1>1 DEF Stand
      <4>2. GcTopic(x) BY <2>2, <4>1, KeyOfTopic
      <4> QED BY <4>1, <4>2
    <3>2. Cardinality(S) <= Cardinality(M) BY <1>3, <1>4, <3>1, StandBound
    <3>3. Cardinality(M) \in Nat BY FS_CardinalityType
    <3> QED BY <2>1, <3>2, <3>3
  <2>3. ASSUME Cardinality(Account) < 256 PROVE Cardinality(S) < 256
    <3>1. \A x \in S : x.voter \in Account BY <1>3 DEF Stand, OneEach
    <3>2. Cardinality(S) <= Cardinality(Account)
      BY <1>3, <1>4, <3>1, AccountsFinite, StandBound
    <3>3. Cardinality(Account) \in Nat BY AccountsFinite, FS_CardinalityType
    <3> QED BY <2>1, <2>3, <3>2, <3>3
  <2> QED BY <1>5, <2>2, <2>3 DEF ByteHolds
<1>6. Recount(t, w) = More(IF old = {} THEN counts[t] ELSE Less(counts[t], CHOOSE k \in old : TRUE), CountKey(w))
  BY DEF Recount
<1>7. CASE prev = {}
  <2>1. old = {} BY <1>7
  <2>2. Recast(t, w) = vs \cup {w} BY <1>1, <1>7
  <2>3. Recount(t, w) = More(counts[t], CountKey(w)) BY <1>6, <2>1
  <2> QED BY <1>3, <1>5, <2>2, <2>3, MoreExact
<1>8. CASE prev # {}
  <2> PICK o \in prev : TRUE BY <1>8
  <2>1. \A x \in prev : SameVote(x, o) BY <1>2 DEF SameVote
  <2>2. prev = {o} /\ o \in vs BY <1>2, <2>1 DEF OneEach
  <2>3. old = {CountKey(o)} BY <2>2
  <2>4. (CHOOSE k \in old : TRUE) = CountKey(o) BY <2>3
  <2>5. Recount(t, w) = More(Less(counts[t], CountKey(o)), CountKey(w)) BY <1>6, <2>3, <2>4
  <2>6. Recast(t, w) = (vs \ {o}) \cup {w} /\ w \notin vs \ {o} BY <1>1, <2>2
  <2>7. Exact(Less(counts[t], CountKey(o)), vs \ {o}) BY <2>2, LessExact
  <2> QED BY <1>3, <1>5, <2>5, <2>6, <2>7, MoreExact
<1> QED BY <1>7, <1>8

\* Every count of both tables is exact.
CountsExact ==
  /\ counts = [t \in Table |-> counts[t]]
  /\ \A t \in Table : Exact(counts[t], votes[t]) /\ OneEach(votes[t])

CInv == VInv /\ CountsExact

LEMMA CountsUnchanged ==
  ASSUME CInv, UNCHANGED <<votes, counts>>, VInv'
  PROVE  CInv'
<1>1. \A t \in Table : Exact(counts[t], votes[t])' BY DEF CInv, CountsExact, Exact
<1>2. \A t \in Table : OneEach(votes[t])' BY DEF CInv, CountsExact
<1> QED BY <1>1, <1>2 DEF CInv, CountsExact

\* A step that gives one table new votes and new counts for them.
LEMMA CountsReplaced ==
  ASSUME CInv, NEW t \in Table, NEW vs, NEW c, Exact(c, vs), OneEach(vs),
         votes' = [votes EXCEPT ![t] = vs], counts' = [counts EXCEPT ![t] = c], VInv'
  PROVE  CInv'
<1>1. votes'[t] = vs /\ counts'[t] = c BY DEF CInv, CountsExact, VInv, NoEarlyVotes
<1>2. \A u \in Table : u # t => votes'[u] = votes[u] /\ counts'[u] = counts[u]
  BY DEF CInv, CountsExact, VInv, NoEarlyVotes
<1>3. \A u \in Table : Exact(counts'[u], votes'[u]) /\ OneEach(votes'[u])
  BY <1>1, <1>2 DEF CInv, CountsExact
<1>4. counts' = [u \in Table |-> counts'[u]] BY DEF CInv, CountsExact
<1> QED BY <1>3, <1>4 DEF CInv, CountsExact, Exact, OneEach

\* The member count counts the members, no more than there are seats.
LEMMA MembersCounted ==
  ASSUME IInv, NEW t \in Table, mc[t] # None
  PROVE  /\ IsFiniteSet(Members(t)) /\ Cardinality(Members(t)) = mc[t]
         /\ mc[t] <= SeatCount
<1> DEFINE S == Taken(forward[t])
           f == [n \in S |-> forward[t][n]]
<1>1. forward[t] \in [Seat -> Account \cup {None}] /\ reverse[t] \in [Account -> Seat \cup {None}]
  BY DEF IInv, TypedTables
<1>2. \A n \in Seat, a \in Account : forward[t][n] = a <=> reverse[t][a] = n
  BY DEF IInv, TableSound
<1>3. None \notin Account /\ None \notin Seat BY GovernConstants DEF Seat
<1>4. f \in Injection(S, Members(t))
  <2>1. \A n \in S : f[n] \in Account /\ reverse[t][f[n]] = n
    BY <1>1, <1>2 DEF Taken
  <2>2. f \in [S -> Members(t)] BY <2>1, <1>3 DEF Members, Taken
  <2>3. \A m, n \in S : f[m] = f[n] => m = n BY <2>1
  <2>4. DOMAIN f = S OBVIOUS
  <2> HIDE DEF f, S
  <2> QED BY <2>2, <2>3, <2>4 DEF Injection, IsInjective
<1>5. f \in Surjection(S, Members(t))
  <2>1. f \in [S -> Members(t)] BY <1>4 DEF Injection
  <2>2. ASSUME NEW a \in Members(t) PROVE \E n \in S : f[n] = a
    <3>1. reverse[t][a] \in Seat /\ a \in Account BY <1>1 DEF Members
    <3>2. forward[t][reverse[t][a]] = a BY <3>1, <1>2
    <3> QED BY <3>1, <3>2, <1>3 DEF Taken
  <2> HIDE DEF f, S
  <2> QED BY <2>1, <2>2 DEF Surjection
<1>6. ExistsBijection(S, Members(t)) BY <1>4, <1>5 DEF ExistsBijection, Bijection
<1>7. IsFiniteSet(S) /\ Cardinality(S) <= SeatCount
  <2>1. IsFiniteSet(Seat) /\ Cardinality(Seat) = SeatCount
    BY FS_Interval, GovernConstants DEF Seat
  <2>2. S \subseteq Seat BY DEF Taken
  <2> QED BY <2>1, <2>2, SeatsFinite, FS_Subset
<1>8. mc[t] = Cardinality(S) BY DEF IInv, TableSound, Taken
<1> HIDE DEF f, S
<1> QED BY <1>6, <1>7, <1>8, FS_Bijection

\* The vote that is accepted is new, and an account's.
LEMMA AcceptedVote ==
  ASSUME CInv, NEW t \in Table, NEW v \in Account, NEW b \in Ballot, Accepts(t, v, b)
  PROVE  LET w == VoteOf(v, t, b) IN
         Exact(Recount(t, w), Recast(t, w)) /\ OneEach(Recast(t, w))
<1> DEFINE w == VoteOf(v, t, b)
<1>1. w.voter = v BY DEF VoteOf
<1>2. w \notin votes[t] BY DEF Accepts
<1>3. IInv /\ mc[t] # None /\ v \in Members(t) BY DEF Accepts, Members, CInv, VInv
<1> HIDE DEF w
<1>4. IsFiniteSet(Members(t)) /\ Cardinality(Members(t)) < 256
  <2>1. IsFiniteSet(Members(t)) /\ Cardinality(Members(t)) <= SeatCount
    BY <1>3, MembersCounted
  <2> QED BY <2>1, FS_CardinalityType, GovernConstants
<1>5. \A x \in votes[t] \cup {w} : GcTopic(x) => x.voter \in Members(t)
  BY <1>1, <1>3 DEF CInv, VInv, OnlyMembersVotes
<1>6. Exact(Recount(t, w), Recast(t, w)) /\ OneEach(Recast(t, w))
  BY <1>1, <1>2, <1>4, <1>5, RecordExact DEF CInv, CountsExact
<1> QED BY <1>6 DEF w

LEMMA RecordKeepsCounts ==
  ASSUME CInv, NEW t \in Table, NEW v \in Account, NEW b \in Ballot,
         Accepts(t, v, b), Record(t, v, b), VInv'
  PROVE  CInv'
BY AcceptedVote, CountsReplaced DEF Record

LEMMA SeatKeepsCounts ==
  ASSUME CInv, NEW t \in Table, NEW v \in Account, NEW b \in Ballot, NEW used,
         ActionSeat(t, v, b, used), VInv'
  PROVE  CInv'
<1> DEFINE w == VoteOf(v, t, b)
           p == forward[t][b.id]
           vs == Recast(t, w)
           gone == IF p = None THEN {} ELSE Collected(vs, p)
<1>1. Exact(Recount(t, w), vs) /\ OneEach(vs)
  BY AcceptedVote DEF ActionSeat, Actioned
<1>2. votes' = [votes EXCEPT ![t] = vs \ gone]
      /\ counts' = [counts EXCEPT ![t] = Uncount(Recount(t, w), gone)]
  BY DEF ActionSeat
<1>3. gone \in SUBSET vs /\ \A x \in gone : x.voter = p BY DEF Collected
<1> HIDE DEF w, p, vs, gone
<1>4. Exact(Uncount(Recount(t, w), gone), vs \ gone) BY <1>1, <1>3, UncountExact
<1>5. OneEach(vs \ gone) BY <1>1 DEF OneEach
<1> QED BY <1>2, <1>4, <1>5, CountsReplaced

LEMMA DecidedKeepsCounts ==
  ASSUME CInv, NEW t \in Table, NEW v \in Account, NEW b \in Ballot, NEW used,
         Decided(t, v, b, used)
  PROVE  CInv'
<1>1. VInv' BY DecidedKeepsVotes DEF CInv
<1>2. CASE VoteOnly(t, v, b, used)
  BY <1>1, <1>2, RecordKeepsCounts DEF VoteOnly
<1>3. CASE ActionReward(t, v, b, used)
  BY <1>1, <1>3, RecordKeepsCounts DEF ActionReward, Actioned
<1>4. CASE ActionHook(t, v, b, used)
  BY <1>1, <1>4, RecordKeepsCounts DEF ActionHook, Actioned
<1>5. CASE ActionSeat(t, v, b, used) BY <1>1, <1>5, SeatKeepsCounts
<1>6. CASE AlreadySeated(t, v, b, used)
  BY <1>1, <1>6, RecordKeepsCounts DEF AlreadySeated, Actioned
<1> QED BY <1>2, <1>3, <1>4, <1>5, <1>6 DEF Decided

LEMMA StepKeepsCounts == CInv /\ [GovernNext]_governVars => CInv'
<1> SUFFICES ASSUME CInv, [GovernNext]_governVars PROVE CInv' OBVIOUS
<1>0. VInv' BY StepKeepsVotes DEF CInv
<1>1. ASSUME NEW t \in Table, Setup(t) PROVE CInv'
  BY <1>0, <1>1, CountsUnchanged DEF Setup
<1>2. ASSUME NEW v \in Account, NEW b \in script.ballots,
             ForwardVote(b.table, v, b) \/ Decided(b.table, v, b, {})
      PROVE  CInv'
  <2>1. b \in Ballot BY GovernConstants DEF CInv, VInv, IInv, TypedBallots
  <2>2. b.table \in Table BY <2>1 DEF Ballot
  <2>3. CASE ForwardVote(b.table, v, b)
    BY <1>0, <2>1, <2>2, <2>3, RecordKeepsCounts DEF ForwardVote, Actioned
  <2>4. CASE Decided(b.table, v, b, {}) BY <2>1, <2>2, <2>4, DecidedKeepsCounts
  <2> QED BY <1>2, <2>3, <2>4
<1>3. ASSUME NEW e \in flight, Deliver(e) PROVE CInv'
  <2>1. e.ballot \in Ballot BY <1>3 DEF Deliver, CInv, VInv, IInv, TypedBallots
  <2>2. Genesis \in Table /\ Table2 \in Account BY DEF Table, Account
  <2> QED BY <1>3, <2>1, <2>2, DecidedKeepsCounts DEF Deliver
<1>4. ASSUME NEW e \in flight, InstallHook(e) \/ Lose(e) PROVE CInv'
  BY <1>0, <1>4, CountsUnchanged DEF InstallHook, Lose, tableVars
<1>5. CASE UNCHANGED governVars BY <1>0, <1>5, CountsUnchanged DEF governVars, tableVars
<1> QED BY <1>1, <1>2, <1>3, <1>4, <1>5 DEF GovernNext

LEMMA InitCounts == GovernInit => CInv
<1> SUFFICES ASSUME GovernInit PROVE CInv OBVIOUS
<1>1. VInv BY InitSound DEF GovernInit, VInv, NoEarlyVotes, OnlyMembersVotes
<1>2. \A t \in Table : Exact(counts[t], votes[t]) BY FS_EmptySet DEF GovernInit, Exact
<1>3. \A t \in Table : OneEach(votes[t]) BY DEF GovernInit, OneEach
<1>4. counts = [t \in Table |-> counts[t]] BY DEF GovernInit
<1> QED BY <1>1, <1>2, <1>3, <1>4 DEF CInv, CountsExact

\* Among fewer than 256 accounts, which is what a byte can count, all of a
\* table's counts are exact after every sequence of votes, changes of mind and
\* changes of seats, and only members' votes stand but for that position.
THEOREM CountsStayExact ==
  ASSUME Cardinality(Account) < 256
  PROVE  GovernSpec => []CountsAreMembersVotes
<1>1. CInv => CountsAreMembersVotes
  BY DEF CInv, CountsExact, VInv, CountsAreMembersVotes, CountsAreVotes, Exact, Stand, ByteHolds
<1>2. CInv /\ [GovernNext]_governVars => CInv' BY StepKeepsCounts
<1> QED BY InitCounts, <1>1, <1>2, PTL DEF GovernSpec

-----------------------------------------------------------------------------
(* Quorums *)

\* The reward settings, once they are there, are the two that setup requires.
TypedReward == reward \in [R : Rate \cup {None}, D : Rate \cup {None}]

QInv == CInv /\ TypedReward

\* What a count and the member count say of people.
CountsArePeople ==
  \A t \in Table :
    /\ mc[t] # None => IsFiniteSet(Members(t)) /\ Cardinality(Members(t)) = mc[t]
    /\ \A w : GcTopic(w) /\ CountKey(w) \in DOMAIN counts[t] =>
         /\ Supporters(t, w) \subseteq Members(t)
         /\ Cardinality(Supporters(t, w)) = counts[t][CountKey(w)]

LEMMA SupportersCounted ==
  ASSUME CInv, NEW t \in Table, NEW w, GcTopic(w), CountKey(w) \in DOMAIN counts[t]
  PROVE  /\ Supporters(t, w) \subseteq Members(t)
         /\ Cardinality(Supporters(t, w)) = counts[t][CountKey(w)]
<1> DEFINE S == Stand(votes[t], CountKey(w))
           f == [x \in S |-> x.voter]
           P == Supporters(t, w)
<1>1. Exact(counts[t], votes[t]) /\ OneEach(votes[t]) BY DEF CInv, CountsExact
<1>2. IsFiniteSet(S) /\ counts[t][CountKey(w)] = Cardinality(S)
  BY <1>1, StandFinite, KeyOfTopic DEF Exact, ByteHolds
<1>3. \A x \in S : x \in votes[t] /\ CountKey(x) = CountKey(w) BY DEF Stand
<1>4. \A x \in S : GcTopic(x) BY <1>3, KeyNamesTopic DEF GcTopic
<1>5. \A x \in S : x.voter \in Members(t)
  BY <1>3, <1>4 DEF CInv, VInv, OnlyMembersVotes
<1>6. P = {x.voter : x \in S}
  <2>1. P \subseteq {x.voter : x \in S} BY DEF Supporters, Stand
  <2>2. {x.voter : x \in S} \subseteq P BY <1>3, <1>5 DEF Supporters
  <2> QED BY <2>1, <2>2
<1>7. \A x, y \in S : x.voter = y.voter => x = y
  <2> SUFFICES ASSUME NEW x \in S, NEW y \in S, x.voter = y.voter PROVE x = y OBVIOUS
  <2>1. SameVote(x, y) BY <1>3, KeyNamesTopic DEF SameVote
  <2> QED BY <2>1, <1>1, <1>3 DEF OneEach
<1>8. f \in [S -> P] BY <1>6
<1>9. f \in Injection(S, P)
  <2>1. \A x, y \in DOMAIN f : f[x] = f[y] => x = y BY <1>7
  <2> HIDE DEF f, S, P
  <2> QED BY <2>1, <1>8 DEF Injection, IsInjective
<1>10. f \in Surjection(S, P)
  <2>1. \A a \in P : \E x \in S : f[x] = a BY <1>6
  <2> HIDE DEF f, S, P
  <2> QED BY <2>1, <1>8 DEF Surjection
<1>11. ExistsBijection(S, P) BY <1>9, <1>10 DEF ExistsBijection, Bijection
<1>12. P \subseteq Members(t) BY DEF Supporters
<1> HIDE DEF f, S, P
<1> QED BY <1>2, <1>11, <1>12, FS_Bijection DEF P

LEMMA PeopleCounted == CInv => CountsArePeople
BY MembersCounted, SupportersCounted DEF CountsArePeople, CInv, VInv

\* The counts by which anything but the last hook position is decided.
CollectedCounts ==
  \A t \in Table : \A w : GcTopic(w) =>
    /\ Supporters(t, w) # {} => CountKey(w) \in DOMAIN counts[t]
    /\ CountKey(w) \in DOMAIN counts[t] =>
         counts[t][CountKey(w)] = Cardinality(Supporters(t, w))

\* On every topic but the last hook position, a count is the number of members
\* whose vote stands for its value, after every sequence of votes, changes of
\* mind and changes of seats (my_hook and garbage_collect_votes).
THEOREM CollectedCountsExact == GovernSpec => []CollectedCounts
<1>1. ASSUME CInv PROVE CollectedCounts
  <2> SUFFICES ASSUME NEW t \in Table, NEW w, GcTopic(w)
               PROVE  /\ Supporters(t, w) # {} => CountKey(w) \in DOMAIN counts[t]
                      /\ CountKey(w) \in DOMAIN counts[t] =>
                           counts[t][CountKey(w)] = Cardinality(Supporters(t, w))
    BY DEF CollectedCounts
  <2>1. ByteHolds(CountKey(w)) BY KeyOfTopic DEF ByteHolds
  <2>2. Supporters(t, w) # {} => CountKey(w) \in DOMAIN counts[t]
    BY <1>1, <2>1 DEF Supporters, CInv, CountsExact, Exact
  <2> QED BY <1>1, <2>2, SupportersCounted
<1>2. CInv /\ [GovernNext]_governVars => CInv' BY StepKeepsCounts
<1> QED BY InitCounts, <1>1, <1>2, PTL DEF GovernSpec

\* After a vote that is recorded and nothing else, the tally is how many
\* members stand behind its value.
LEMMA TallyIsPeople ==
  ASSUME CInv, CInv', NEW t \in Table, NEW v \in Account, NEW b \in Ballot,
         Accepts(t, v, b), Record(t, v, b), mc' = mc, GcTopic(b)
  PROVE  LET w == VoteOf(v, t, b) IN
         /\ Supporters(t, w)' \subseteq Members(t)'
         /\ Cardinality(Supporters(t, w)') = Tally(t, v, b)
         /\ IsFiniteSet(Members(t)') /\ Cardinality(Members(t)') = mc[t]
<1> DEFINE w == VoteOf(v, t, b)
<1>1. CountsArePeople' BY PeopleCounted, PTL
<1>2. GcTopic(w) BY DEF VoteOf, GcTopic
<1>3. votes'[t] = Recast(t, w) /\ counts'[t] = Recount(t, w)
  BY DEF Record, CInv, VInv, NoEarlyVotes, CountsExact
<1>4. CountKey(w) \in DOMAIN counts'[t]
  <2>1. w \in votes'[t] BY <1>3 DEF Recast
  <2>2. ByteHolds(CountKey(w)) BY <1>2, KeyOfTopic DEF ByteHolds
  <2> QED BY <2>1, <2>2 DEF CInv, CountsExact, Exact, ByteHolds
<1>5. Tally(t, v, b) = counts'[t][CountKey(w)] BY <1>3 DEF Tally
<1>6. mc'[t] # None BY DEF Accepts
<1> HIDE DEF w
<1>7. /\ Supporters(t, w)' \subseteq Members(t)'
      /\ Cardinality(Supporters(t, w)') = counts'[t][CountKey(w)]
  BY <1>1, <1>2, <1>4 DEF CountsArePeople
<1>8. IsFiniteSet(Members(t)') /\ Cardinality(Members(t)') = mc'[t]
  BY <1>1, <1>6 DEF CountsArePeople
<1> QED BY <1>5, <1>7, <1>8 DEF w

\* Behind names the supporters by the topic and the value alone.
LEMMA BehindIsSupporters ==
  ASSUME NEW t \in Table, NEW v, NEW b \in Ballot
  PROVE  LET w == VoteOf(v, t, b) IN
         Behind(t, w.layer, b.type, b.id, b.value)' = Supporters(t, w)'
<1> DEFINE w == VoteOf(v, t, b)
           r == [layer |-> w.layer, type |-> b.type, id |-> b.id, value |-> b.value]
<1>1. CountKey(r) = CountKey(w) BY DEF CountKey, VoteOf
<1>2. Supporters(t, r)' = Supporters(t, w)' BY <1>1 DEF Supporters
<1> QED BY <1>2 DEF Behind

\* Supporters as many as members are all of them.
LEMMA Unanimous ==
  ASSUME NEW M, NEW P \in SUBSET M, IsFiniteSet(M), Cardinality(P) >= Cardinality(M)
  PROVE  P = M
<1>1. Cardinality(P) <= Cardinality(M) /\ (Cardinality(M) = Cardinality(P) => M = P)
      /\ IsFiniteSet(P)
  BY FS_Subset
<1>2. Cardinality(P) \in Nat /\ Cardinality(M) \in Nat BY <1>1, FS_CardinalityType
<1> QED BY <1>1, <1>2

\* What a table forwards has a majority behind it.
LEMMA ForwardByMajority ==
  ASSUME CInv, CInv', NEW t \in Table, NEW v \in Account, NEW b \in Ballot,
         ForwardVote(t, v, b), NEW e \in flight' \ flight
  PROVE  MajorityBehind(e)'
<1> DEFINE w == VoteOf(v, t, b)
<1>1. e = [kind |-> "Invoke", no |-> cast, ballot |-> [b EXCEPT !.table = Genesis]]
  BY DEF ForwardVote, Emits
<1>2. e.kind = "Invoke" /\ e.ballot = [b EXCEPT !.table = Genesis] BY <1>1
<1>3. e.ballot.type = b.type /\ e.ballot.id = b.id /\ e.ballot.value = b.value
  BY <1>2 DEF Ballot
<1>4. t = Table2 /\ b.layer = 1 /\ w.layer = 1
  BY DEF ForwardVote, Local, Table, Ballot, VoteOf
<1>5. CASE GcTopic(e.ballot)
  <2>1. GcTopic(b) BY <1>3, <1>5 DEF GcTopic
  <2>2. Tally(t, v, b) >= Quorum51(mc[t]) BY DEF ForwardVote, Actioned, Threshold
  <2>3. /\ Cardinality(Supporters(t, w)') = Tally(t, v, b)
        /\ Cardinality(Members(t)') = mc[t]
    BY <2>1, TallyIsPeople DEF ForwardVote, Actioned
  <2>4. Behind(t, w.layer, b.type, b.id, b.value)' = Supporters(t, w)'
    BY BehindIsSupporters
  <2>5. Cardinality(Behind(Table2, 1, b.type, b.id, b.value)')
          >= Quorum51(Cardinality(Members(Table2)'))
    BY <2>2, <2>3, <2>4, <1>4
  <2> QED BY <2>5, <1>2, <1>3, <1>5 DEF MajorityBehind
<1>6. CASE ~GcTopic(e.ballot) BY <1>2, <1>6 DEF MajorityBehind
<1> QED BY <1>5, <1>6

\* A hook is only installed when every member asks for it.
LEMMA HookByAll ==
  ASSUME CInv, CInv', NEW t \in Table, NEW v \in Account, NEW b \in Ballot, NEW used,
         ActionHook(t, v, b, used), NEW e \in flight' \ flight
  PROVE  MajorityBehind(e)'
<1> DEFINE w == VoteOf(v, t, b)
<1>1. e = [kind |-> "HookSet", no |-> cast, table |-> t, slot |-> b.id, hash |-> b.value]
  BY DEF ActionHook, Emits
<1>2. e.kind = "HookSet" /\ e.table = t /\ e.slot = b.id /\ e.hash = b.value BY <1>1
<1>3. b.type = "H" /\ w.layer \in {1, 2} BY DEF ActionHook, VoteOf, Ballot
<1>4. CASE e.slot < HookMax
  <2>1. GcTopic(b) BY <1>2, <1>3, <1>4 DEF GcTopic
  <2>2. Tally(t, v, b) >= mc[t] BY <1>3 DEF ActionHook, Actioned, Threshold
  <2>3. /\ Supporters(t, w)' \subseteq Members(t)'
        /\ Cardinality(Supporters(t, w)') = Tally(t, v, b)
        /\ IsFiniteSet(Members(t)') /\ Cardinality(Members(t)') = mc[t]
    BY <2>1, TallyIsPeople DEF ActionHook, Actioned
  <2>4. Supporters(t, w)' = Members(t)' BY <2>2, <2>3, Unanimous
  <2>5. Behind(t, w.layer, b.type, b.id, b.value)' = Supporters(t, w)'
    BY BehindIsSupporters
  <2> HIDE DEF w
  <2>6. Behind(e.table, w.layer, "H", e.slot, e.hash)' = Members(e.table)'
    BY <2>4, <2>5, <1>2, <1>3
  <2> QED BY <2>6, <1>2, <1>3, <1>4 DEF MajorityBehind
<1>5. CASE ~(e.slot < HookMax) BY <1>2, <1>5 DEF MajorityBehind
<1> QED BY <1>4, <1>5

\* A reward setting only changes when every member of the L1 table asks for it.
LEMMA RewardByAll ==
  ASSUME QInv, CInv', NEW t \in Table, NEW v \in Account, NEW b \in Ballot, NEW used,
         ActionReward(t, v, b, used), NEW f \in {"R", "D"}, reward'[f] # reward[f]
  PROVE  (Behind(Genesis, 1, "R", IF f = "R" THEN RateId ELSE DelayId, reward[f]) = Members(Genesis))'
<1> DEFINE w == VoteOf(v, t, b)
<1>1. Accepts(t, v, b) /\ Tally(t, v, b) >= Threshold(t, b) /\ b.type = "R" /\ Local(t, b)
  BY DEF ActionReward, Actioned
<1>2. t = Genesis /\ b.id \in {RateId, DelayId}
  BY <1>1 DEF Accepts, ValidTopic, Local
<1>3. GcTopic(b) BY <1>1 DEF GcTopic
<1>4. Tally(t, v, b) >= mc[t] BY <1>1 DEF Threshold
<1>5. CInv BY DEF QInv
<1>6. /\ Supporters(t, w)' \subseteq Members(t)'
      /\ Cardinality(Supporters(t, w)') = Tally(t, v, b)
      /\ IsFiniteSet(Members(t)') /\ Cardinality(Members(t)') = mc[t]
  BY <1>1, <1>3, <1>5, TallyIsPeople DEF ActionReward
<1>7. Supporters(t, w)' = Members(t)' BY <1>4, <1>6, Unanimous
<1>8. Behind(t, w.layer, b.type, b.id, b.value)' = Supporters(t, w)'
  BY BehindIsSupporters
<1>9. w.layer = 1 BY <1>2 DEF VoteOf
<1>10. b.id = (IF f = "R" THEN RateId ELSE DelayId) /\ reward'[f] = b.value
  <2>1. reward' = IF b.id = RateId THEN [reward EXCEPT !.R = b.value]
                                   ELSE [reward EXCEPT !.D = b.value]
    BY DEF ActionReward
  <2>2. reward \in [R : Rate \cup {None}, D : Rate \cup {None}] BY DEF QInv, TypedReward
  <2>3. RateId # DelayId BY DEF RateId, DelayId
  <2> QED BY <2>1, <2>2, <2>3, <1>2
<1> HIDE DEF w
<1>11. Behind(Genesis, 1, "R", b.id, b.value)' = Members(Genesis)'
  BY <1>1, <1>2, <1>7, <1>8, <1>9
<1>12. Behind(Genesis, 1, "R", IF f = "R" THEN RateId ELSE DelayId, reward[f])'
         = Behind(Genesis, 1, "R", b.id, b.value)'
  BY <1>10 DEF Behind, Supporters
<1> QED BY <1>11, <1>12

LEMMA DecidedByVote ==
  ASSUME QInv, CInv', NEW t \in Table, NEW v \in Account, NEW b \in Ballot, NEW used,
         Decided(t, v, b, used)
  PROVE  ChangesByVote
<1>1. CASE VoteOnly(t, v, b, used) \/ AlreadySeated(t, v, b, used) \/ ActionSeat(t, v, b, used)
  BY <1>1 DEF VoteOnly, AlreadySeated, ActionSeat, Emits, ChangesByVote
<1>2. CASE ActionReward(t, v, b, used)
  <2>1. flight' \ flight = {} BY <1>2 DEF ActionReward, Emits
  <2> QED BY <2>1, <1>2, RewardByAll DEF ChangesByVote
<1>3. CASE ActionHook(t, v, b, used)
  <2>1. \A e \in flight' \ flight : MajorityBehind(e)' BY <1>3, HookByAll DEF QInv
  <2>2. reward' = reward BY <1>3 DEF ActionHook
  <2> QED BY <2>1, <2>2 DEF ChangesByVote
<1> QED BY <1>1, <1>2, <1>3 DEF Decided

LEMMA StepByVote ==
  ASSUME QInv, CInv', GovernNext
  PROVE  ChangesByVote
<1>1. ASSUME NEW t \in Table, Setup(t) PROVE ChangesByVote
  BY <1>1 DEF Setup, ChangesByVote
<1>2. ASSUME NEW v \in Account, NEW b \in script.ballots,
             ForwardVote(b.table, v, b) \/ Decided(b.table, v, b, {})
      PROVE  ChangesByVote
  <2>1. b \in Ballot BY GovernConstants DEF QInv, CInv, VInv, IInv, TypedBallots
  <2>2. b.table \in Table BY <2>1 DEF Ballot
  <2>3. CASE ForwardVote(b.table, v, b)
    <3>1. \A e \in flight' \ flight : MajorityBehind(e)'
      BY <2>1, <2>2, <2>3, ForwardByMajority DEF QInv
    <3>2. reward' = reward BY <2>3 DEF ForwardVote
    <3> QED BY <3>1, <3>2 DEF ChangesByVote
  <2>4. CASE Decided(b.table, v, b, {}) BY <2>1, <2>2, <2>4, DecidedByVote
  <2> QED BY <1>2, <2>3, <2>4
<1>3. ASSUME NEW e \in flight, Deliver(e) PROVE ChangesByVote
  <2>1. e.ballot \in Ballot BY <1>3 DEF Deliver, QInv, CInv, VInv, IInv, TypedBallots
  <2>2. Genesis \in Table /\ Table2 \in Account BY DEF Table, Account
  <2> QED BY <1>3, <2>1, <2>2, DecidedByVote DEF Deliver
<1>4. ASSUME NEW e \in flight, InstallHook(e) \/ Lose(e) PROVE ChangesByVote
  BY <1>4 DEF InstallHook, Lose, ChangesByVote
<1> QED BY <1>1, <1>2, <1>3, <1>4 DEF GovernNext

\* The settings stay two rates.
LEMMA StepKeepsReward ==
  ASSUME IInv, TypedReward, [GovernNext]_governVars
  PROVE  TypedReward'
<1>1. ASSUME NEW t \in Table, Setup(t) PROVE TypedReward'
  BY <1>1, GovernParameters DEF Setup, TypedReward
<1>2. ASSUME NEW t \in Table, NEW v \in Account, NEW b \in Ballot, NEW used,
             Decided(t, v, b, used)
      PROVE  TypedReward'
  <2>1. CASE ActionReward(t, v, b, used)
    <3>1. b.value \in Rate BY <2>1 DEF ActionReward, Ballot
    <3> QED BY <2>1, <3>1 DEF ActionReward, TypedReward
  <2>2. CASE ~ActionReward(t, v, b, used)
    <3>1. reward' = reward
      BY <1>2, <2>2 DEF Decided, VoteOnly, ActionHook, ActionSeat, AlreadySeated
    <3> QED BY <3>1 DEF TypedReward
  <2> QED BY <2>1, <2>2
<1>3. ASSUME NEW v \in Account, NEW b \in script.ballots,
             ForwardVote(b.table, v, b) \/ Decided(b.table, v, b, {})
      PROVE  TypedReward'
  <2>1. b \in Ballot BY GovernConstants DEF IInv, TypedBallots
  <2>2. b.table \in Table BY <2>1 DEF Ballot
  <2>3. CASE ForwardVote(b.table, v, b) BY <2>3 DEF ForwardVote, TypedReward
  <2> QED BY <1>2, <1>3, <2>1, <2>2, <2>3
<1>4. ASSUME NEW e \in flight, Deliver(e) PROVE TypedReward'
  <2>1. e.ballot \in Ballot BY <1>4 DEF Deliver, IInv, TypedBallots
  <2>2. Genesis \in Table /\ Table2 \in Account BY DEF Table, Account
  <2> QED BY <1>2, <1>4, <2>1, <2>2 DEF Deliver
<1>5. ASSUME NEW e \in flight, InstallHook(e) \/ Lose(e) PROVE TypedReward'
  BY <1>5 DEF InstallHook, Lose, TypedReward
<1>6. CASE UNCHANGED governVars BY <1>6 DEF governVars, TypedReward
<1> QED BY <1>1, <1>3, <1>4, <1>5, <1>6 DEF GovernNext

\* Nothing leaves a table, and no reward setting changes, without the members
\* of that moment: a forward has the majority of them behind it, a hook and a
\* reward setting all of them, whoever has come and gone while the votes stood
\* and whatever was in flight (my_hook's thresholds).
THEOREM NothingWithoutItsQuorum == GovernSpec => ActionedByQuorum
<1>1. GovernInit => QInv
  BY InitCounts DEF QInv, GovernInit, TypedReward
<1>2. QInv /\ [GovernNext]_governVars => QInv'
  BY StepKeepsCounts, StepKeepsReward DEF QInv, CInv, VInv
<1>3. QInv /\ QInv' /\ [GovernNext]_governVars => [ChangesByVote]_governVars
  BY StepByVote DEF QInv
<1> QED BY <1>1, <1>2, <1>3, PTL DEF GovernSpec, ActionedByQuorum

-----------------------------------------------------------------------------
(* The tables are round tables *)

\* The layer on which the seats of a table are voted on.
Layer(t) == IF t = Genesis THEN 1 ELSE 2

\* RoundTable's terms, for a table, its votes and its seats.
Seen(a) == IF a = Zero THEN None ELSE a
AsBallot(x) == [voter |-> x.voter, seat |-> x.id, value |-> Seen(x.value)]
OnSeats(vs, l) == {x \in vs : x.type = "S" /\ x.layer = l}
Ballots(vs, l) == {AsBallot(x) : x \in OnSeats(vs, l)}
Occupied(f) == {f[n] : n \in Seat} \ {None}
Replacing(bs, v, n, a) ==
  {x \in bs : ~(x.voter = v /\ x.seat = n)} \cup {[voter |-> v, seat |-> n, value |-> a]}
Agreeing(bs, n, a) == {x.voter : x \in {y \in bs : y.seat = n /\ y.value = a}}
Reseated(f, n, a) ==
  [k \in Seat |-> IF k = n THEN a ELSE IF a # None /\ f[k] = a THEN None ELSE f[k]]

\* A vote on a seat is on one of the table's, for an account or nobody.
TypedVotes ==
  \A t \in Table : \A x \in votes[t] :
    x.type = "S" => x.id \in Seat /\ x.value \in Account \cup {Zero}

RInv == CInv /\ TypedVotes

LEMMA BallotsAreSeatBallots ==
  ASSUME NEW t, NEW l
  PROVE  SeatBallots(t, l) = Ballots(votes[t], l)
BY DEF SeatBallots, Ballots, AsBallot, OnSeats, Seen

\* Who sits is who the reverse entries name.
LEMMA OccupiedAreMembers ==
  ASSUME IInv, NEW t \in Table
  PROVE  Occupied(forward[t]) = Members(t)
<1>1. forward[t] \in [Seat -> Account \cup {None}] /\ reverse[t] \in [Account -> Seat \cup {None}]
  BY DEF IInv, TypedTables
<1>2. \A n \in Seat, a \in Account : forward[t][n] = a <=> reverse[t][a] = n
  BY DEF IInv, TableSound
<1>3. None \notin Account /\ None \notin Seat BY GovernConstants DEF Seat
<1>4. Occupied(forward[t]) \subseteq Members(t) BY <1>1, <1>2, <1>3 DEF Occupied, Members
<1>5. ASSUME NEW a \in Members(t) PROVE a \in Occupied(forward[t])
  <2>1. a \in Account /\ reverse[t][a] \in Seat BY <1>1 DEF Members
  <2>2. forward[t][reverse[t][a]] = a BY <2>1, <1>2
  <2> QED BY <2>1, <2>2, <1>3 DEF Occupied
<1> QED BY <1>4, <1>5

\* A new vote on a seat replaces the ballot of its voter there.
LEMMA BallotsReplaced ==
  ASSUME NEW t \in Table, NEW w, w.type = "S"
  PROVE  Ballots(Recast(t, w), w.layer)
           = Replacing(Ballots(votes[t], w.layer), w.voter, w.id, Seen(w.value))
<1> DEFINE new == Ballots(Recast(t, w), w.layer)
           old == Ballots(votes[t], w.layer)
           rep == Replacing(old, w.voter, w.id, Seen(w.value))
<1>1. \A x \in Recast(t, w) : x = w \/ (x \in votes[t] /\ ~SameVote(x, w))
  BY DEF Recast, Previous
<1>2. \A x \in votes[t] : ~SameVote(x, w) => x \in Recast(t, w) BY DEF Recast, Previous
<1>3. w \in OnSeats(Recast(t, w), w.layer) BY DEF Recast, OnSeats
<1>4. ASSUME NEW y \in new PROVE y \in rep
  <2> PICK x \in OnSeats(Recast(t, w), w.layer) : y = AsBallot(x) BY DEF Ballots
  <2>1. CASE x = w BY <2>1 DEF AsBallot, Replacing
  <2>2. CASE x # w
    <3>1. x \in votes[t] /\ ~SameVote(x, w) /\ x.type = "S" /\ x.layer = w.layer
      BY <1>1, <2>2 DEF OnSeats
    <3>2. ~(x.voter = w.voter /\ x.id = w.id) BY <3>1 DEF SameVote
    <3>3. y \in old BY <3>1 DEF Ballots, OnSeats
    <3>4. y.voter = x.voter /\ y.seat = x.id BY DEF AsBallot
    <3> QED BY <3>2, <3>3, <3>4 DEF Replacing
  <2> QED BY <2>1, <2>2
<1>5. ASSUME NEW y \in rep PROVE y \in new
  <2>1. CASE y = AsBallot(w) BY <1>3, <2>1 DEF Ballots
  <2>2. CASE y # AsBallot(w)
    <3>1. y \in old /\ ~(y.voter = w.voter /\ y.seat = w.id)
      BY <2>2 DEF Replacing, AsBallot
    <3> PICK x \in OnSeats(votes[t], w.layer) : y = AsBallot(x) BY <3>1 DEF Ballots
    <3>2. y.voter = x.voter /\ y.seat = x.id BY DEF AsBallot
    <3>3. ~SameVote(x, w) BY <3>1, <3>2 DEF SameVote
    <3>4. x \in OnSeats(Recast(t, w), w.layer) BY <3>3, <1>2 DEF OnSeats
    <3> QED BY <3>4 DEF Ballots
  <2> QED BY <2>1, <2>2
<1> QED BY <1>4, <1>5

\* A vote on something else, or on the other layer, leaves the ballots alone.
LEMMA BallotsKept ==
  ASSUME NEW t \in Table, NEW w, NEW l, ~(w.type = "S" /\ w.layer = l)
  PROVE  Ballots(Recast(t, w), l) = Ballots(votes[t], l)
<1>1. OnSeats(Recast(t, w), l) = OnSeats(votes[t], l)
  BY DEF OnSeats, Recast, Previous, SameVote
<1> QED BY <1>1 DEF Ballots

\* As many voters as votes.
LEMMA VotersCounted ==
  ASSUME NEW vs, IsFiniteSet(vs), OneEach(vs), NEW k
  PROVE  Cardinality({x.voter : x \in Stand(vs, k)}) = Cardinality(Stand(vs, k))
<1> DEFINE S == Stand(vs, k)
           P == {x.voter : x \in S}
           f == [x \in S |-> x.voter]
<1>1. IsFiniteSet(S) BY StandFinite
<1>2. \A x, y \in S : x.voter = y.voter => x = y
  <2> SUFFICES ASSUME NEW x \in S, NEW y \in S, x.voter = y.voter PROVE x = y OBVIOUS
  <2>1. CountKey(x) = CountKey(y) /\ x \in vs /\ y \in vs BY DEF Stand
  <2>2. SameVote(x, y) BY <2>1, KeyNamesTopic DEF SameVote
  <2> QED BY <2>1, <2>2 DEF OneEach
<1>3. f \in [S -> P] OBVIOUS
<1>4. \A x, y \in DOMAIN f : f[x] = f[y] => x = y BY <1>2
<1>5. \A a \in P : \E x \in S : f[x] = a OBVIOUS
<1> HIDE DEF f, S, P
<1>6. f \in Injection(S, P) BY <1>3, <1>4 DEF Injection, IsInjective
<1>7. f \in Surjection(S, P) BY <1>3, <1>5 DEF Surjection
<1>8. ExistsBijection(S, P) BY <1>6, <1>7 DEF ExistsBijection, Bijection
<1>9. Cardinality(P) = Cardinality(S) BY <1>1, <1>8, FS_Bijection
<1> QED BY <1>9 DEF P, S

\* Who agrees with a vote on a seat is who is counted under its key.
LEMMA AgreeingAreCounted ==
  ASSUME NEW vs, NEW w, w.type = "S", w \in vs,
         \A x \in vs : x.type = "S" => x.value \in Account \cup {Zero}
  PROVE  Agreeing(Ballots(vs, w.layer), w.id, Seen(w.value))
           = {x.voter : x \in Stand(vs, CountKey(w))}
<1> DEFINE S == Stand(vs, CountKey(w))
           A == Agreeing(Ballots(vs, w.layer), w.id, Seen(w.value))
<1>1. \A x \in vs : x.type = "S" => CountKey(x).value = x.value BY DEF CountKey
<1>2. ASSUME NEW p \in A PROVE p \in {x.voter : x \in S}
  <2> PICK y \in Ballots(vs, w.layer) : y.seat = w.id /\ y.value = Seen(w.value) /\ y.voter = p
    BY DEF Agreeing
  <2> PICK x \in OnSeats(vs, w.layer) : y = AsBallot(x) BY DEF Ballots
  <2>1. y.voter = x.voter /\ y.seat = x.id /\ y.value = Seen(x.value) BY DEF AsBallot
  <2>2. x \in vs /\ x.type = "S" /\ x.layer = w.layer BY DEF OnSeats
  <2>3. x.value = w.value
    <3>1. x.value \in Account \cup {Zero} /\ w.value \in Account \cup {Zero} BY <2>2
    <3> QED BY <2>1, <3>1, GovernConstants DEF Seen
  <2>4. CountKey(x) = CountKey(w) BY <2>1, <2>2, <2>3 DEF CountKey
  <2> QED BY <2>1, <2>2, <2>4 DEF Stand
<1>3. ASSUME NEW x \in S PROVE x.voter \in A
  <2>1. x \in vs /\ CountKey(x) = CountKey(w) BY DEF Stand
  <2>2. x.layer = w.layer /\ x.type = "S" /\ x.id = w.id BY <2>1, KeyNamesTopic
  <2>3. x.value = w.value BY <1>1, <2>1, <2>2
  <2>4. AsBallot(x) \in Ballots(vs, w.layer) BY <2>1, <2>2 DEF Ballots, OnSeats
  <2>5. /\ AsBallot(x).seat = w.id /\ AsBallot(x).value = Seen(w.value)
        /\ AsBallot(x).voter = x.voter
    BY <2>2, <2>3 DEF AsBallot
  <2> HIDE DEF S
  <2> QED BY <2>4, <2>5 DEF Agreeing
<1> QED BY <1>2, <1>3

\* What a step is to the round table of t: nothing, its opening, a vote, or a
\* decision.
Quiet(t) ==
  /\ mc'[t] # None <=> mc[t] # None
  /\ forward'[t] = forward[t]
  /\ Ballots(votes'[t], Layer(t)) = Ballots(votes[t], Layer(t))

Opens(t) ==
  /\ mc[t] = None /\ mc'[t] # None
  /\ forward'[t] \in [Seat -> Account \cup {None}]
  /\ Occupied(forward'[t]) # {}
  /\ \A j, k \in Seat : forward'[t][j] = forward'[t][k] /\ forward'[t][j] # None => j = k
  /\ Ballots(votes'[t], Layer(t)) = Ballots(votes[t], Layer(t))

Casts(t, v, n, a) ==
  /\ v \in Occupied(forward[t])
  /\ mc[t] # None /\ mc'[t] # None
  /\ forward'[t] = forward[t]
  /\ Ballots(votes'[t], Layer(t)) = Replacing(Ballots(votes[t], Layer(t)), v, n, a)

Decides(t, v, n, a) ==
  LET after == Replacing(Ballots(votes[t], Layer(t)), v, n, a) IN
  /\ v \in Occupied(forward[t])
  /\ mc[t] # None /\ mc'[t] # None
  /\ forward'[t] = Reseated(forward[t], n, a)
  /\ Cardinality(Occupied(forward'[t])) >= 2
  /\ Cardinality(Agreeing(after, n, a) \cap Occupied(forward[t]))
       >= Quorum80(Cardinality(Occupied(forward[t])))
  /\ Ballots(votes'[t], Layer(t)) = {x \in after : x.voter \in Occupied(forward'[t])}

RoundStep(t) ==
  \/ Quiet(t) \/ Opens(t)
  \/ \E v \in Account, n \in Seat, a \in Account \cup {None} :
       Casts(t, v, n, a) \/ Decides(t, v, n, a)

\* Whoever's vote is accepted sits at the table.
LEMMA VoterSits ==
  ASSUME RInv, NEW t \in Table, NEW v \in Account, NEW b \in Ballot, Accepts(t, v, b)
  PROVE  v \in Occupied(forward[t]) /\ v \in Members(t) /\ mc[t] # None
<1>1. v \in Members(t) /\ mc[t] # None BY DEF Accepts, Members
<1>2. IInv BY DEF RInv, CInv, VInv
<1> QED BY <1>1, <1>2, OccupiedAreMembers

\* A ballot on a seat that gets through names one, and an account or nobody.
LEMMA SeatBallotValid ==
  ASSUME NEW t \in Table, NEW v \in Account, NEW b \in Ballot, Accepts(t, v, b), b.type = "S"
  PROVE  /\ b.id \in Seat /\ b.value \in Account \cup {Zero}
         /\ Seen(b.value) \in Account \cup {None}
<1>1. b.id \in Seat BY DEF Accepts, ValidTopic, Seat
<1>2. b.value \in Account \cup {Zero} BY SeatBallotTyped
<1> QED BY <1>1, <1>2 DEF Seen

LEMMA RecordIsRound ==
  ASSUME RInv, NEW t \in Table, NEW v \in Account, NEW b \in Ballot,
         Accepts(t, v, b), Record(t, v, b), mc' = mc, forward' = forward, NEW u \in Table
  PROVE  RoundStep(u)
<1> DEFINE w == VoteOf(v, t, b)
<1>1. votes' = [votes EXCEPT ![t] = Recast(t, w)] BY DEF Record
<1>2. votes = [x \in Table |-> votes[x]] BY DEF RInv, CInv, VInv, NoEarlyVotes
<1>3. w.voter = v /\ w.type = b.type /\ w.id = b.id /\ w.value = b.value BY DEF VoteOf
<1>4. CASE u # t
  <2>1. votes'[u] = votes[u] BY <1>1, <1>2, <1>4
  <2> QED BY <2>1 DEF RoundStep, Quiet
<1>5. CASE u = t
  <2>1. votes'[t] = Recast(t, w) BY <1>1, <1>2
  <2> HIDE DEF w
  <2>2. CASE w.type = "S" /\ w.layer = Layer(t)
    <3>1. Ballots(votes'[t], Layer(t)) = Replacing(Ballots(votes[t], Layer(t)), v, b.id, Seen(b.value))
      BY <2>1, <2>2, <1>3, BallotsReplaced
    <3>2. b.id \in Seat /\ Seen(b.value) \in Account \cup {None}
      BY <2>2, <1>3, SeatBallotValid
    <3>3. v \in Occupied(forward[t]) /\ mc[t] # None BY VoterSits
    <3>4. Casts(t, v, b.id, Seen(b.value)) BY <3>1, <3>3 DEF Casts
    <3> QED BY <3>2, <3>4, <1>5 DEF RoundStep
  <2>3. CASE ~(w.type = "S" /\ w.layer = Layer(t))
    <3>1. Ballots(votes'[t], Layer(t)) = Ballots(votes[t], Layer(t)) BY <2>1, <2>3, BallotsKept
    <3> QED BY <3>1, <1>5 DEF RoundStep, Quiet
  <2> QED BY <2>2, <2>3
<1> QED BY <1>4, <1>5

\* Votes on seats stay votes on seats of the table.
LEMMA RecastTyped ==
  ASSUME TypedVotes, NEW t \in Table, NEW v \in Account, NEW b \in Ballot, Accepts(t, v, b),
         NEW x \in Recast(t, VoteOf(v, t, b)), x.type = "S"
  PROVE  x.id \in Seat /\ x.value \in Account \cup {Zero}
<1> DEFINE w == VoteOf(v, t, b)
<1>1. CASE x = w
  <2>1. x.type = b.type /\ x.id = b.id /\ x.value = b.value BY <1>1 DEF VoteOf
  <2> QED BY <2>1, SeatBallotValid
<1>2. CASE x # w
  <2>1. x \in votes[t] BY <1>2 DEF Recast
  <2> QED BY <2>1 DEF TypedVotes
<1> QED BY <1>1, <1>2

LEMMA TypedVotesReplaced ==
  ASSUME RInv, NEW t \in Table, NEW v \in Account, NEW b \in Ballot, Accepts(t, v, b),
         NEW vs \in SUBSET Recast(t, VoteOf(v, t, b)), votes' = [votes EXCEPT ![t] = vs]
  PROVE  TypedVotes'
<1>1. votes = [u \in Table |-> votes[u]] BY DEF RInv, CInv, VInv, NoEarlyVotes
<1>2. ASSUME NEW u \in Table, NEW x \in votes'[u], x.type = "S"
      PROVE  x.id \in Seat /\ x.value \in Account \cup {Zero}
  <2>1. CASE u = t
    <3>1. x \in Recast(t, VoteOf(v, t, b)) BY <1>1, <2>1, <1>2
    <3> QED BY <3>1, <1>2, RecastTyped DEF RInv
  <2>2. CASE u # t
    <3>1. x \in votes[u] BY <1>1, <2>2, <1>2
    <3> QED BY <3>1, <1>2 DEF RInv, TypedVotes
  <2> QED BY <2>1, <2>2
<1> QED BY <1>2 DEF TypedVotes

\* The votes on a seat's layer that remain once a member has gone.
LEMMA BallotsCollected ==
  ASSUME NEW vs, NEW l, NEW p,
         \A x \in vs : x.type = "S" => x.id \in Seat
  PROVE  Ballots(vs \ Collected(vs, p), l) = {y \in Ballots(vs, l) : y.voter # p}
<1>1. \A x \in vs : x.type = "S" => GcTopic(x)
  BY GovernConstants DEF GcTopic, Seat
<1>2. OnSeats(vs \ Collected(vs, p), l) = {x \in OnSeats(vs, l) : x.voter # p}
  BY <1>1 DEF OnSeats, Collected
<1>3. \A x : AsBallot(x).voter = x.voter BY DEF AsBallot
<1> QED BY <1>2, <1>3 DEF Ballots

\* A change of seats is a decision of the round table.
LEMMA SeatIsDecision ==
  ASSUME RInv, CInv', NEW t \in Table, NEW v \in Account, NEW b \in Ballot, NEW used,
         ActionSeat(t, v, b, used)
  PROVE  Decides(t, v, b.id, Seen(b.value))
<1> DEFINE w == VoteOf(v, t, b)
           n == b.id
           a == Seen(b.value)
           p == forward[t][n]
           vs == Recast(t, w)
           gone == IF p = None THEN {} ELSE Collected(vs, p)
           after == Replacing(Ballots(votes[t], Layer(t)), v, n, a)
<1>1. Accepts(t, v, b) /\ Tally(t, v, b) >= Threshold(t, b) /\ b.type = "S" /\ Local(t, b)
  BY DEF ActionSeat, Actioned
<1>2. IInv /\ IInv' BY DEF RInv, CInv, VInv
<1>3. w.voter = v /\ w.type = "S" /\ w.id = n /\ w.value = b.value /\ w.layer = Layer(t)
  BY <1>1 DEF VoteOf, Layer, Local
<1>4. n \in Seat /\ b.value \in Account \cup {Zero} /\ a \in Account \cup {None}
  BY <1>1, SeatBallotValid
<1>5. v \in Occupied(forward[t]) /\ v \in Members(t) /\ mc[t] # None BY <1>1, VoterSits
<1>6. votes'[t] = vs \ gone
  BY DEF ActionSeat, RInv, CInv, VInv, NoEarlyVotes
<1>7. Occupied(forward[t]) = Members(t) BY <1>2, OccupiedAreMembers
<1>8. Occupied(forward'[t]) = Members(t)'
  <2>1. (Occupied(forward[t]) = Members(t))' BY <1>2, OccupiedAreMembers, PTL
  <2> QED BY <2>1
<1>9. CountsArePeople /\ CountsArePeople'
  <2>1. CountsArePeople BY PeopleCounted DEF RInv
  <2>2. CountsArePeople' BY PeopleCounted, PTL
  <2> QED BY <2>1, <2>2
<1>10. mc'[t] = NewCount(t, n, b.value) /\ mc'[t] > 1 /\ mc'[t] # None
  <2>1. mc'[t] = NewCount(t, n, b.value) /\ NewCount(t, n, b.value) > 1
    BY <1>2 DEF ActionSeat, IInv, TypedTables
  <2>2. mc[t] \in Nat BY <1>2, <1>5 DEF IInv, TypedTables
  <2>3. NewCount(t, n, b.value) \in Int BY <2>2 DEF NewCount
  <2> QED BY <2>1, <2>3, GovernConstants
<1>11. Cardinality(Occupied(forward'[t])) >= 2
  <2>1. Cardinality(Members(t)') = mc'[t] BY <1>9, <1>10 DEF CountsArePeople
  <2>2. mc'[t] \in Nat BY <1>2, <1>10 DEF IInv, TypedTables
  <2> QED BY <2>1, <2>2, <1>8, <1>10
<1>12. forward'[t] = Reseated(forward[t], n, a)
  <2>1. forward'[t] = NewForward(t, n, b.value) BY <1>2 DEF ActionSeat, IInv, TypedTables
  <2>2. \A k \in Seat : k = SeatHeld(t, b.value) <=> a # None /\ forward[t][k] = a
    <3>1. \A k \in Seat, x \in Account : forward[t][k] = x <=> reverse[t][x] = k
      BY <1>2 DEF IInv, TableSound
    <3>2. None \notin Seat /\ None \notin Account BY GovernConstants DEF Seat
    <3> QED BY <3>1, <3>2, <1>4, GovernConstants DEF SeatHeld, Seen
  <2> QED BY <2>1, <2>2, <1>4, GovernConstants DEF NewForward, Reseated, Seen
<1>13. Ballots(vs, Layer(t)) = after
  <2> HIDE DEF w
  <2> QED BY <1>3, BallotsReplaced
<1>14. Exact(Recount(t, w), vs) /\ OneEach(vs)
  BY <1>1, AcceptedVote DEF RInv
<1>15. \A x \in vs : x.type = "S" =>
         x.id \in Seat /\ x.value \in Account \cup {Zero} /\ GcTopic(x) /\ x.voter \in Members(t)
  <2> SUFFICES ASSUME NEW x \in vs, x.type = "S"
               PROVE  /\ x.id \in Seat /\ x.value \in Account \cup {Zero}
                      /\ GcTopic(x) /\ x.voter \in Members(t)
    OBVIOUS
  <2>1. x.id \in Seat /\ x.value \in Account \cup {Zero} BY <1>1, RecastTyped DEF RInv
  <2>2. GcTopic(x) BY <2>1, GovernConstants DEF GcTopic, Seat
  <2>3. x = w \/ x \in votes[t] BY DEF Recast
  <2>4. x.voter \in Members(t)
    BY <2>2, <2>3, <1>3, <1>5 DEF RInv, CInv, VInv, OnlyMembersVotes
  <2> QED BY <2>1, <2>2, <2>4
<1>16. Cardinality(Agreeing(after, n, a) \cap Occupied(forward[t]))
         >= Quorum80(Cardinality(Occupied(forward[t])))
  <2> DEFINE S == Stand(vs, CountKey(w))
  <2>1. w \in vs BY DEF Recast
  <2>2. Agreeing(after, n, a) = {x.voter : x \in S}
    <3> HIDE DEF w, vs, after
    <3>1. \A x \in vs : x.type = "S" => x.value \in Account \cup {Zero} BY <1>15
    <3>2. Agreeing(Ballots(vs, w.layer), w.id, Seen(w.value)) = {x.voter : x \in S}
      BY <2>1, <3>1, <1>3, AgreeingAreCounted
    <3> QED BY <3>2, <1>3, <1>13
  <2>3. \A x \in S : x.voter \in Members(t)
    <3> SUFFICES ASSUME NEW x \in S PROVE x.voter \in Members(t) OBVIOUS
    <3>1. x \in vs /\ CountKey(x) = CountKey(w) BY DEF Stand
    <3>2. x.type = "S" BY <3>1, <1>3, KeyNamesTopic
    <3> QED BY <3>1, <3>2, <1>15
  <2>4. Agreeing(after, n, a) \cap Occupied(forward[t]) = {x.voter : x \in S}
    BY <2>2, <2>3, <1>7
  <2>5. Cardinality({x.voter : x \in S}) = Cardinality(S)
    BY <1>14, VotersCounted DEF Exact
  <2>6. Cardinality(S) = Tally(t, v, b)
    <3>1. ByteHolds(CountKey(w)) BY <2>1, <1>3, <1>15, KeyOfTopic DEF ByteHolds
    <3> QED BY <2>1, <3>1, <1>14 DEF Exact, Tally
  <2>7. Threshold(t, b) = Quorum80(mc[t]) BY <1>1 DEF Threshold
  <2>8. Cardinality(Occupied(forward[t])) = mc[t]
    BY <1>5, <1>7, <1>9 DEF CountsArePeople
  <2> QED BY <1>1, <2>4, <2>5, <2>6, <2>7, <2>8
<1>17. Members(t)' = {x \in Account : x = b.value \/ (x # p /\ x \in Members(t))}
  <2>1. reverse'[t] = NewReverse(t, n, b.value) BY <1>2 DEF ActionSeat, IInv, TypedTables
  <2>2. None \notin Seat BY GovernConstants DEF Seat
  <2> QED BY <2>1, <2>2, <1>4 DEF NewReverse, Members
<1>18. \A y \in after : y.voter \in Members(t)
  <2> SUFFICES ASSUME NEW y \in after PROVE y.voter \in Members(t) OBVIOUS
  <2>1. y \in Ballots(vs, Layer(t)) BY <1>13
  <2> PICK x \in OnSeats(vs, Layer(t)) : y = AsBallot(x) BY <2>1 DEF Ballots
  <2>2. y.voter = x.voter /\ x \in vs /\ x.type = "S" BY DEF AsBallot, OnSeats
  <2> QED BY <2>2, <1>15
<1>19. p # b.value BY DEF ActionSeat
<1>20. Ballots(votes'[t], Layer(t)) = {y \in after : y.voter \in Occupied(forward'[t])}
  <2>1. \A y \in after : y.voter \in Members(t)' <=> y.voter # p
    <3>1. \A x \in Members(t) : x \in Account BY DEF Members
    <3> HIDE DEF after, p
    <3> QED BY <3>1, <1>17, <1>18, <1>19
  <2>2. CASE p = None
    <3>1. \A y \in after : y.voter # p
      <4>1. \A x \in Members(t) : x # None BY GovernConstants DEF Members
      <4> QED BY <4>1, <1>18, <2>2
    <3>2. votes'[t] = vs BY <1>6, <2>2
    <3> HIDE DEF after, p, vs
    <3> QED BY <3>1, <3>2, <2>1, <1>13, <1>8
  <2>3. CASE p # None
    <3>1. votes'[t] = vs \ Collected(vs, p) BY <1>6, <2>3
    <3>2. Ballots(vs \ Collected(vs, p), Layer(t)) = {y \in Ballots(vs, Layer(t)) : y.voter # p}
      BY <1>15, BallotsCollected
    <3> HIDE DEF after, p, vs
    <3> QED BY <3>1, <3>2, <2>1, <1>13, <1>8
  <2> QED BY <2>2, <2>3
<1> QED BY <1>5, <1>10, <1>11, <1>12, <1>16, <1>20 DEF Decides

\* What an Invoke does to the other table: nothing.
LEMMA OtherQuiet ==
  ASSUME RInv, NEW t \in Table, NEW v \in Account, NEW b \in Ballot, NEW used,
         ActionSeat(t, v, b, used), NEW u \in Table, u # t
  PROVE  Quiet(u)
<1>1. mc'[u] = mc[u] /\ forward'[u] = forward[u]
  BY DEF ActionSeat, RInv, CInv, VInv, IInv, TypedTables
<1>2. votes'[u] = votes[u]
  <2>1. votes = [s \in Table |-> votes[s]] BY DEF RInv, CInv, VInv, NoEarlyVotes
  <2> QED BY <2>1 DEF ActionSeat
<1> QED BY <1>1, <1>2 DEF Quiet

LEMMA DecidedIsRound ==
  ASSUME RInv, CInv', NEW t \in Table, NEW v \in Account, NEW b \in Ballot, NEW used,
         Decided(t, v, b, used)
  PROVE  TypedVotes' /\ \A u \in Table : RoundStep(u)
<1>1. ASSUME Accepts(t, v, b), Record(t, v, b), mc' = mc, forward' = forward
      PROVE  TypedVotes' /\ \A u \in Table : RoundStep(u)
  <2>1. TypedVotes' BY <1>1, TypedVotesReplaced DEF Record
  <2>2. \A u \in Table : RoundStep(u) BY <1>1, RecordIsRound
  <2> QED BY <2>1, <2>2
<1>2. CASE VoteOnly(t, v, b, used) BY <1>1, <1>2 DEF VoteOnly
<1>3. CASE ActionReward(t, v, b, used) BY <1>1, <1>3 DEF ActionReward, Actioned
<1>4. CASE ActionHook(t, v, b, used) BY <1>1, <1>4 DEF ActionHook, Actioned
<1>5. CASE AlreadySeated(t, v, b, used) BY <1>1, <1>5 DEF AlreadySeated, Actioned
<1>6. CASE ActionSeat(t, v, b, used)
  <2>1. Accepts(t, v, b) /\ b.type = "S" BY <1>6 DEF ActionSeat, Actioned
  <2>2. TypedVotes'
    <3> DEFINE vs == Recast(t, VoteOf(v, t, b))
               gone == IF forward[t][b.id] = None THEN {} ELSE Collected(vs, forward[t][b.id])
    <3>1. votes' = [votes EXCEPT ![t] = vs \ gone] BY <1>6 DEF ActionSeat
    <3>2. vs \ gone \in SUBSET vs OBVIOUS
    <3> HIDE DEF gone
    <3> QED BY <3>1, <3>2, <2>1, TypedVotesReplaced
  <2>3. RoundStep(t)
    <3>1. Decides(t, v, b.id, Seen(b.value)) BY <1>6, SeatIsDecision
    <3>2. b.id \in Seat /\ Seen(b.value) \in Account \cup {None} BY <2>1, SeatBallotValid
    <3> QED BY <3>1, <3>2 DEF RoundStep
  <2>4. \A u \in Table : u # t => RoundStep(u) BY <1>6, OtherQuiet DEF RoundStep
  <2> QED BY <2>2, <2>3, <2>4
<1> QED BY <1>2, <1>3, <1>4, <1>5, <1>6 DEF Decided

\* The first Invoke opens the table.
LEMMA SetupIsRound ==
  ASSUME RInv, CInv', NEW t \in Table, Setup(t)
  PROVE  TypedVotes' /\ \A u \in Table : RoundStep(u)
<1> DEFINE who == InitialMembers[t]
           k   == Cardinality(DOMAIN who)
           fwd == [n \in Seat |-> IF n < k THEN who[n+1] ELSE None]
<1>1. TypedVotes' BY DEF Setup, RInv, TypedVotes
<1>2. forward'[t] = fwd /\ mc'[t] = k /\ mc[t] = None /\ votes' = votes
  BY DEF Setup, RInv, CInv, VInv, IInv, TypedTables
<1>3. /\ DOMAIN who = 1 .. k /\ k <= SeatCount /\ DOMAIN who # {}
      /\ \A j \in 1 .. k : who[j] \in Account
      /\ \A i, j \in 1 .. k : who[i] = who[j] => i = j
  BY GovernParameters DEF Distinct
<1>4. k \in Nat
  <2>1. IsFiniteSet(DOMAIN who) BY GovernParameters
  <2> QED BY <2>1, FS_CardinalityType
<1>5. None \notin Account /\ None \notin Int BY GovernConstants
<1> HIDE DEF k, who
<1>6. fwd \in [Seat -> Account \cup {None}]
  BY <1>3, <1>4, GovernConstants DEF Seat
<1>7. 0 \in Seat /\ fwd[0] = who[1] /\ who[1] \in Account
  <2>1. k >= 1 BY <1>3, <1>4
  <2>2. 0 \in Seat BY <2>1, <1>3, <1>4, GovernConstants DEF Seat
  <2> QED BY <2>1, <2>2, <1>3, <1>4
<1>8. Occupied(fwd) # {}
  <2>1. fwd[0] \in Occupied(fwd) BY <1>7, <1>5 DEF Occupied
  <2> QED BY <2>1
<1>9. \A i, j \in Seat : fwd[i] = fwd[j] /\ fwd[i] # None => i = j
  <2> SUFFICES ASSUME NEW i \in Seat, NEW j \in Seat, fwd[i] = fwd[j], fwd[i] # None
               PROVE  i = j
    OBVIOUS
  <2>1. i < k /\ j < k /\ who[i+1] = who[j+1] OBVIOUS
  <2>2. i \in Nat /\ j \in Nat /\ i+1 \in 1 .. k /\ j+1 \in 1 .. k
    BY <2>1, <1>4, GovernConstants DEF Seat
  <2>3. i+1 = j+1 BY <2>1, <2>2, <1>3
  <2> QED BY <2>2, <2>3
<1>10. Opens(t)
  <2> HIDE DEF fwd
  <2> QED BY <1>2, <1>4, <1>5, <1>6, <1>8, <1>9 DEF Opens
<1>11. \A u \in Table : u # t => Quiet(u)
  BY DEF Setup, Quiet, RInv, CInv, VInv, IInv, TypedTables
<1> QED BY <1>1, <1>10, <1>11 DEF RoundStep

LEMMA StepIsRound ==
  ASSUME RInv, CInv', [GovernNext]_governVars
  PROVE  TypedVotes' /\ \A u \in Table : RoundStep(u)
<1> DEFINE Goal == TypedVotes' /\ \A u \in Table : RoundStep(u)
<1>1. ASSUME NEW t \in Table, Setup(t) PROVE Goal BY <1>1, SetupIsRound
<1>2. ASSUME NEW v \in Account, NEW b \in script.ballots,
             ForwardVote(b.table, v, b) \/ Decided(b.table, v, b, {})
      PROVE  Goal
  <2>1. b \in Ballot BY GovernConstants DEF RInv, CInv, VInv, IInv, TypedBallots
  <2>2. b.table \in Table BY <2>1 DEF Ballot
  <2>3. CASE ForwardVote(b.table, v, b)
    <3>1. Accepts(b.table, v, b) /\ Record(b.table, v, b) /\ mc' = mc /\ forward' = forward
      BY <2>3 DEF ForwardVote, Actioned
    <3>2. TypedVotes' BY <3>1, <2>1, <2>2, TypedVotesReplaced DEF Record
    <3>3. \A u \in Table : RoundStep(u) BY <3>1, <2>1, <2>2, RecordIsRound
    <3> QED BY <3>2, <3>3
  <2>4. CASE Decided(b.table, v, b, {}) BY <2>1, <2>2, <2>4, DecidedIsRound
  <2> QED BY <1>2, <2>3, <2>4
<1>3. ASSUME NEW e \in flight, Deliver(e) PROVE Goal
  <2>1. e.ballot \in Ballot BY <1>3 DEF Deliver, RInv, CInv, VInv, IInv, TypedBallots
  <2>2. Genesis \in Table /\ Table2 \in Account BY DEF Table, Account
  <2> QED BY <1>3, <2>1, <2>2, DecidedIsRound DEF Deliver
<1>4. ASSUME UNCHANGED <<mc, forward, votes>> PROVE Goal
  <2>1. TypedVotes' BY <1>4 DEF RInv, TypedVotes
  <2>2. \A u \in Table : Quiet(u) BY <1>4 DEF Quiet
  <2> QED BY <2>1, <2>2 DEF RoundStep
<1>5. ASSUME NEW e \in flight, InstallHook(e) \/ Lose(e) PROVE Goal
  BY <1>4, <1>5 DEF InstallHook, Lose, tableVars
<1>6. CASE UNCHANGED governVars BY <1>4, <1>6 DEF governVars, tableVars
<1> QED BY <1>1, <1>2, <1>3, <1>5, <1>6 DEF GovernNext

\* RoundTable counts as FiniteSets does.
LEMMA SameCardinality ==
  /\ \A S : L1!Cardinality(S) = Cardinality(S)
  /\ \A S : L2!Cardinality(S) = Cardinality(S)
<1>1. \A S : L1!Cardinality(S) = Cardinality(S)
  BY DEF L1!Cardinality, Cardinality
<1>2. \A S : L2!Cardinality(S) = Cardinality(S)
  BY DEF L2!Cardinality, Cardinality
<1> QED BY <1>1, <1>2

\* A step of the L1 table, in the terms of the RoundTable it implements.
LEMMA RoundIsL1 ==
  ASSUME RoundStep(Genesis)
  PROVE  [L1!TableNext]_(L1!abstractVars)
<1> DEFINE bs == Ballots(votes[Genesis], 1)
           bs1 == Ballots(votes'[Genesis], 1)
<1>1. SeatBallots(Genesis, 1) = bs BY BallotsAreSeatBallots
<1>2. SeatBallots(Genesis, 1)' = bs1
  BY DEF SeatBallots, Ballots, AsBallot, OnSeats, Seen
<1>3. Layer(Genesis) = 1 BY DEF Layer
<1>4. CASE Quiet(Genesis)
  BY <1>1, <1>2, <1>3, <1>4 DEF Quiet, L1!abstractVars
<1>5. CASE Opens(Genesis)
  BY <1>1, <1>2, <1>3, <1>5 DEF Opens, L1!TableNext, L1!OpenTable, L1!Members, Occupied
<1>6. ASSUME NEW v \in Account, NEW n \in Seat, NEW a \in Account \cup {None}, Casts(Genesis, v, n, a)
      PROVE  L1!TableNext
  <2> DEFINE x == [voter |-> v, seat |-> n, value |-> a]
  <2>1. bs1 = Replacing(bs, v, n, a) BY <1>3, <1>6 DEF Casts
  <2>2. x \in bs1 BY <2>1 DEF Replacing
  <2>3. v \in L1!Members(forward[Genesis]) BY <1>6 DEF Casts, L1!Members, Occupied
  <2> HIDE DEF bs, bs1
  <2>4. L1!Cast(v, n, a)
    BY <2>1, <1>1, <1>2, <1>6 DEF Casts, Replacing, L1!Cast, L1!Standing
  <2>5. x.voter = v /\ x.seat = n /\ x.value = a OBVIOUS
  <2> HIDE DEF x
  <2> QED BY <1>2, <2>2, <2>3, <2>4, <2>5 DEF L1!TableNext
<1>7. ASSUME NEW v \in Account, NEW n \in Seat, NEW a \in Account \cup {None}, Decides(Genesis, v, n, a)
      PROVE  L1!TableNext
  <2> DEFINE after == Replacing(bs, v, n, a)
  <2>1. /\ v \in L1!Members(forward[Genesis])
        /\ L1!Members(forward[Genesis]) = Occupied(forward[Genesis])
        /\ L1!Members(forward'[Genesis]) = Occupied(forward'[Genesis])
    BY <1>7 DEF Decides, L1!Members, Occupied
  <2>2. L1!Standing(v, n, a) = after BY <1>1 DEF L1!Standing, Replacing
  <2>3. L1!Agree(after, n, a) = Agreeing(after, n, a) BY DEF L1!Agree, Agreeing
  <2>4. \A k : L1!Four5ths(k) = Quorum80(k) BY DEF L1!Four5ths, Quorum80
  <2>5. forward'[Genesis] = L1!Seated(n, a) BY <1>7 DEF Decides, L1!Seated, Reseated
  <2>6. bs1 = {x \in after : x.voter \in Occupied(forward'[Genesis])}
    BY <1>3, <1>7 DEF Decides
  <2>7. /\ mc[Genesis] # None /\ mc'[Genesis] # None
        /\ Cardinality(Occupied(forward'[Genesis])) >= 2
        /\ Cardinality(Agreeing(after, n, a) \cap Occupied(forward[Genesis]))
             >= Quorum80(Cardinality(Occupied(forward[Genesis])))
    BY <1>3, <1>7 DEF Decides
  <2> HIDE DEF bs, bs1, after
  <2>8. Cardinality(L1!Agree(L1!Standing(v, n, a), n, a) \cap L1!Members(forward[Genesis]))
          >= L1!Four5ths(Cardinality(L1!Members(forward[Genesis])))
    BY <2>1, <2>2, <2>3, <2>4, <2>7
  <2>9. SeatBallots(Genesis, 1)' = {x \in L1!Standing(v, n, a) : x.voter \in L1!Members(forward'[Genesis])}
    BY <2>1, <2>2, <2>6, <1>2
  <2>10. Cardinality(L1!Members(forward'[Genesis])) >= 2 BY <2>1, <2>7
  <2> HIDE DEF L1!Members, L1!Agree, L1!Standing, L1!Four5ths, L1!Seated
  <2>11. L1!Decide(v, n, a)
    BY <2>5, <2>7, <2>8, <2>9, <2>10, SameCardinality DEF L1!Decide
  <2> QED BY <2>1, <2>11 DEF L1!TableNext
<1> QED BY <1>4, <1>5, <1>6, <1>7 DEF RoundStep

\* And of the L2 table.
LEMMA RoundIsL2 ==
  ASSUME RoundStep(Table2)
  PROVE  [L2!TableNext]_(L2!abstractVars)
<1> DEFINE bs == Ballots(votes[Table2], 2)
           bs1 == Ballots(votes'[Table2], 2)
<1>1. SeatBallots(Table2, 2) = bs BY BallotsAreSeatBallots
<1>2. SeatBallots(Table2, 2)' = bs1
  BY DEF SeatBallots, Ballots, AsBallot, OnSeats, Seen
<1>3. Layer(Table2) = 2 BY GovernConstants DEF Layer
<1>4. CASE Quiet(Table2)
  BY <1>1, <1>2, <1>3, <1>4 DEF Quiet, L2!abstractVars
<1>5. CASE Opens(Table2)
  BY <1>1, <1>2, <1>3, <1>5 DEF Opens, L2!TableNext, L2!OpenTable, L2!Members, Occupied
<1>6. ASSUME NEW v \in Account, NEW n \in Seat, NEW a \in Account \cup {None}, Casts(Table2, v, n, a)
      PROVE  L2!TableNext
  <2> DEFINE x == [voter |-> v, seat |-> n, value |-> a]
  <2>1. bs1 = Replacing(bs, v, n, a) BY <1>3, <1>6 DEF Casts
  <2>2. x \in bs1 BY <2>1 DEF Replacing
  <2>3. v \in L2!Members(forward[Table2]) BY <1>6 DEF Casts, L2!Members, Occupied
  <2> HIDE DEF bs, bs1
  <2>4. L2!Cast(v, n, a)
    BY <2>1, <1>1, <1>2, <1>6 DEF Casts, Replacing, L2!Cast, L2!Standing
  <2>5. x.voter = v /\ x.seat = n /\ x.value = a OBVIOUS
  <2> HIDE DEF x
  <2> QED BY <1>2, <2>2, <2>3, <2>4, <2>5 DEF L2!TableNext
<1>7. ASSUME NEW v \in Account, NEW n \in Seat, NEW a \in Account \cup {None}, Decides(Table2, v, n, a)
      PROVE  L2!TableNext
  <2> DEFINE after == Replacing(bs, v, n, a)
  <2>1. /\ v \in L2!Members(forward[Table2])
        /\ L2!Members(forward[Table2]) = Occupied(forward[Table2])
        /\ L2!Members(forward'[Table2]) = Occupied(forward'[Table2])
    BY <1>7 DEF Decides, L2!Members, Occupied
  <2>2. L2!Standing(v, n, a) = after BY <1>1 DEF L2!Standing, Replacing
  <2>3. L2!Agree(after, n, a) = Agreeing(after, n, a) BY DEF L2!Agree, Agreeing
  <2>4. \A k : L2!Four5ths(k) = Quorum80(k) BY DEF L2!Four5ths, Quorum80
  <2>5. forward'[Table2] = L2!Seated(n, a) BY <1>7 DEF Decides, L2!Seated, Reseated
  <2>6. bs1 = {x \in after : x.voter \in Occupied(forward'[Table2])}
    BY <1>3, <1>7 DEF Decides
  <2>7. /\ mc[Table2] # None /\ mc'[Table2] # None
        /\ Cardinality(Occupied(forward'[Table2])) >= 2
        /\ Cardinality(Agreeing(after, n, a) \cap Occupied(forward[Table2]))
             >= Quorum80(Cardinality(Occupied(forward[Table2])))
    BY <1>3, <1>7 DEF Decides
  <2> HIDE DEF bs, bs1, after
  <2>8. Cardinality(L2!Agree(L2!Standing(v, n, a), n, a) \cap L2!Members(forward[Table2]))
          >= L2!Four5ths(Cardinality(L2!Members(forward[Table2])))
    BY <2>1, <2>2, <2>3, <2>4, <2>7
  <2>9. SeatBallots(Table2, 2)' = {x \in L2!Standing(v, n, a) : x.voter \in L2!Members(forward'[Table2])}
    BY <2>1, <2>2, <2>6, <1>2
  <2>10. Cardinality(L2!Members(forward'[Table2])) >= 2 BY <2>1, <2>7
  <2> HIDE DEF L2!Members, L2!Agree, L2!Standing, L2!Four5ths, L2!Seated
  <2>11. L2!Decide(v, n, a)
    BY <2>5, <2>7, <2>8, <2>9, <2>10, SameCardinality DEF L2!Decide
  <2> QED BY <2>1, <2>11 DEF L2!TableNext
<1> QED BY <1>4, <1>5, <1>6, <1>7 DEF RoundStep

LEMMA TablesStartRound == GovernInit => RInv /\ L1!TableInit /\ L2!TableInit
<1> SUFFICES ASSUME GovernInit PROVE RInv /\ L1!TableInit /\ L2!TableInit OBVIOUS
<1>1. RInv BY InitCounts DEF RInv, TypedVotes, GovernInit
<1>2. Genesis \in Table /\ Table2 \in Table BY DEF Table
<1>3. L1!TableInit BY <1>2 DEF GovernInit, L1!TableInit, SeatBallots
<1>4. L2!TableInit BY <1>2 DEF GovernInit, L2!TableInit, SeatBallots
<1> QED BY <1>1, <1>3, <1>4

\* Both tables change hands only as RoundTable says: by votes that members hold
\* at that moment, four fifths of them and never fewer than two, one vote each,
\* a leaver's votes gone with them (my_hook and action_seat).
THEOREM TablesStayRoundTables == GovernSpec => TablesAreRoundTables
<1>1. GovernInit => RInv /\ L1!TableInit /\ L2!TableInit BY TablesStartRound
<1>2. RInv /\ [GovernNext]_governVars => RInv'
  BY StepKeepsCounts, StepIsRound DEF RInv
<1>3. RInv /\ RInv' /\ [GovernNext]_governVars
        => [L1!TableNext]_(L1!abstractVars) /\ [L2!TableNext]_(L2!abstractVars)
  <2> SUFFICES ASSUME RInv, RInv', [GovernNext]_governVars
               PROVE  [L1!TableNext]_(L1!abstractVars) /\ [L2!TableNext]_(L2!abstractVars)
    OBVIOUS
  <2>1. RoundStep(Genesis) /\ RoundStep(Table2) BY StepIsRound DEF RInv, Table
  <2> QED BY <2>1, RoundIsL1, RoundIsL2
<1> QED BY <1>1, <1>2, <1>3, PTL DEF GovernSpec, TablesAreRoundTables, L1!TableSpec, L2!TableSpec

-----------------------------------------------------------------------------
(* With the reward Hook on the same account *)

\* The steps of Reward leave the tables to Govern; a claim only adds what it
\* emits to what is in flight.
LEMMA RewardStepLeaves ==
  ASSUME IInv, GenesisNext, ~GovernNext
  PROVE  IInv' /\ UNCHANGED <<mc, reverse, votes, counts>>
<1>1. CASE UNCHANGED governVars
  BY <1>1, TablesUnchanged DEF governVars, tableVars
<1>2. ASSUME NEW c \in Claimers, ClaimReward(c)
      PROVE  IInv' /\ UNCHANGED <<mc, reverse, votes, counts>>
  <2>1. UNCHANGED <<script, mc, forward, reverse, votes, counts>>
    BY <1>2 DEF ClaimReward, tableVars
  <2>2. \A e \in flight' : e \in flight \/ e.kind = "Mint" BY <1>2 DEF ClaimReward, Emits
  <2>3. IInv' BY <2>1, <2>2, TablesUnchanged
  <2> QED BY <2>1, <2>3
<1> QED
  BY <1>1, <1>2
  DEF GenesisNext, CloseLedger, OptIn, ChangeBalance, ReportValidators

LEMMA GenesisKeepsVotes == VInv /\ [GenesisNext]_genesisVars => VInv'
<1> SUFFICES ASSUME VInv, [GenesisNext]_genesisVars PROVE VInv' OBVIOUS
<1>1. CASE GovernNext BY <1>1, StepKeepsVotes
<1>2. CASE UNCHANGED genesisVars BY <1>2, StepKeepsVotes DEF genesisVars
<1>3. CASE GenesisNext /\ ~GovernNext
  BY <1>3, RewardStepLeaves, VotesUnchanged DEF VInv
<1> QED BY <1>1, <1>2, <1>3

LEMMA GenesisKeepsCounts == CInv /\ [GenesisNext]_genesisVars => CInv'
<1> SUFFICES ASSUME CInv, [GenesisNext]_genesisVars PROVE CInv' OBVIOUS
<1>1. CASE GovernNext BY <1>1, StepKeepsCounts
<1>2. CASE UNCHANGED genesisVars BY <1>2, StepKeepsCounts DEF genesisVars
<1>3. CASE GenesisNext /\ ~GovernNext
  BY <1>3, RewardStepLeaves, GenesisKeepsVotes, CountsUnchanged DEF CInv, VInv
<1> QED BY <1>1, <1>2, <1>3

\* The same of the genesis account with both its Hooks: whatever claims come
\* between the votes, its table stays sound and holds only members' votes.
THEOREM GenesisStaysSound == GenesisSpec => [](TableSound /\ OnlyMembersVotes)
<1>1. GenesisInit => VInv BY InitCounts DEF GenesisInit, CInv
<1>2. VInv => TableSound /\ OnlyMembersVotes BY DEF VInv, IInv
<1> QED BY <1>1, <1>2, GenesisKeepsVotes, PTL DEF GenesisSpec

\* And its counts stay exact, among as many accounts as a byte can count.
THEOREM GenesisCountsStayExact ==
  ASSUME Cardinality(Account) < 256
  PROVE  GenesisSpec => []CountsAreMembersVotes
<1>1. GenesisInit => CInv BY InitCounts DEF GenesisInit
<1>2. CInv => CountsAreMembersVotes
  BY DEF CInv, CountsExact, VInv, CountsAreMembersVotes, CountsAreVotes, Exact, Stand, ByteHolds
<1>3. CInv /\ [GenesisNext]_genesisVars => CInv' BY GenesisKeepsCounts
<1> QED BY <1>1, <1>2, <1>3, PTL DEF GenesisSpec

\* A claim emits a mint, no vote: the other steps of Reward emit nothing.
LEMMA RewardStepEmits ==
  ASSUME GenesisNext, ~GovernNext
  PROVE  /\ \A e \in flight' \ flight : e.kind = "Mint"
         /\ UNCHANGED <<forward, reward>>
<1> DEFINE Goal == (\A e \in flight' \ flight : e.kind = "Mint") /\ UNCHANGED <<forward, reward>>
<1>1. ASSUME NEW c \in Claimers, ClaimReward(c) PROVE Goal
  BY <1>1 DEF ClaimReward, Emits, tableVars
<1>2. CASE UNCHANGED governVars BY <1>2 DEF governVars, tableVars
<1> QED BY <1>1, <1>2 DEF GenesisNext, CloseLedger, OptIn, ChangeBalance, ReportValidators

LEMMA GenesisKeepsQuorums == QInv /\ [GenesisNext]_genesisVars => QInv'
<1> SUFFICES ASSUME QInv, [GenesisNext]_genesisVars PROVE QInv' OBVIOUS
<1>1. CInv' BY GenesisKeepsCounts DEF QInv
<1>2. TypedReward'
  <2>1. CASE GovernNext BY <2>1, StepKeepsReward DEF QInv, CInv, VInv
  <2>2. CASE UNCHANGED genesisVars BY <2>2 DEF genesisVars, governVars, QInv, TypedReward
  <2>3. CASE GenesisNext /\ ~GovernNext BY <2>3, RewardStepEmits DEF QInv, TypedReward
  <2> QED BY <2>1, <2>2, <2>3
<1> QED BY <1>1, <1>2 DEF QInv

\* Quorums hold of the genesis account with both its Hooks: a claim between two
\* votes neither lends a forward, a hook or a setting its votes nor takes them.
THEOREM GenesisNeedsQuorum == GenesisSpec => ActionedByQuorum
<1>1. GenesisInit => QInv BY InitCounts DEF QInv, GenesisInit, GovernInit, TypedReward
<1>2. QInv /\ QInv' /\ [GenesisNext]_genesisVars => [ChangesByVote]_governVars
  <2> SUFFICES ASSUME QInv, QInv', [GenesisNext]_genesisVars PROVE [ChangesByVote]_governVars
    OBVIOUS
  <2>1. CASE GovernNext BY <2>1, StepByVote DEF QInv
  <2>2. CASE UNCHANGED genesisVars BY <2>2 DEF genesisVars
  <2>3. CASE GenesisNext /\ ~GovernNext
    <3>1. \A e \in flight' \ flight : MajorityBehind(e)'
      BY <2>3, RewardStepEmits DEF MajorityBehind
    <3>2. reward' = reward BY <2>3, RewardStepEmits
    <3> QED BY <3>1, <3>2 DEF ChangesByVote
  <2> QED BY <2>1, <2>2, <2>3
<1> QED BY <1>1, <1>2, GenesisKeepsQuorums, PTL DEF GenesisSpec, ActionedByQuorum

\* Both tables stay round tables while rewards are claimed on the account of
\* one of them.
THEOREM GenesisKeepsRoundTables == GenesisSpec => TablesAreRoundTables
<1>1. GenesisInit => RInv /\ L1!TableInit /\ L2!TableInit
  BY TablesStartRound DEF GenesisInit
<1>2. ASSUME RInv, [GenesisNext]_genesisVars
      PROVE  RInv' /\ RoundStep(Genesis) /\ RoundStep(Table2)
  <2>1. CInv' BY <1>2, GenesisKeepsCounts DEF RInv
  <2>2. TypedVotes' /\ \A u \in Table : RoundStep(u)
    <3>1. CASE GovernNext \/ UNCHANGED genesisVars
      BY <1>2, <2>1, <3>1, StepIsRound DEF genesisVars
    <3>2. CASE GenesisNext /\ ~GovernNext
      <4>1. UNCHANGED <<mc, forward, votes>>
        BY <1>2, <3>2, RewardStepLeaves, RewardStepEmits DEF RInv, CInv, VInv
      <4>2. TypedVotes' BY <1>2, <4>1 DEF RInv, TypedVotes
      <4>3. \A u \in Table : Quiet(u) BY <4>1 DEF Quiet
      <4> QED BY <4>2, <4>3 DEF RoundStep
    <3> QED BY <1>2, <3>1, <3>2
  <2> QED BY <2>1, <2>2 DEF RInv, Table
<1>3. RInv /\ [GenesisNext]_genesisVars
        => RInv' /\ [L1!TableNext]_(L1!abstractVars) /\ [L2!TableNext]_(L2!abstractVars)
  BY <1>2, RoundIsL1, RoundIsL2
<1> QED BY <1>1, <1>3, PTL DEF GenesisSpec, TablesAreRoundTables, L1!TableSpec, L2!TableSpec

-----------------------------------------------------------------------------
(* What a claim is paid *)

\* The protocol's accounting is of what was held at the closes since the last
\* claim: what is accumulated, and what is held for the ledgers since the
\* balance last changed.
Accounts ==
  \A c \in Claimers : acct[c] # None =>
    /\ acct[c].accumulator \in Nat /\ acct[c].first \in Nat /\ acct[c].last \in Nat
    /\ acct[c].first <= acct[c].last /\ acct[c].last <= ledger
    /\ since[c] = acct[c].first
    /\ owed[c] = acct[c].accumulator + Xah(balance[c]) * (ledger - acct[c].last)

TypedLedger ==
  /\ ledger \in Nat /\ balance \in [Claimers -> Nat]
  /\ acct = [c \in Claimers |-> acct[c]]
  /\ owed = [c \in Claimers |-> owed[c]] /\ since = [c \in Claimers |-> since[c]]

\* Numbers are not the entries of an account.
Entry == [accumulator : Nat, first : Nat, last : Nat, time : Nat]

AInv ==
  /\ IInv /\ TypedReward /\ TypedLedger /\ Accounts
  /\ \A c \in Claimers : acct[c] \in Entry \cup {None}

LEMMA XahNat ==
  ASSUME NEW d \in Nat
  PROVE  Xah(d) \in Nat
BY RewardConstants DEF Xah

\* The whole XAH held over one ledger more.
LEMMA OneMore ==
  ASSUME NEW x \in Nat, NEW a \in Nat, NEW m \in Nat, NEW n \in Nat
  PROVE  (a + x * (m - n)) + x = a + x * ((m + 1) - n)
<1>1. x * ((m + 1) - n) = x * (m - n) + x OBVIOUS
<1>2. x * (m - n) \in Int OBVIOUS
<1> QED BY <1>1, <1>2

\* An account's entries, the two that a payment writes replaced.
Moved(r, h, l) == [r EXCEPT !.accumulator = @ + h, !.last = l]

LEMMA EntryMoves ==
  ASSUME NEW r \in Entry, NEW h \in Nat, NEW l \in Nat
  PROVE  /\ Moved(r, h, l) \in Entry
         /\ Moved(r, h, l).accumulator = r.accumulator + h
         /\ Moved(r, h, l).last = l /\ Moved(r, h, l).first = r.first
<1> DEFINE r1 == [r EXCEPT !.accumulator = @ + h]
           s == [r1 EXCEPT !.last = l]
<1>1. r1 \in Entry /\ r1.accumulator = r.accumulator + h /\ r1.first = r.first BY DEF Entry
<1>2. Moved(r, h, l) = s BY DEF Moved
<1> HIDE DEF r1
<1>3. s \in Entry /\ s.accumulator = r1.accumulator /\ s.last = l /\ s.first = r1.first
  BY <1>1 DEF Entry
<1> HIDE DEF s
<1> QED BY <1>1, <1>2, <1>3

\* What an account of a claimer is, at every step that is not Govern's.
LEMMA CloseKeepsAccounts ==
  ASSUME AInv, CloseLedger
  PROVE  TypedLedger' /\ Accounts' /\ \A c \in Claimers : acct'[c] \in Entry \cup {None}
<1>1. ledger \in Nat /\ ledger' = ledger + 1 /\ balance' = balance /\ acct' = acct /\ since' = since
      /\ owed' = [c \in Claimers |-> IF acct[c] = None THEN 0 ELSE owed[c] + Xah(balance[c])]
  BY DEF CloseLedger, AInv, TypedLedger
<1>2. TypedLedger' BY <1>1 DEF AInv, TypedLedger
<1>3. ASSUME NEW c \in Claimers, acct'[c] # None
      PROVE  /\ acct'[c].accumulator \in Nat /\ acct'[c].first \in Nat /\ acct'[c].last \in Nat
             /\ acct'[c].first <= acct'[c].last /\ acct'[c].last <= ledger'
             /\ since'[c] = acct'[c].first
             /\ owed'[c] = acct'[c].accumulator + Xah(balance'[c]) * (ledger' - acct'[c].last)
  <2>1. /\ acct[c].accumulator \in Nat /\ acct[c].first \in Nat /\ acct[c].last \in Nat
        /\ acct[c].first <= acct[c].last /\ acct[c].last <= ledger
        /\ since[c] = acct[c].first
        /\ owed[c] = acct[c].accumulator + Xah(balance[c]) * (ledger - acct[c].last)
    BY <1>1, <1>3 DEF AInv, Accounts
  <2>2. Xah(balance[c]) \in Nat BY XahNat DEF AInv, TypedLedger
  <2>3. owed[c] + Xah(balance[c])
          = acct[c].accumulator + Xah(balance[c]) * ((ledger + 1) - acct[c].last)
    <3> DEFINE x == Xah(balance[c])
               a == acct[c].accumulator
               n == acct[c].last
    <3>1. x \in Nat /\ a \in Nat /\ n \in Nat /\ owed[c] = a + x * (ledger - n) BY <2>1, <2>2
    <3> HIDE DEF x, a, n
    <3>2. owed[c] + x = a + x * ((ledger + 1) - n) BY <3>1, <1>1, OneMore
    <3> QED BY <3>2 DEF x, a, n
  <2>4. owed'[c] = owed[c] + Xah(balance[c]) BY <1>1, <1>3
  <2>5. acct[c].last <= ledger + 1 BY <2>1, <1>1
  <2> QED BY <2>1, <2>3, <2>4, <2>5, <1>1
<1>4. Accounts' BY <1>3 DEF Accounts
<1> QED BY <1>1, <1>2, <1>4 DEF AInv

LEMMA BalanceKeepsAccounts ==
  ASSUME AInv, NEW c \in Claimers, NEW b \in Balances, ChangeBalance(c, b)
  PROVE  TypedLedger' /\ Accounts' /\ \A d \in Claimers : acct'[d] \in Entry \cup {None}
<1>1. /\ ledger \in Nat /\ ledger' = ledger /\ owed' = owed /\ since' = since
      /\ balance' = [balance EXCEPT ![c] = b] /\ acct' = [acct EXCEPT ![c] = Accrued(c)]
  BY DEF ChangeBalance, AInv, TypedLedger
<1>2. TypedLedger' BY <1>1, RewardConstants DEF AInv, TypedLedger
<1>3. acct'[c] = Accrued(c) /\ balance'[c] = b /\ b \in Nat
  BY <1>1, RewardConstants DEF AInv, TypedLedger
<1>4. \A d \in Claimers : d # c => acct'[d] = acct[d] /\ balance'[d] = balance[d]
  BY <1>1 DEF AInv, TypedLedger
<1>5. CASE acct[c] = None
  <2>1. acct'[c] = None BY <1>3, <1>5 DEF Accrued
  <2> QED BY <2>1, <1>1, <1>2, <1>4 DEF AInv, Accounts
<1>6. CASE acct[c] # None
  <2> DEFINE held == Xah(balance[c]) * (ledger - acct[c].last)
  <2>1. /\ acct[c] \in Entry
        /\ acct[c].first <= acct[c].last /\ acct[c].last <= ledger
        /\ since[c] = acct[c].first /\ owed[c] = acct[c].accumulator + held
    BY <1>6 DEF AInv, Accounts
  <2>2. held \in Nat
    <3>1. Xah(balance[c]) \in Nat BY XahNat DEF AInv, TypedLedger
    <3>2. ledger - acct[c].last \in Nat BY <2>1, <1>1 DEF Entry
    <3> QED BY <3>1, <3>2
  <2> HIDE DEF held
  <2>3. acct'[c] = [acct[c] EXCEPT !.accumulator = @ + held, !.last = ledger]
    BY <1>3, <1>6 DEF Accrued, held
  <2>4. /\ acct'[c] \in Entry
        /\ acct'[c].accumulator = acct[c].accumulator + held
        /\ acct'[c].last = ledger /\ acct'[c].first = acct[c].first
    <3>1. held \in Nat /\ ledger \in Nat BY <2>2, <1>1
    <3>2. acct'[c] = Moved(acct[c], held, ledger) BY <2>3 DEF Moved
    <3> QED BY <2>1, <3>1, <3>2, EntryMoves
  <2>5. Xah(b) * (ledger - ledger) = 0
    <3>1. Xah(b) \in Nat BY <1>3, XahNat
    <3> QED BY <3>1, <1>1
  <2>6. owed'[c] = acct'[c].accumulator + Xah(balance'[c]) * (ledger' - acct'[c].last)
    <3>1. owed[c] = (acct[c].accumulator + held) + 0 BY <2>1, <2>2 DEF Entry
    <3> QED BY <3>1, <2>4, <2>5, <1>1, <1>3
  <2>7. /\ acct'[c].accumulator \in Nat /\ acct'[c].first \in Nat /\ acct'[c].last \in Nat
        /\ acct'[c].first <= acct'[c].last /\ acct'[c].last <= ledger'
        /\ since'[c] = acct'[c].first
    BY <2>1, <2>4, <1>1 DEF Entry
  <2> QED BY <2>4, <2>6, <2>7, <1>1, <1>2, <1>4 DEF AInv, Accounts
<1> QED BY <1>5, <1>6

\* A claim and an opt-in start over.
LEMMA StartKeepsAccounts ==
  ASSUME AInv, NEW c \in Claimers, StartAccounting(c), ledger' = ledger,
         balance' \in [Claimers -> Nat], \A d \in Claimers : d # c => balance'[d] = balance[d]
  PROVE  TypedLedger' /\ Accounts' /\ \A d \in Claimers : acct'[d] \in Entry \cup {None}
<1> DEFINE new == [accumulator |-> 0, first |-> ledger, last |-> ledger, time |-> CloseTime]
<1>1. /\ ledger \in Nat /\ acct' = [acct EXCEPT ![c] = new]
      /\ owed' = [owed EXCEPT ![c] = 0] /\ since' = [since EXCEPT ![c] = ledger]
  BY DEF StartAccounting, AInv, TypedLedger
<1>2. TypedLedger' BY <1>1 DEF AInv, TypedLedger
<1>3. acct'[c] = new /\ owed'[c] = 0 /\ since'[c] = ledger BY <1>1 DEF AInv, TypedLedger
<1>4. \A d \in Claimers : d # c => acct'[d] = acct[d] /\ owed'[d] = owed[d] /\ since'[d] = since[d]
  BY <1>1 DEF AInv, TypedLedger
<1>5. new \in Entry
  <2>1. CloseTime \in Nat BY <1>1, RewardConstants DEF CloseTime
  <2> QED BY <2>1, <1>1 DEF Entry
<1>6. Xah(balance'[c]) * (ledger - ledger) = 0
  <2>1. Xah(balance'[c]) \in Nat BY XahNat
  <2> QED BY <2>1, <1>1
<1>7. /\ new.accumulator = 0 /\ new.first = ledger /\ new.last = ledger OBVIOUS
<1> HIDE DEF new
<1>8. /\ acct'[c].accumulator \in Nat /\ acct'[c].first \in Nat /\ acct'[c].last \in Nat
      /\ acct'[c].first <= acct'[c].last /\ acct'[c].last <= ledger'
      /\ since'[c] = acct'[c].first
      /\ owed'[c] = acct'[c].accumulator + Xah(balance'[c]) * (ledger' - acct'[c].last)
  BY <1>1, <1>3, <1>6, <1>7
<1> QED BY <1>2, <1>3, <1>4, <1>5, <1>8 DEF AInv, Accounts

LEMMA GenesisKeepsAccounts == AInv /\ [GenesisNext]_genesisVars => AInv'
<1> SUFFICES ASSUME AInv, [GenesisNext]_genesisVars PROVE AInv' OBVIOUS
<1> DEFINE Kept == TypedLedger' /\ Accounts' /\ \A c \in Claimers : acct'[c] \in Entry \cup {None}
<1>1. IInv' /\ TypedReward'
  <2>1. CASE GovernNext \/ UNCHANGED genesisVars
    <3>1. [GovernNext]_governVars BY <2>1 DEF genesisVars
    <3> QED BY <3>1, StepSound, StepKeepsReward DEF AInv
  <2>2. CASE GenesisNext /\ ~GovernNext
    <3>1. reward' = reward
      BY <2>2 DEF GenesisNext, CloseLedger, OptIn, ClaimReward, ChangeBalance, ReportValidators, governVars
    <3>2. TypedReward' BY <3>1 DEF AInv, TypedReward
    <3> QED BY <2>2, <3>2, RewardStepLeaves DEF AInv
  <2> QED BY <2>1, <2>2
<1>2. ASSUME UNCHANGED <<ledger, accounting>> PROVE Kept
  BY <1>2 DEF accounting, AInv, TypedLedger, Accounts
<1>3. ASSUME GovernNext, UNCHANGED rewardVars PROVE Kept BY <1>2, <1>3 DEF rewardVars
<1>4. ASSUME CloseLedger PROVE Kept BY <1>4, CloseKeepsAccounts
<1>5. ASSUME NEW c \in Claimers, PaysFee(c)
      PROVE  balance' \in [Claimers -> Nat] /\ \A d \in Claimers : d # c => balance'[d] = balance[d]
  BY <1>5, RewardConstants DEF PaysFee, AInv, TypedLedger
<1>6. ASSUME NEW c \in Claimers, OptIn(c) \/ ClaimReward(c) PROVE Kept
  <2>1. PaysFee(c) /\ StartAccounting(c) /\ ledger' = ledger
    BY <1>6 DEF OptIn, ClaimReward
  <2> QED BY <1>5, <2>1, StartKeepsAccounts
<1>7. ASSUME NEW c \in Claimers, NEW b \in Balances, ChangeBalance(c, b) PROVE Kept
  BY <1>7, BalanceKeepsAccounts
<1>8. ASSUME NEW s \in Reports, ReportValidators(s) PROVE Kept
  BY <1>2, <1>8 DEF ReportValidators
<1>9. ASSUME UNCHANGED genesisVars PROVE Kept BY <1>2, <1>9 DEF genesisVars, rewardVars
<1> QED BY <1>1, <1>3, <1>4, <1>5, <1>6, <1>7, <1>8, <1>9 DEF GenesisNext, AInv

\* What the Hook reads off the account is what the account was owed.
LEMMA AccumulatedIsOwed ==
  ASSUME AInv, NEW c \in Claimers, acct[c] # None
  PROVE  Accumulated(c) = owed[c] /\ Accumulated(c) \in Nat
<1> DEFINE x == Xah(balance[c])
           k == ledger - acct[c].last
<1>1. /\ acct[c].accumulator \in Nat /\ acct[c].last \in Nat /\ acct[c].last <= ledger
      /\ owed[c] = acct[c].accumulator + x * k /\ ledger \in Nat
  BY DEF AInv, Accounts, TypedLedger
<1>2. x \in Nat BY XahNat DEF AInv, TypedLedger
<1>3. k \in Nat BY <1>1
<1>4. Accumulated(c) = acct[c].accumulator + (IF x > 0 /\ k > 0 THEN x * k ELSE 0)
  BY DEF Accumulated
<1> HIDE DEF x, k
<1>5. ~(x > 0 /\ k > 0) => x * k = 0 BY <1>2, <1>3
<1>6. x * k \in Nat BY <1>2, <1>3
<1> QED BY <1>1, <1>4, <1>5, <1>6

\* The first entry of a mint is the claimer's.
LEMMA ClaimerFirst ==
  ASSUME NEW c
  PROVE  Entries(c)[1] = [to |-> c, drops |-> BaseReward(c) + Fee]
<1> DEFINE s == SeatEntries(BaseReward(c) \div Shares)
           k == Cardinality(CanReward)
           R == {s[i] : i \in 1 .. k}
           x == [to |-> c, drops |-> BaseReward(c) + Fee]
<1>1. k \in Nat
  <2>1. IsFiniteSet(Seat) BY FS_Interval, GovernConstants DEF Seat
  <2>2. CanReward \subseteq Seat BY DEF CanReward
  <2> QED BY <2>1, <2>2, FS_Subset, FS_CardinalityType
<1>2. s = [i \in 1 .. k |-> s[i]] BY DEF SeatEntries
<1>3. Entries(c) = <<x>> \o s BY DEF Entries
<1> HIDE DEF s, k, x
<1>4. s \in Seq(R) BY <1>1, <1>2
<1>5. (<<x>> \o s)[1] = x BY <1>4
<1> QED BY <1>3, <1>5 DEF x

\* A vote or a delivery emits no mint.
LEMMA NoOtherMint ==
  ASSUME GovernNext
  PROVE  Mints = {}
<1>1. ASSUME NEW t, NEW v, NEW b, NEW used, Decided(t, v, b, used)
      PROVE  \A e \in flight' \ flight : e.kind = "HookSet"
  BY <1>1 DEF Decided, VoteOnly, ActionReward, ActionHook, ActionSeat, AlreadySeated, Emits
<1>2. ASSUME NEW t, NEW v, NEW b, ForwardVote(t, v, b)
      PROVE  \A e \in flight' \ flight : e.kind = "Invoke"
  BY <1>2 DEF ForwardVote, Emits
<1>3. ASSUME NEW t \in Table, Setup(t) PROVE Mints = {} BY <1>3 DEF Setup, Mints
<1>4. ASSUME NEW e \in flight, Deliver(e) \/ InstallHook(e) \/ Lose(e) PROVE Mints = {}
  BY <1>1, <1>4 DEF Deliver, InstallHook, Lose, Mints
<1> QED BY <1>1, <1>2, <1>3, <1>4 DEF GovernNext, Mints

LEMMA ClaimPaysTheMean ==
  ASSUME AInv, NEW c \in Claimers, ClaimReward(c), NEW e \in Mints
  PROVE  e.entries[1] = [to |-> e.claimer,
           drops |-> Fee + (RewardRate[1] * owed[e.claimer] * DropsPerXah)
                             \div (RewardRate[2] * (ledger - since[e.claimer]))]
<1> DEFINE q == (RewardRate[1] * owed[c] * DropsPerXah) \div (RewardRate[2] * (ledger - since[c]))
<1>1. e = [kind |-> "Mint", no |-> ledger, claimer |-> c, entries |-> Entries(c)]
  BY DEF ClaimReward, Emits, Mints
<1>2. e.claimer = c /\ e.entries[1] = [to |-> c, drops |-> BaseReward(c) + Fee]
  BY <1>1, ClaimerFirst
<1>3. acct[c] # None /\ Elapsed(c) > 0 BY DEF ClaimReward, MayClaim
<1>4. Accumulated(c) = owed[c] /\ owed[c] \in Nat BY <1>3, AccumulatedIsOwed
<1>5. Elapsed(c) = ledger - since[c] /\ Elapsed(c) \in Nat \ {0}
  BY <1>3 DEF AInv, Accounts, TypedLedger, Elapsed
<1>6. BaseReward(c) = q BY <1>4, <1>5 DEF BaseReward
<1>7. RewardRate[1] \in Int /\ RewardRate[2] \in Nat \ {0}
  <2>1. (IF reward.R = None THEN DefaultRate ELSE reward.R) \in Rate
    BY RewardConstants DEF AInv, TypedReward
  <2> QED BY <2>1, RewardConstants DEF RewardRate
<1>8. q \in Int
  <2> DEFINE m == RewardRate[1] * owed[c] * DropsPerXah
             d == RewardRate[2] * (ledger - since[c])
  <2>1. m \in Int BY <1>4, <1>7, RewardConstants
  <2>2. d \in Nat /\ d > 0
    <3> DEFINE y == RewardRate[2]
               z == ledger - since[c]
    <3>1. y \in Nat /\ z \in Nat /\ y > 0 /\ z > 0 BY <1>5, <1>7
    <3> HIDE DEF y, z
    <3>2. y * z \in Nat /\ y * z > 0 BY <3>1
    <3> QED BY <3>2 DEF y, z
  <2> HIDE DEF m, d
  <2>3. m \div d \in Int BY <2>1, <2>2
  <2> QED BY <2>3 DEF m, d
<1> HIDE DEF q
<1>9. BaseReward(c) + Fee = Fee + q BY <1>6, <1>8, RewardConstants
<1> QED BY <1>2, <1>9 DEF q

LEMMA AccountsStart == GenesisInit => AInv
<1> SUFFICES ASSUME GenesisInit PROVE AInv OBVIOUS
<1>1. IInv /\ TypedReward BY InitSound DEF GenesisInit, GovernInit, TypedReward
<1>2. TypedLedger BY RewardConstants DEF GenesisInit, TypedLedger
<1>3. \A c \in Claimers : acct[c] = None BY DEF GenesisInit
<1> QED BY <1>1, <1>2, <1>3 DEF AInv, Accounts

\* Whatever the rates, the balances and the order of claims, balance changes,
\* closes and votes: a claim is paid the rate of what the account held on
\* average since its last claim (reward_hook's accumulator and elapsed).
THEOREM ClaimsPayTheMean == GenesisSpec => PaysTheMean
<1> DEFINE Paid == \A e \in Mints :
             e.entries[1] = [to |-> e.claimer,
               drops |-> Fee + (RewardRate[1] * owed[e.claimer] * DropsPerXah)
                                 \div (RewardRate[2] * (ledger - since[e.claimer]))]
<1>1. GenesisInit => AInv BY AccountsStart
<1>2. AInv /\ [GenesisNext]_genesisVars => [Paid]_genesisVars
  <2> SUFFICES ASSUME AInv, GenesisNext PROVE Paid OBVIOUS
  <2>1. CASE GovernNext BY <2>1, NoOtherMint
  <2>2. ASSUME NEW c \in Claimers, ClaimReward(c) PROVE Paid
    BY <2>2, ClaimPaysTheMean
  <2>3. CASE flight' = flight BY <2>3 DEF Mints
  <2> QED
    BY <2>1, <2>2, <2>3
    DEF GenesisNext, CloseLedger, OptIn, ChangeBalance, ReportValidators, governVars
<1> QED BY <1>1, <1>2, GenesisKeepsAccounts, PTL DEF GenesisSpec, PaysTheMean

-----------------------------------------------------------------------------
(* Who is paid *)

\* A report names validators.
TypedReport == unl = None \/ unl \in SUBSET Person

RankBelow(n) == {m \in CanReward : m < n}

LEMMA SeatsToPayFinite ==
  /\ CanReward \subseteq Seat /\ CanReward \subseteq Nat
  /\ IsFiniteSet(CanReward) /\ Cardinality(CanReward) \in Nat
<1>1. IsFiniteSet(Seat) BY FS_Interval, GovernConstants DEF Seat
<1>2. CanReward \subseteq Seat /\ Seat \subseteq Nat BY GovernConstants DEF CanReward, Seat
<1> QED BY <1>1, <1>2, FS_Subset, FS_CardinalityType

\* No two seats have as many below them, and every number of seats below is
\* some seat's: ranks are an injection into as many numbers as there are seats.
LEMMA RanksAreSeats ==
  /\ \A n \in CanReward : Cardinality(RankBelow(n)) \in 0 .. Cardinality(CanReward) - 1
  /\ \A n, m \in CanReward : Cardinality(RankBelow(n)) = Cardinality(RankBelow(m)) => n = m
  /\ \A i \in 0 .. Cardinality(CanReward) - 1 : \E n \in CanReward : Cardinality(RankBelow(n)) = i
<1> DEFINE S == CanReward
           k == Cardinality(S)
           R == 0 .. k - 1
           rank == [n \in S |-> Cardinality(RankBelow(n))]
<1>1. S \subseteq Nat /\ IsFiniteSet(S) /\ k \in Nat BY SeatsToPayFinite
<1>2. \A n : RankBelow(n) \subseteq S /\ IsFiniteSet(RankBelow(n)) /\ Cardinality(RankBelow(n)) \in Nat
  BY <1>1, FS_Subset, FS_CardinalityType DEF RankBelow
<1>3. \A n \in S : Cardinality(RankBelow(n)) \in R
  <2> SUFFICES ASSUME NEW n \in S PROVE Cardinality(RankBelow(n)) \in R OBVIOUS
  <2>1. n \notin RankBelow(n) BY <1>1 DEF RankBelow
  <2>2. Cardinality(RankBelow(n)) <= k /\ Cardinality(RankBelow(n)) # k
    BY <1>1, <1>2, <2>1, FS_Subset
  <2> QED BY <1>1, <1>2, <2>2
<1>4. ASSUME NEW n \in S, NEW m \in S, n < m
      PROVE  Cardinality(RankBelow(n)) # Cardinality(RankBelow(m))
  <2>1. RankBelow(n) \subseteq RankBelow(m)
    <3> SUFFICES ASSUME NEW x \in CanReward, x < n PROVE x < m BY DEF RankBelow
    <3>1. x \in Nat /\ n \in Nat /\ m \in Nat BY <1>1
    <3> QED BY <3>1, <1>4
  <2>2. n \in RankBelow(m) /\ n \notin RankBelow(n) BY <1>1, <1>4 DEF RankBelow
  <2> QED BY <1>2, <2>1, <2>2, FS_Subset
<1>5. \A n, m \in S : Cardinality(RankBelow(n)) = Cardinality(RankBelow(m)) => n = m
  <2> SUFFICES ASSUME NEW n \in S, NEW m \in S, n # m
               PROVE  Cardinality(RankBelow(n)) # Cardinality(RankBelow(m))
    OBVIOUS
  <2>1. n < m \/ m < n BY <1>1
  <2> QED BY <1>4, <2>1
<1>6. rank \in Injection(S, R) BY <1>3, <1>5 DEF Injection, IsInjective
<1>7. IsFiniteSet(R) /\ Cardinality(R) = k
  <2> HIDE DEF k
  <2>1. 0 \in Int /\ k - 1 \in Int BY <1>1
  <2>2. IsFiniteSet(R) /\ Cardinality(R) = IF 0 > k - 1 THEN 0 ELSE (k - 1) - 0 + 1
    BY <2>1, FS_Interval
  <2> QED BY <1>1, <2>2
<1>8. rank \in Surjection(S, R) BY <1>6, <1>7, FS_Injection
<1>9. \A i \in R : \E n \in S : rank[n] = i BY <1>8 DEF Surjection
<1>10. \A i \in R : \E n \in S : Cardinality(RankBelow(n)) = i BY <1>9
<1> QED BY <1>3, <1>5, <1>10

\* The entries go through the seats to be paid, each once.
LEMMA SeatAtCovers ==
  /\ \A i \in 1 .. Cardinality(CanReward) : SeatAt(i) \in CanReward
  /\ \A n \in CanReward : \E i \in 1 .. Cardinality(CanReward) : SeatAt(i) = n
<1> DEFINE k == Cardinality(CanReward)
<1>1. k \in Nat BY SeatsToPayFinite
<1>2. ASSUME NEW i \in 1 .. k
      PROVE  SeatAt(i) \in CanReward /\ Cardinality(RankBelow(SeatAt(i))) = i - 1
  <2>1. i - 1 \in 0 .. k - 1 BY <1>1
  <2>2. \E n \in CanReward : Cardinality(RankBelow(n)) = i - 1 BY <2>1, RanksAreSeats
  <2> QED BY <2>2 DEF SeatAt, RankBelow
<1>3. ASSUME NEW n \in CanReward PROVE \E i \in 1 .. k : SeatAt(i) = n
  <2> DEFINE i == Cardinality(RankBelow(n)) + 1
  <2>1. Cardinality(RankBelow(n)) \in 0 .. k - 1 BY RanksAreSeats
  <2>2. i \in 1 .. k /\ i - 1 = Cardinality(RankBelow(n)) BY <1>1, <2>1
  <2> HIDE DEF i
  <2>3. SeatAt(i) \in CanReward /\ Cardinality(RankBelow(SeatAt(i))) = Cardinality(RankBelow(n))
    BY <1>2, <2>2
  <2> QED BY <2>2, <2>3, RanksAreSeats
<1> QED BY <1>2, <1>3

\* Whom the seats to be paid belong to: the validators who are members, each
\* in one seat.
LEMMA OccupantsPaid ==
  ASSUME IInv, TypedReport
  PROVE  LET paid == {forward[Genesis][n] : n \in CanReward}
         IN  /\ paid = (IF unl = None THEN {} ELSE unl) \cap Members(Genesis)
             /\ Cardinality(paid) = Cardinality(CanReward)
<1> DEFINE f == forward[Genesis]
           r == reverse[Genesis]
           who == IF unl = None THEN {} ELSE unl
           paid == {f[n] : n \in CanReward}
           g == [n \in CanReward |-> f[n]]
<1>1. Genesis \in Table BY DEF Table
<1>2. /\ \A n \in Seat, a \in Account : f[n] = a <=> r[a] = n
      /\ r \in [Account -> Seat \cup {None}]
  BY <1>1 DEF IInv, TypedTables, TableSound
<1>3. who \subseteq Account BY DEF TypedReport, Account
<1>4. CanReward = {n \in Seat : \E v \in who : r[v] = n} BY DEF CanReward
<1>5. None \notin Seat BY GovernConstants DEF Seat
<1>6. Members(Genesis) = {a \in Account : r[a] # None} BY DEF Members
<1> HIDE DEF f, r, who
<1>7. \A n \in CanReward : f[n] \in who /\ r[f[n]] = n BY <1>2, <1>3, <1>4
<1>8. \A a \in who \cap Members(Genesis) : r[a] \in CanReward /\ f[r[a]] = a
  BY <1>2, <1>3, <1>4, <1>6
<1>9. paid = who \cap Members(Genesis)
  <2>1. \A n \in CanReward : f[n] \in who \cap Members(Genesis)
    <3> SUFFICES ASSUME NEW n \in CanReward PROVE f[n] \in who \cap Members(Genesis) OBVIOUS
    <3>1. f[n] \in who /\ r[f[n]] = n BY <1>7
    <3>2. n \in Seat BY <1>4
    <3> QED BY <1>3, <1>5, <1>6, <3>1, <3>2
  <2> QED BY <1>8, <2>1
<1>10. g \in Bijection(CanReward, paid)
  BY <1>7 DEF Bijection, Injection, Surjection, IsInjective
<1>11. Cardinality(paid) = Cardinality(CanReward)
  BY <1>10, SeatsToPayFinite, FS_Bijection DEF ExistsBijection
<1> QED BY <1>9, <1>11 DEF f, who

LEMMA BaseRewardInt ==
  ASSUME AInv, NEW c \in Claimers, MayClaim(c)
  PROVE  BaseReward(c) \in Int
<1>1. acct[c] # None /\ Elapsed(c) > 0 BY DEF MayClaim
<1>2. Accumulated(c) \in Nat BY <1>1, AccumulatedIsOwed
<1>3. Elapsed(c) \in Nat BY <1>1 DEF AInv, Accounts, TypedLedger, Elapsed
<1>4. (IF reward.R = None THEN DefaultRate ELSE reward.R) \in Rate
  BY RewardConstants DEF AInv, TypedReward
<1>5. RewardRate[1] \in Int /\ RewardRate[2] \in Nat /\ RewardRate[2] > 0
  BY <1>4, RewardConstants DEF RewardRate
<1> DEFINE m == RewardRate[1] * Accumulated(c) * DropsPerXah
           y == RewardRate[2]
           z == Elapsed(c)
           d == y * z
<1>6. m \in Int BY <1>2, <1>5, RewardConstants
<1>7. y \in Nat /\ z \in Nat /\ y > 0 /\ z > 0 BY <1>1, <1>3, <1>5
<1>8. BaseReward(c) = m \div d BY DEF BaseReward
<1> HIDE DEF m, y, z
<1>9. d \in Nat /\ d > 0 BY <1>7
<1> HIDE DEF d
<1> QED BY <1>6, <1>8, <1>9

\* What is left of a mint once the claimer's entry is taken off.
LEMMA SeatsFollow ==
  ASSUME NEW c
  PROVE  Tail(Entries(c)) = SeatEntries(BaseReward(c) \div Shares)
<1> DEFINE s == SeatEntries(BaseReward(c) \div Shares)
           k == Cardinality(CanReward)
           R == {s[i] : i \in 1 .. k}
           x == [to |-> c, drops |-> BaseReward(c) + Fee]
<1>1. k \in Nat BY SeatsToPayFinite
<1>2. s = [i \in 1 .. k |-> s[i]] BY DEF SeatEntries
<1>3. Entries(c) = <<x>> \o s BY DEF Entries
<1> HIDE DEF s, k, x
<1>4. s \in Seq(R) BY <1>1, <1>2
<1>5. Tail(<<x>> \o s) = s BY <1>4
<1> QED BY <1>3, <1>5 DEF s

LEMMA ClaimPaysSeats ==
  ASSUME AInv, TypedReport, NEW c \in Claimers, ClaimReward(c), NEW e \in Mints
  PROVE  LET rest == Tail(e.entries)
             paid == {rest[i].to : i \in DOMAIN rest}
         IN  /\ paid = (IF unl = None THEN {} ELSE unl) \cap Members(Genesis)
             /\ Len(rest) = Cardinality(paid)
             /\ \A i \in DOMAIN rest :
                  rest[i].drops = (e.entries[1].drops - Fee) \div Shares
<1> DEFINE rest == Tail(e.entries)
           paid == {rest[i].to : i \in DOMAIN rest}
           k == Cardinality(CanReward)
           d == BaseReward(c) \div Shares
           seated == {forward[Genesis][n] : n \in CanReward}
<1>1. e = [kind |-> "Mint", no |-> ledger, claimer |-> c, entries |-> Entries(c)]
  BY DEF ClaimReward, Emits, Mints
<1>2. rest = SeatEntries(d) BY <1>1, SeatsFollow
<1>3. e.entries[1].drops = BaseReward(c) + Fee
  <2>1. e.entries[1] = [to |-> c, drops |-> BaseReward(c) + Fee] BY <1>1, ClaimerFirst
  <2> QED BY <2>1
<1>4. BaseReward(c) \in Int BY BaseRewardInt DEF ClaimReward
<1>5. (e.entries[1].drops - Fee) \div Shares = d
  <2>1. (BaseReward(c) + Fee) - Fee = BaseReward(c) BY <1>4, RewardConstants
  <2> QED BY <1>3, <2>1
<1>6. k \in Nat BY SeatsToPayFinite
<1>7. /\ DOMAIN rest = 1 .. k /\ Len(rest) = k
      /\ \A i \in 1 .. k : rest[i].to = forward[Genesis][SeatAt(i)] /\ rest[i].drops = d
  <2> HIDE DEF d
  <2>1. rest = [i \in 1 .. k |-> [to |-> forward[Genesis][SeatAt(i)], drops |-> d]]
    BY <1>2 DEF SeatEntries
  <2> HIDE DEF rest, k
  <2> QED BY <1>6, <2>1
<1>8. paid = seated
  <2> HIDE DEF rest, k, d
  <2>1. \A i \in DOMAIN rest : rest[i].to = forward[Genesis][SeatAt(i)] /\ SeatAt(i) \in CanReward
    BY <1>7, SeatAtCovers DEF k
  <2>2. \A n \in CanReward : \E i \in DOMAIN rest : rest[i].to = forward[Genesis][n]
    BY <1>7, SeatAtCovers DEF k
  <2> QED BY <2>1, <2>2
<1>9. seated = (IF unl = None THEN {} ELSE unl) \cap Members(Genesis) /\ Cardinality(seated) = k
  BY OccupantsPaid DEF AInv
<1> HIDE DEF rest, seated, k, d
<1> QED BY <1>5, <1>7, <1>8, <1>9 DEF rest

\* Whatever votes, claims, reports and lost emissions came before: a mint pays
\* the active validators that sit at the L1 table at that moment and nobody
\* else, each one share (can_reward and push_l1_seat_entries).
THEOREM ClaimsPaySeatedValidators == GenesisSpec => PaysSeatedValidators
<1> DEFINE Paid == \A e \in Mints :
             LET rest == Tail(e.entries)
                 paid == {rest[i].to : i \in DOMAIN rest}
             IN  /\ paid = (IF unl = None THEN {} ELSE unl) \cap Members(Genesis)
                 /\ Len(rest) = Cardinality(paid)
                 /\ \A i \in DOMAIN rest :
                      rest[i].drops = (e.entries[1].drops - Fee) \div Shares
<1>1. GenesisInit => AInv /\ TypedReport BY AccountsStart DEF GenesisInit, TypedReport
<1>2. TypedReport /\ [GenesisNext]_genesisVars => TypedReport'
  BY RewardConstants
  DEF TypedReport, GenesisNext, genesisVars, rewardVars, CloseLedger, OptIn, ClaimReward,
      ChangeBalance, ReportValidators
<1>3. AInv /\ TypedReport /\ [GenesisNext]_genesisVars => [Paid]_genesisVars
  <2> SUFFICES ASSUME AInv, TypedReport, GenesisNext PROVE Paid OBVIOUS
  <2>1. CASE GovernNext BY <2>1, NoOtherMint
  <2>2. ASSUME NEW c \in Claimers, ClaimReward(c) PROVE Paid
    BY <2>2, ClaimPaysSeats
  <2>3. CASE flight' = flight BY <2>3 DEF Mints
  <2> QED
    BY <2>1, <2>2, <2>3
    DEF GenesisNext, CloseLedger, OptIn, ChangeBalance, ReportValidators, governVars
<1> QED BY <1>1, <1>2, <1>3, GenesisKeepsAccounts, PTL DEF GenesisSpec, PaysSeatedValidators
=============================================================================
