------------------------------- MODULE Govern -------------------------------
(***************************************************************************)
(* The governance Hook (examples/81_govern: lib.rs, keys.rs, txn.rs) at    *)
(* two tables: the L1 table of the genesis account and one L2 table, whose *)
(* account may sit at the L1 table and whose L1 votes reach it as emitted  *)
(* Invokes.  One action per Invoke that a table accepts and that changes   *)
(* something; a rollback, and the acceptances that write nothing, leave    *)
(* every variable as it was.                                               *)
(***************************************************************************)
EXTENDS Integers, FiniteSets

CONSTANTS
  Person,          \* accounts other than the two tables
  Genesis,         \* GENESIS_ACCOUNT, the L1 table
  Table2,          \* the account of the L2 table
  SeatCount,       \* SEAT_COUNT, a u8 (20 in the code)
  HookMax,         \* HOOK_MAX (10 in the code): hook topics are 0 .. HookMax
  None,            \* no value, no entry
  Zero,            \* twenty zero bytes: the vote that empties a seat
  Hash,            \* hook hashes
  HashTail,        \* what is left of a hash without its first four bytes
  Installable,     \* the hashes with a definition on the ledger
  Rate,            \* values of the reward rate and the reward delay
  InitialMembers,  \* hook parameters IMC, IS0 .. of each table, as a sequence
  InitialReward,   \* hook parameters IRR and IRD, as [R |-> .., D |-> ..]
  Scripts,         \* bounds of a behaviour: the [ballots] it is about, how
                   \* many [votes] are recorded, how many [ledgers] it lasts
  MaxInFlight      \* bound: emitted transactions in flight

Table == {Genesis, Table2}
Account == Person \cup Table
Seat == 0 .. SeatCount-1

\* The ids of the two reward topics are the bytes 'R' and 'D'.
RateId == 82
DelayId == 68

\* A ballot as the transaction carries it: the topic's type and id (T), the
\* value (V), the table it is sent to and the layer (L, unread at the L1 table).
Ballot ==
  [table : Table, layer : {1, 2}, type : {"S"}, id : Nat, value : Account \cup {Zero}]
    \cup [table : Table, layer : {1, 2}, type : {"H"}, id : Nat, value : Hash \cup {Zero}]
    \cup [table : Table, layer : {1, 2}, type : {"R"}, id : Nat, value : Rate]

Distinct(s) == \A j, k \in DOMAIN s : s[j] = s[k] => j = k

ASSUME GovernConstants ==
  /\ SeatCount \in Nat /\ SeatCount < 256 /\ HookMax \in Nat
  /\ Genesis # Table2 /\ Genesis \notin Person /\ Table2 \notin Person
  /\ None \notin Account /\ None \notin Int /\ Zero \notin Account /\ Zero # None
  /\ IsFiniteSet(Person)
  /\ \A x \in Scripts : x.ballots \subseteq Ballot /\ {x.votes, x.ledgers} \subseteq Nat
  /\ DOMAIN HashTail = Hash \cup {Zero} /\ Installable \subseteq Hash
  /\ MaxInFlight \in Nat

\* Hook parameters that setup accepts: both reward settings, 1 .. SEAT_COUNT
\* members.  That these differ is not checked by the code; it is what an
\* installer has to see to.
ASSUME GovernParameters ==
  /\ InitialReward \in [R : Rate, D : Rate]
  /\ \A t \in Table :
       /\ DOMAIN InitialMembers[t] = 1 .. Cardinality(DOMAIN InitialMembers[t])
       /\ IsFiniteSet(DOMAIN InitialMembers[t]) /\ DOMAIN InitialMembers[t] # {}
       /\ Cardinality(DOMAIN InitialMembers[t]) <= SeatCount
       /\ \A k \in DOMAIN InitialMembers[t] : InitialMembers[t][k] \in Account
       /\ Distinct(InitialMembers[t])

VARIABLES
  script,   \* the bounds of this behaviour, never written
  mc,       \* state "MC" of each table, None before setup
  forward,  \* seat -> member
  reverse,  \* member -> seat
  votes,    \* the 'V' entries: [voter, layer, type, id, value]
  counts,   \* the 'C' entries: a function from the count keys that exist
  reward,   \* states "RR" and "RD" of the L1 table
  hooks,    \* installed hook hashes, changed by the HookSets emitted
  flight,   \* emitted transactions that no ledger has applied yet
  cast      \* votes recorded so far (bound)

tableVars == <<mc, forward, reverse, votes, counts>>
governVars == <<script, tableVars, reward, hooks, flight, cast>>

-----------------------------------------------------------------------------
(* Keys and thresholds *)

\* vote_key: one entry per voter, layer and topic.
SameVote(v, w) == v.voter = w.voter /\ v.layer = w.layer /\ v.type = w.type /\ v.id = w.id

\* vote_count_key: 'C', topic and layer over the first four of the 32 bytes,
\* right-aligned data: a hash loses its first four bytes, nothing else does.
CountKey(v) ==
  [layer |-> v.layer, type |-> v.type, id |-> v.id,
   value |-> IF v.type = "H" THEN HashTail[v.value] ELSE v.value]

MutQuorum80(k) == (k * 4) \div 5
Quorum80(k) == IF (k * 4) \div 5 < 2 THEN 2 ELSE (k * 4) \div 5
Quorum51(k) == IF (k * 51) \div 100 < 2 THEN 2 ELSE (k * 51) \div 100

\* An L2 table's layer-1 votes are forwarded at 51%; where they are decided,
\* a seat takes 80% and anything else every member.
Local(t, b) == t = Genesis \/ b.layer = 2
MutThreshold(t, b) ==
  IF ~Local(t, b) THEN Quorum51(mc[t]) ELSE Quorum80(mc[t])
Threshold(t, b) ==
  IF ~Local(t, b) THEN Quorum51(mc[t])
  ELSE IF b.type = "S" THEN Quorum80(mc[t]) ELSE mc[t]

-----------------------------------------------------------------------------
(* Recording a vote *)

\* Topics that my_hook lets through: H is checked with > against HOOK_MAX.
ValidTopic(t, b) ==
  /\ b.type = "S" => b.id \in 0 .. SeatCount-1
  /\ b.type = "H" => b.id \in 0 .. HookMax
  /\ b.type = "R" => b.id \in {RateId, DelayId} /\ (t = Genesis \/ b.layer = 1)

VoteOf(v, t, b) ==
  [voter |-> v, layer |-> IF t = Genesis THEN 1 ELSE b.layer,
   type |-> b.type, id |-> b.id, value |-> b.value]

Previous(t, w) == {x \in votes[t] : SameVote(x, w)}

\* One vote fewer under key k; the entry goes with its last vote.
Less(c, k) ==
  IF c[k] <= 1 THEN [x \in DOMAIN c \ {k} |-> c[x]] ELSE [c EXCEPT ![k] = @ - 1]

\* One more, in a byte.
More(c, k) ==
  [x \in DOMAIN c \cup {k} |->
     IF x # k THEN c[x] ELSE IF k \in DOMAIN c THEN (c[k] + 1) % 256 ELSE 1]

\* Both counts after vote w replaces the one standing for its topic.
Recount(t, w) ==
  LET old == {CountKey(x) : x \in Previous(t, w)} IN
  More(IF old = {} THEN counts[t] ELSE Less(counts[t], CHOOSE k \in old : TRUE), CountKey(w))

Recast(t, w) == (votes[t] \ Previous(t, w)) \cup {w}

\* An Invoke that gets as far as the vote: from a member, on a valid topic,
\* and not the vote that already stands.
Accepts(t, v, b) ==
  /\ mc[t] # None /\ reverse[t][v] # None /\ ValidTopic(t, b)
  /\ VoteOf(v, t, b) \notin votes[t]
  /\ \A x \in Previous(t, VoteOf(v, t, b)) :
       CountKey(x) \in DOMAIN counts[t] /\ counts[t][CountKey(x)] # 0

Tally(t, v, b) ==
  LET w == VoteOf(v, t, b) IN Recount(t, w)[CountKey(w)]

Actioned(t, v, b) == Accepts(t, v, b) /\ Tally(t, v, b) >= Threshold(t, b)

Record(t, v, b) ==
  LET w == VoteOf(v, t, b) IN
  /\ votes' = [votes EXCEPT ![t] = Recast(t, w)]
  /\ counts' = [counts EXCEPT ![t] = Recount(t, w)]

\* The bound of an instance.
Counted == cast < script.votes /\ cast' = cast + 1 /\ UNCHANGED script

\* What an accepted vote takes off and puts on the ledger's queue.
Emits(used, new) ==
  /\ flight' = (flight \ used) \cup new
  /\ new # {} => Cardinality(flight \ used) < MaxInFlight

-----------------------------------------------------------------------------
(* The Invokes *)

\* The first Invoke of a table reads its parameters and seats its members.
Setup(t) ==
  /\ mc[t] = None
  /\ LET who == InitialMembers[t]
         k   == Cardinality(DOMAIN who)
     IN  /\ mc' = [mc EXCEPT ![t] = k]
         /\ forward' = [forward EXCEPT ![t] = [n \in Seat |-> IF n < k THEN who[n+1] ELSE None]]
         /\ reverse' = [reverse EXCEPT ![t] =
              [a \in Account |-> IF \E n \in 1 .. k : who[n] = a
                                 THEN (CHOOSE n \in 1 .. k : who[n] = a) - 1 ELSE None]]
  /\ reward' = IF t = Genesis THEN InitialReward ELSE reward
  /\ UNCHANGED <<script, votes, counts, hooks, flight, cast>>

\* "Vote record. Not yet enough votes to action."
VoteOnly(t, v, b, used) ==
  /\ Accepts(t, v, b) /\ ~Actioned(t, v, b)
  /\ Record(t, v, b) /\ Emits(used, {}) /\ Counted
  /\ UNCHANGED <<mc, forward, reverse, reward, hooks>>

\* emit_l1_vote_forward: an Invoke to the L1 table with the topic and the
\* value.  When the host refuses it the hook rolls back, vote included.
ForwardVote(t, v, b) ==
  /\ ~Local(t, b) /\ Actioned(t, v, b)
  /\ Record(t, v, b) /\ Counted
  /\ Emits({}, {[kind |-> "Invoke", no |-> cast,
                 ballot |-> [b EXCEPT !.table = Genesis]]})
  /\ UNCHANGED <<mc, forward, reverse, reward, hooks>>

ActionReward(t, v, b, used) ==
  /\ Local(t, b) /\ Actioned(t, v, b) /\ b.type = "R"
  /\ Record(t, v, b) /\ Emits(used, {}) /\ Counted
  /\ reward' = IF b.id = RateId THEN [reward EXCEPT !.R = b.value] ELSE [reward EXCEPT !.D = b.value]
  /\ UNCHANGED <<mc, forward, reverse, hooks>>

\* action_hook: nothing to do when the slot has that hash already; a hash
\* without a definition rolls back; otherwise a HookSet is emitted, whose ten
\* entries leave every position but the voted one alone.
ActionHook(t, v, b, used) ==
  /\ Local(t, b) /\ Actioned(t, v, b) /\ b.type = "H"
  /\ LET same == b.id \in DOMAIN hooks[t] /\ hooks[t][b.id] = b.value IN
       /\ same \/ b.value = Zero \/ b.value \in Installable
       /\ Emits(used, IF same THEN {}
                      ELSE {[kind |-> "HookSet", no |-> cast, table |-> t, slot |-> b.id, hash |-> b.value]})
  /\ Record(t, v, b) /\ Counted
  /\ UNCHANGED <<mc, forward, reverse, reward, hooks>>

-----------------------------------------------------------------------------
(* action_seat *)

\* garbage_collect_votes, both layers: topics R R, R D, H 0 .. 9 and every
\* seat.  H HOOK_MAX, which my_hook accepts, is not among them.
GcTopic(x) ==
  /\ x.type = "H" => x.id < HookMax
  /\ x.type = "S" => x.id < SeatCount

MutCollected(vs, p) == {x \in vs : x.voter = p /\ x.layer = 1 /\ GcTopic(x)}
Collected(vs, p) == {x \in vs : x.voter = p /\ GcTopic(x)}

\* Each collected vote takes one off its count.
Uncount(c, gone) ==
  LET hit == {CountKey(x) : x \in gone} IN
  [k \in {k \in DOMAIN c : k \notin hit \/ c[k] > 1} |-> IF k \in hit THEN c[k] - 1 ELSE c[k]]

\* The seat a proposed member already has.  For twenty zero bytes the code
\* reads seat 0's own entry, whose twenty bytes are no integer: no seat.
SeatHeld(t, a) == IF a = Zero THEN None ELSE reverse[t][a]

\* MC after the change: one of the eight cases E|Z|M of the code.
NewCount(t, n, a) ==
  LET empty == forward[t][n] = None
      zero  == a = Zero
      moves == SeatHeld(t, a) # None
  IN  IF ~empty /\ (zero # moves) THEN mc[t] - 1
      ELSE IF empty /\ ~zero /\ ~moves THEN mc[t] + 1
      ELSE mc[t]

\* The two maps after the change: the mover's old entries go, then the
\* previous member's, then the new ones are written.
NewForward(t, n, a) ==
  [k \in Seat |-> IF k = n THEN (IF a = Zero THEN None ELSE a)
                  ELSE IF k = SeatHeld(t, a) THEN None ELSE forward[t][k]]

MutNewReverse(t, n, a) == [x \in Account |-> IF x = a THEN n ELSE reverse[t][x]]
NewReverse(t, n, a) ==
  [x \in Account |-> IF x = a THEN n
                     ELSE IF x = forward[t][n] THEN None ELSE reverse[t][x]]

ActionSeat(t, v, b, used) ==
  /\ Local(t, b) /\ Actioned(t, v, b) /\ b.type = "S"
  /\ forward[t][b.id] # b.value
  /\ NewCount(t, b.id, b.value) > 1
  /\ LET w    == VoteOf(v, t, b)
         gone == IF forward[t][b.id] = None THEN {} ELSE Collected(Recast(t, w), forward[t][b.id])
     IN  /\ votes' = [votes EXCEPT ![t] = Recast(t, w) \ gone]
         /\ counts' = [counts EXCEPT ![t] = Uncount(Recount(t, w), gone)]
  /\ mc' = [mc EXCEPT ![t] = NewCount(t, b.id, b.value)]
  /\ forward' = [forward EXCEPT ![t] = NewForward(t, b.id, b.value)]
  /\ reverse' = [reverse EXCEPT ![t] = NewReverse(t, b.id, b.value)]
  /\ Emits(used, {}) /\ Counted
  /\ UNCHANGED <<reward, hooks>>

\* "Actioning seat change, but seat already contains the new member."
AlreadySeated(t, v, b, used) ==
  /\ Local(t, b) /\ Actioned(t, v, b) /\ b.type = "S"
  /\ forward[t][b.id] = b.value
  /\ Record(t, v, b) /\ Emits(used, {}) /\ Counted
  /\ UNCHANGED <<mc, forward, reverse, reward, hooks>>

Decided(t, v, b, used) ==
  \/ VoteOnly(t, v, b, used) \/ ActionReward(t, v, b, used) \/ ActionHook(t, v, b, used)
  \/ ActionSeat(t, v, b, used) \/ AlreadySeated(t, v, b, used)

-----------------------------------------------------------------------------
(* The ledger *)

\* An emitted Invoke reaches the L1 table, as a vote of the L2 table.
Deliver(e) == e.kind = "Invoke" /\ Decided(Genesis, Table2, e.ballot, {e})

\* An emitted HookSet takes effect; position 10 does not exist in it.
InstallHook(e) ==
  /\ e.kind = "HookSet"
  /\ hooks' = IF e.slot \in DOMAIN hooks[e.table]
              THEN [hooks EXCEPT ![e.table][e.slot] = IF e.hash = Zero THEN None ELSE e.hash]
              ELSE hooks
  /\ flight' = flight \ {e}
  /\ UNCHANGED <<script, tableVars, reward, cast>>

\* Not applied within its five ledgers, or rolled back on arrival.
Lose(e) ==
  /\ flight' = flight \ {e}
  /\ UNCHANGED <<script, tableVars, reward, hooks, cast>>

GovernInit ==
  /\ script \in Scripts
  /\ mc = [t \in Table |-> None]
  /\ forward = [t \in Table |-> [n \in Seat |-> None]]
  /\ reverse = [t \in Table |-> [a \in Account |-> None]]
  /\ votes = [t \in Table |-> {}] /\ counts = [t \in Table |-> [k \in {} |-> 0]]
  /\ reward = [R |-> None, D |-> None]
  /\ hooks = [t \in Table |-> [n \in 0 .. HookMax-1 |-> None]]
  /\ flight = {} /\ cast = 0

GovernNext ==
  \/ \E t \in Table : Setup(t)
  \/ \E v \in Account, b \in script.ballots : ForwardVote(b.table, v, b) \/ Decided(b.table, v, b, {})
  \/ \E e \in flight : Deliver(e) \/ InstallHook(e) \/ Lose(e)

GovernSpec == GovernInit /\ [][GovernNext]_governVars

-----------------------------------------------------------------------------
(* Properties *)

Members(t) == {a \in Account : reverse[t][a] # None}

\* The two maps and the counter that every check relies on never drift apart,
\* through any sequence of replacements, moves, additions and removals: a
\* member sits in exactly the seat that names them, and MC is the number of
\* taken seats (it sets every threshold).
TableSound ==
  \A t \in Table :
    /\ \A n \in Seat, a \in Account : forward[t][n] = a <=> reverse[t][a] = n
    /\ mc[t] # None => mc[t] = Cardinality({n \in Seat : forward[t][n] # None})

\* But for the topic the collection leaves out, only members' votes stand: a
\* member's leaving takes them back (garbage_collect_votes).
OnlyMembersVotes ==
  \A t \in Table : \A x \in votes[t] : GcTopic(x) => x.voter \in Members(t)

\* A count is the number of votes that stand for its value.
CountsAreVotes ==
  \A t \in Table :
    /\ \A x \in votes[t] : CountKey(x) \in DOMAIN counts[t]
    /\ \A k \in DOMAIN counts[t] :
         counts[t][k] = Cardinality({x \in votes[t] : CountKey(x) = k})

\* Changing a vote, and a member's leaving, take back what was counted: what
\* the tables decide by is members' votes, one for each, however seats, votes
\* and values follow each other (lib.rs, my_hook and action_seat).
CountsAreMembersVotes == OnlyMembersVotes /\ CountsAreVotes

\* Members whose standing vote is for this value of this topic.
Supporters(t, w) ==
  {a \in Members(t) : \E x \in votes[t] : x.voter = a /\ CountKey(x) = CountKey(w)}

Behind(t, layer, type, id, value) ==
  Supporters(t, [layer |-> layer, type |-> type, id |-> id, value |-> value])

\* Nothing leaves a table, and no reward setting changes, on the strength of
\* votes of people who have left it: a forward has the majority of the members
\* of the moment behind it, an installed hook and a reward setting all of them.
MajorityBehind(e) ==
  CASE e.kind = "Invoke" /\ GcTopic(e.ballot) ->
         LET b == e.ballot IN
         Cardinality(Behind(Table2, 1, b.type, b.id, b.value)) >= Quorum51(Cardinality(Members(Table2)))
    [] e.kind = "HookSet" /\ e.slot < HookMax ->
         \E layer \in {1, 2} : Behind(e.table, layer, "H", e.slot, e.hash) = Members(e.table)
    [] OTHER -> TRUE

ChangesByVote ==
  /\ \A e \in flight' \ flight : MajorityBehind(e)'
  /\ mc[Genesis] # None => \A f \in {"R", "D"} :
       reward'[f] # reward[f] =>
         (Behind(Genesis, 1, "R", IF f = "R" THEN RateId ELSE DelayId, reward[f]) = Members(Genesis))'

ActionedByQuorum == [][ChangesByVote]_governVars

\* Seats change at both tables as RoundTable says, the collection of votes
\* and the count entries hidden.
SeatBallots(t, layer) ==
  {[voter |-> x.voter, seat |-> x.id, value |-> IF x.value = Zero THEN None ELSE x.value] :
     x \in {y \in votes[t] : y.type = "S" /\ y.layer = layer}}

L1 == INSTANCE RoundTable WITH
        open <- mc[Genesis] # None, seats <- forward[Genesis], ballots <- SeatBallots(Genesis, 1)
L2 == INSTANCE RoundTable WITH
        open <- mc[Table2] # None, seats <- forward[Table2], ballots <- SeatBallots(Table2, 2)

TablesAreRoundTables == L1!TableSpec /\ L2!TableSpec
=============================================================================
