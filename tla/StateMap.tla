------------------------------ MODULE StateMap ------------------------------
(***************************************************************************)
(* What the typed state layer of rshooks promises: per account one map     *)
(* from keys to values, an absent key being an ordinary answer, an update  *)
(* one indivisible step on the current value, and a call that fails        *)
(* leaving the map alone.                                                  *)
(***************************************************************************)
CONSTANTS
  Spaces,    \* whose state: this hook's own, another account's
  Keys,      \* the named cases of the key enum
  Values,    \* the one value type they are paired with
  Absent,    \* no entry
  Closures   \* the functions given to update

VARIABLES
  map,
  call,      \* the last call: its operation and the entry it is about
  answer     \* what it returned

Calls == [op : {"get", "set", "update", "delete"}, space : Spaces, key : Keys]

Found(v)  == [is |-> "found", value |-> v]
NotThere  == [is |-> "not there", value |-> Absent]
Done      == [is |-> "done", value |-> Absent]
Failed    == [is |-> "failed", value |-> Absent]

Init ==
  /\ map = [s \in Spaces |-> [k \in Keys |-> Absent]]
  /\ call \notin Calls
  /\ answer = NotThere

Current == map[call'.space][call'.key]

Put(v) ==
  /\ map' = [map EXCEPT ![call'.space][call'.key] = v]
  /\ answer' = Done

Fail == answer' = Failed /\ UNCHANGED map

Get ==
  /\ call'.op = "get"
  /\ answer' = IF Current = Absent THEN NotThere ELSE Found(Current)
  /\ UNCHANGED map

Set    == call'.op = "set" /\ \E v \in Values : Put(v)
Update == call'.op = "update" /\ \E f \in Closures : Put(f[Current])
Delete == call'.op = "delete" /\ Put(Absent)

Next == call' \in Calls /\ (Get \/ Set \/ Update \/ Delete \/ Fail)

Spec == Init /\ [][Next]_<<map, call, answer>>
=============================================================================
