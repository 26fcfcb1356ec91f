---------------------------- MODULE MCTxnTemplate ----------------------------
(* Declarations that are right, with and without optional fields, and ones     *)
(* with one slip: a required field missing or of the wrong kind, two fields   *)
(* swapped, a default out of range.                                           *)
EXTENDS TxnTemplate

F(type, field, kind, default) == [code |-> <<type, field>>, kind |-> kind, default |-> default]

Full ==
  << F(2, 2, "u32_field", 259), F(2, 4, "u32_field", 0), F(2, 26, "u32_field", 0), F(2, 27, "u32_field", 0),
     F(6, 1, "native_amount", 1), F(6, 8, "native_amount", 0), F(7, 3, "empty_vl", 0),
     F(8, 1, "account_id", 0), F(8, 3, "account_id", 0) >>

Kinds == {"u32_field", "native_amount", "account_id", "empty_vl"}

Short     == SelectSeq(Full, LAMBDA f : \E r \in Required : f.code = r.code)
Missing   == {SelectSeq(Short, LAMBDA g : g # f) : f \in ToSet(Short)}
WrongKind == {[Short EXCEPT ![i].kind = k] : i \in DOMAIN Short, k \in Kinds}
Swapped   == {[Short EXCEPT ![i] = Short[i + 1], ![i + 1] = Short[i]] : i \in 1 .. Len(Short) - 1}
TooMuch   == {[Full EXCEPT ![5].default = MaxDrops]}

MCDecls == {Full, Short} \cup TooMuch \cup Missing \cup WrongKind \cup Swapped

MCAccounts    == {<<5, 6>>}
MCHookAccount == <<1, 225>>
=============================================================================
