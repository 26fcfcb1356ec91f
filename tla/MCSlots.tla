------------------------------- MODULE MCSlots -------------------------------
(* An account with a native and an issued amount and a large 64-bit field, *)
(* and a signer list: an array whose element has a field.                  *)
EXTENDS Slots, TLC

MCItems == {"account", "list", "entries", "entry", "xah", "iou", "rate"}
MCRoots == {"account", "list"}
MCKind ==
  [account |-> "root", list |-> "root", entries |-> "STArray", entry |-> "STObject",
   xah |-> "Amount", iou |-> "Amount", rate |-> "u64"]
MCSize ==
  [account |-> 200, list |-> 90, entries |-> 80, entry |-> 60, xah |-> 8, iou |-> 48, rate |-> 8]

MCKeys == {"sfBalance", "sfLimit", "sfRate", "sfEntries", "first"}
MCOut ==
  [sfBalance |-> "Amount", sfLimit |-> "Amount", sfRate |-> "Opaque",
   sfEntries |-> "STArray", first |-> "STObject"]

Under(i, k) ==
  CASE i = "account" /\ k = "sfBalance" -> "xah"
    [] i = "account" /\ k = "sfLimit"   -> "iou"
    [] i = "entry" /\ k = "sfRate"      -> "rate"
    [] i = "list" /\ k = "sfEntries"    -> "entries"
    [] i = "entries" /\ k = "first"         -> "entry"
    [] OTHER                            -> None
MCChild == [i \in MCItems |-> [k \in MCKeys |-> Under(i, k)]]

MCPaths == {<<"sfEntries", "first", "sfRate">>, <<"sfEntries", "first", "sfBalance">>, <<"sfBalance">>}

MCSymmetry == Permutations(SlotNos)
=============================================================================
