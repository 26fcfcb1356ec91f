-------------------------------- MODULE Slots --------------------------------
(***************************************************************************)
(* Typed slot handles (crates/rshooks/src/slot_obj.rs) over the numbered   *)
(* slots of the host: loading, navigating, reading, retyping, clearing and *)
(* slot_path!.  A handle is affine: an operation that takes self removes   *)
(* it from live, and nothing ever copies one.  The slot of a handle that   *)
(* is read or dropped stays taken until the hook ends.                     *)
(*                                                                         *)
(* Every handle carries the ledger item it was made for and whether its    *)
(* type was derived or checked (and not assumed); the code has neither.    *)
(***************************************************************************)
EXTENDS Naturals, Sequences, FiniteSets

CONSTANTS
  SlotNos,      \* the host's registers, 255 of them
  Items,        \* what the ledger holds: objects, arrays, values
  Roots,        \* the items that can be loaded by keylet, hash or as otxn
  Kind,         \* serialized type of each item
  Size,         \* its serialized length
  TopBit,       \* the items whose eight bytes have bit 63 set
  Keys,         \* field constants and array indices
  Out,          \* type a key leads to: T of SField<T>, STObject for an index
  Indices,      \* the keys that are array indices
  Child,        \* what lies under a key of an item
  Paths,        \* the key sequences given to slot_path!
  None

Types == {"STObject", "STArray", "Amount", "Issue", "Hash", "u32", "u64", "Opaque"}

Handle == [no : SlotNos, item : Items, type : Types, sure : BOOLEAN]

\* A slot_path! between two hops: its handle, the keys to go, and (for the
\* properties) the slots as they were when it began.
Walk == [cur : Handle, rest : Seq(Keys) \ {<< >>}, held : [SlotNos -> Items \cup {None}]]

ASSUME SlotParameters ==
  /\ IsFiniteSet(SlotNos) /\ None \notin Items /\ None \notin Walk
  /\ Roots \subseteq Items /\ TopBit \subseteq Items
  /\ Kind \in [Items -> Types \cup {"root"}] /\ Size \in [Items -> Nat]
  /\ Indices \subseteq Keys /\ Out \in [Keys -> Types]
  /\ Child \in [Items -> [Keys -> Items \cup {None}]]
  /\ \A p \in Paths : p \in Seq(Keys) /\ p # << >>

\* The ledger is well formed: a field has the type of its code, an array
\* element is an object, and amounts and integers have their widths.
ASSUME LedgerParameters ==
  /\ \A r \in Roots : Kind[r] = "root"
  /\ \A i \in Items, k \in Keys :
       Child[i][k] # None => Out[k] = "Opaque" \/ Kind[Child[i][k]] = Out[k]
  /\ \A k \in Indices : Out[k] = "STObject"
  /\ \A i \in Items :
       /\ Kind[i] = "Amount" => Size[i] \in {8, 48}
       /\ Kind[i] = "Issue"  => Size[i] \in {20, 40}
       /\ Kind[i] = "Hash"   => Size[i] = 32
       /\ Kind[i] = "u64"    => Size[i] = 8
       /\ Kind[i] = "u32"    => Size[i] = 4
  /\ \A i \in TopBit : Size[i] = 8

VARIABLES
  slots,   \* host: the item in each slot, or None
  live,    \* the handles the hook still owns
  leaked,  \* slots whose handle is gone, uncleared
  path,    \* a slot_path! between two hops, or None
  result   \* how the last operation ended

vars == <<slots, live, leaked, path, result>>

Outcomes ==
  {"ok", "NoFreeSlots", "DoesntExist", "NotAnObject", "NotAnArray", "NotAnAmount", "TooSmall",
   "TooBig", "ParseError"}

-----------------------------------------------------------------------------
(* The host *)

Used == {n \in SlotNos : slots[n] # None}
Free == SlotNos \ Used

Cleared(s, n) == [s EXCEPT ![n] = None]

\* How slot_subfield or slot_subarray ends.
Derive(n, k) ==
  IF slots[n] = None \/ Child[slots[n]][k] = None THEN "DoesntExist"
  ELSE IF Free = {} THEN "NoFreeSlots"
  ELSE "ok"

\* slot_count, and slot_float and slot_type with its native flag.
Elements(item) == IF Kind[item] = "STArray" THEN "ok" ELSE "NotAnArray"
Amounting(item) == IF Kind[item] = "Amount" THEN "ok" ELSE "NotAnAmount"

-----------------------------------------------------------------------------
(* Types *)

\* SlotKey: a field of an object, an index of an array, either of an Opaque.
Fits(type, k) == type = "Opaque" \/ type = (IF k \in Indices THEN "STArray" ELSE "STObject")

\* The chain type-checks.
WellTyped(type, p) ==
  Fits(type, p[1]) /\ \A j \in 2 .. Len(p) : Fits(Out[p[j-1]], p[j])

\* CastTarget: the type's own ID; STObject takes the root codes as well.
Accepts(type, item) ==
  Kind[item] = type \/ (type = "STObject" /\ Kind[item] = "root")

\* Reads of exactly N bytes.
Exactly(item, n) == IF Size[item] = n THEN "ok" ELSE "TooSmall"

\* Reads that classify by length, through a buffer of the given size.
Classified(item, buffer, lengths) ==
  IF Size[item] > buffer THEN "TooSmall"
  ELSE IF Size[item] \in lengths THEN "ok"
  ELSE "ParseError"

\* (mutant) u64 goes through the host's as-int64 mode like the narrow ones.
MutValue(type, item) ==
  CASE type = "Amount" -> Classified(item, 48, {8, 48})
    [] type = "Issue"  -> Classified(item, 44, {20, 40})
    [] type = "Hash"   -> Exactly(item, 32)
    [] type = "u64"    -> IF item \in TopBit THEN "TooBig" ELSE Exactly(item, 8)
    [] type = "u32"    -> IF item \in TopBit \/ Size[item] > 4 THEN "TooBig" ELSE "ok"
    [] OTHER           -> "ok"

\* value and the raw reads.  The narrow integers use the as-int64 mode.
Value(type, item) ==
  CASE type = "Amount" -> Classified(item, 48, {8, 48})
    [] type = "Issue"  -> Classified(item, 44, {20, 40})
    [] type = "Hash"   -> Exactly(item, 32)
    [] type = "u64"    -> Exactly(item, 8)
    [] type = "u32"    -> IF item \in TopBit \/ Size[item] > 4 THEN "TooBig" ELSE "ok"
    [] OTHER           -> "ok"

-----------------------------------------------------------------------------
Init ==
  /\ slots = [n \in SlotNos |-> None]
  /\ live = {} /\ leaked = 0 /\ path = None /\ result = "ok"

\* from_keylet, from_txn_hash, from_otxn and from_meta.
Load(i) ==
  /\ path = None
  /\ \/ \E n \in Free :
          /\ slots' = [slots EXCEPT ![n] = i]
          /\ live' = live \cup {[no |-> n, item |-> i, type |-> "STObject", sure |-> TRUE]}
          /\ result' = "ok"
     \/ /\ result' \in {"DoesntExist"} \cup (IF Free = {} THEN {"NoFreeSlots"} ELSE {})
        /\ UNCHANGED <<slots, live>>
  /\ UNCHANGED <<leaked, path>>

\* The handle of what lies under k of slot n, in slot m.
Derived(n, k, m) == [no |-> m, item |-> Child[slots[n]][k], type |-> Out[k], sure |-> TRUE]

\* get borrows the parent.
Get(h, k) ==
  /\ path = None /\ Fits(h.type, k)
  /\ result' = Derive(h.no, k)
  /\ IF result' = "ok"
     THEN \E m \in Free :
            /\ slots' = [slots EXCEPT ![m] = Child[slots[h.no]][k]]
            /\ live' = live \cup {Derived(h.no, k, m)}
     ELSE UNCHANGED <<slots, live>>
  /\ UNCHANGED <<leaked, path>>

Clear(h) ==
  /\ path = None
  /\ live' = live \ {h}
  /\ slots' = Cleared(slots, h.no)
  /\ result' = (IF slots[h.no] = None THEN "DoesntExist" ELSE "ok")
  /\ UNCHANGED <<leaked, path>>

\* value, raw, raw_exact: the handle is spent, the slot is not.
Read(h) ==
  /\ path = None
  /\ live' = live \ {h}
  /\ result' = Value(h.type, slots[h.no])
  /\ leaked' = leaked + 1
  /\ UNCHANGED <<slots, path>>

\* count and is_native borrow the handle, also of an Opaque.
Count(h) ==
  /\ path = None /\ h.type \in {"STArray", "Opaque"}
  /\ result' = Elements(slots[h.no])
  /\ UNCHANGED <<slots, live, leaked, path>>

IsNative(h) ==
  /\ path = None /\ h.type \in {"Amount", "Opaque"}
  /\ result' = Amounting(slots[h.no])
  /\ UNCHANGED <<slots, live, leaked, path>>

\* as_xfl lets the host convert, and looks neither at length nor at kind.
AsXfl(h) ==
  /\ path = None /\ h.type = "Amount"
  /\ live' = live \ {h}
  /\ result' = Amounting(slots[h.no])
  /\ leaked' = leaked + 1
  /\ UNCHANGED <<slots, path>>

\* A handle that goes out of scope: there is no Drop.
Forget(h) ==
  /\ path = None
  /\ live' = live \ {h}
  /\ leaked' = leaked + 1
  /\ UNCHANGED <<slots, path, result>>

\* (mutant) Only a successful read clears.
MutTake(h) ==
  /\ path = None
  /\ live' = live \ {h}
  /\ result' = Value(h.type, slots[h.no])
  /\ slots' = (IF result' = "ok" THEN Cleared(slots, h.no) ELSE slots)
  /\ UNCHANGED <<leaked, path>>

\* take_value and take_raw_exact clear whatever the read says.
Take(h) ==
  /\ path = None
  /\ live' = live \ {h}
  /\ result' = Value(h.type, slots[h.no])
  /\ slots' = Cleared(slots, h.no)
  /\ UNCHANGED <<leaked, path>>

TakeXfl(h) ==
  /\ path = None /\ h.type = "Amount"
  /\ live' = live \ {h}
  /\ result' = Amounting(slots[h.no])
  /\ slots' = Cleared(slots, h.no)
  /\ UNCHANGED <<leaked, path>>

\* try_cast checks, and clears the slot when the check fails.
TryCast(h, type) ==
  /\ path = None
  /\ IF Accepts(type, slots[h.no])
     THEN /\ live' = (live \ {h}) \cup {[h EXCEPT !.type = type, !.sure = TRUE]}
          /\ result' = "ok"
          /\ UNCHANGED slots
     ELSE /\ live' = live \ {h}
          /\ result' = "NotAnObject"
          /\ slots' = Cleared(slots, h.no)
  /\ UNCHANGED <<leaked, path>>

\* (mutant) A handle that is borrowed, not consumed.
MutAssumeType(h, type) ==
  /\ path = None
  /\ live' = live \cup {[h EXCEPT !.type = type, !.sure = FALSE]}
  /\ UNCHANGED <<slots, leaked, path, result>>

AssumeType(h, type) ==
  /\ path = None
  /\ live' = (live \ {h}) \cup {[h EXCEPT !.type = type, !.sure = FALSE]}
  /\ UNCHANGED <<slots, leaked, path, result>>

-----------------------------------------------------------------------------
(* slot_path! *)

\* The first hop borrows the root.
PathStart(h, p) ==
  /\ path = None /\ WellTyped(h.type, p)
  /\ result' = Derive(h.no, p[1])
  /\ IF result' = "ok"
     THEN \E m \in Free :
            /\ slots' = [slots EXCEPT ![m] = Child[slots[h.no]][p[1]]]
            /\ IF Len(p) = 1
               THEN live' = live \cup {Derived(h.no, p[1], m)} /\ UNCHANGED path
               ELSE /\ path' = [cur |-> Derived(h.no, p[1], m), rest |-> Tail(p), held |-> slots]
                    /\ UNCHANGED live
     ELSE UNCHANGED <<slots, live, path>>
  /\ UNCHANGED leaked

\* (mutant) A hop that fails returns before the parent is cleared.
MutPathHop ==
  /\ path # None
  /\ LET k == path.rest[1]
         n == path.cur.no
     IN  /\ result' = Derive(n, k)
         /\ IF result' = "ok"
            THEN \E m \in Free :
                   /\ slots' = Cleared([slots EXCEPT ![m] = Child[slots[n]][k]], n)
                   /\ IF Len(path.rest) = 1
                      THEN live' = live \cup {Derived(n, k, m)} /\ path' = None
                      ELSE /\ path' = [path EXCEPT !.cur = Derived(n, k, m), !.rest = Tail(@)]
                           /\ UNCHANGED live
            ELSE path' = None /\ UNCHANGED <<slots, live>>
  /\ UNCHANGED leaked

\* Every other hop clears the handle it came from, whatever get says.
PathHop ==
  /\ path # None
  /\ LET k == path.rest[1]
         n == path.cur.no
     IN  /\ result' = Derive(n, k)
         /\ IF result' = "ok"
            THEN \E m \in Free :
                   /\ slots' = Cleared([slots EXCEPT ![m] = Child[slots[n]][k]], n)
                   /\ IF Len(path.rest) = 1
                      THEN live' = live \cup {Derived(n, k, m)} /\ path' = None
                      ELSE /\ path' = [path EXCEPT !.cur = Derived(n, k, m), !.rest = Tail(@)]
                           /\ UNCHANGED live
            ELSE path' = None /\ slots' = Cleared(slots, n) /\ UNCHANGED live
  /\ UNCHANGED leaked

Next ==
  \/ \E i \in Roots : Load(i)
  \/ \E h \in live : \E k \in Keys : Get(h, k)
  \/ \E h \in live : Clear(h) \/ Read(h) \/ Forget(h) \/ Take(h)
  \/ \E h \in live : Count(h) \/ IsNative(h) \/ AsXfl(h) \/ TakeXfl(h)
  \/ \E h \in live : \E type \in Types \ {"Opaque"} : TryCast(h, type)
  \/ \E h \in live : \E type \in Types : AssumeType(h, type)
  \/ \E h \in live : \E p \in Paths : PathStart(h, p)
  \/ PathHop

Spec == Init /\ [][Next]_vars

-----------------------------------------------------------------------------
(* Properties *)

\* The handles that exist, the one in the middle of a slot_path! included.
Held == live \cup (IF path = None THEN {} ELSE {path.cur})

TypeOK ==
  /\ slots \in [SlotNos -> Items \cup {None}]
  /\ live \subseteq Handle
  /\ leaked \in 0 .. Cardinality(SlotNos)
  /\ path \in Walk \cup {None}
  /\ result \in Outcomes

(* A handle never goes stale and never aliases: as long as it is owned, its *)
(* slot holds the very item it was made for, and no other handle has that   *)
(* slot, however slots are cleared and assigned again in between.           *)
HandlesFaithful ==
  /\ \A h \in Held : slots[h.no] = h.item
  /\ \A g, h \in Held : g.no = h.no => g = h

(* No operation loses a slot by itself: what is taken is what the hook has  *)
(* a handle for, and one slot for each handle it read or dropped.  (A loop  *)
(* of get and take_* therefore never runs out of slots.)                    *)
Accounted == Cardinality(Used) = Cardinality(Held) + leaked

(* A value of a type that was derived from a key or checked by try_cast can *)
(* be read: no item of the ledger is refused by the decoder of its type, an *)
(* amount has an XFL, and the elements of an array are counted.             *)
CheckedDecodes ==
  \A h \in Held : h.sure =>
    /\ Value(h.type, h.item) = "ok"
    /\ h.type = "Amount" => Amounting(h.item) = "ok"
    /\ h.type = "STArray" => Elements(h.item) = "ok"

(* slot_path! costs one slot when it succeeds and none when it fails, in    *)
(* whichever hop, and leaves every other slot as it found it.               *)
PathCost ==
  [][path # None /\ path' = None =>
       Cardinality({n \in SlotNos : slots'[n] # path.held[n]})
         = (IF result' = "ok" THEN 1 ELSE 0)]_vars
=============================================================================
