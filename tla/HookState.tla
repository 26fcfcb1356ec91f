------------------------------ MODULE HookState ------------------------------
(***************************************************************************)
(* Hook state as rshooks reads and writes it: the keys of a state_keys!    *)
(* enum, the typed layer (crates/rshooks/src/state.rs), the fixed-width    *)
(* helpers and the raw calls (crates/rshooks/src/api/state.rs), over the   *)
(* host's store, which pads every key on the left to one width.            *)
(*                                                                         *)
(* An integer is the sequence of its bytes, least significant first, so    *)
(* to_le_bytes is the identity and to_be_bytes reverses.  An entry of no   *)
(* bytes is an absent one: writing zero bytes is how the host deletes.     *)
(* A host call may always fail, and one that needs an entry more than the  *)
(* accounts can pay for does.                                              *)
(***************************************************************************)
EXTENDS Naturals, Sequences, FiniteSets

CONSTANTS
  Base,       \* values of a byte
  KeyLen,     \* STATE_KEY_LEN, the width of the host's keys
  MaxTyped,   \* MAX_TYPED_STATE_LEN
  Narrow,     \* bytes of a u32
  Wide,       \* bytes of a u64, an i64 or an XFL
  Payloads,   \* bytes of each variant's payload in declaration order, 0 for a unit
  Paired,     \* bytes of the value type hook_state! pairs the enum with
  RawData,    \* what the raw calls write
  Closures,   \* per width, the functions given to an update
  Own,        \* this hook's account and namespace
  Spaces,     \* Own and the foreign ones
  Reserve     \* entries the accounts can pay for

Byte    == 0 .. Base - 1
Word(n) == [1 .. n -> Byte]
Widths  == {Narrow, Wide, Paired}

\* The compile-time checks of the crate: a discriminant is a byte, a payload
\* leaves room for it, a typed value fits its buffer.
ASSUME StateParameters ==
  /\ Base \in Nat /\ Base > 1 /\ KeyLen \in Nat
  /\ {Narrow, Wide, Paired} \subseteq 1 .. MaxTyped /\ MaxTyped \in Nat
  /\ Payloads \in Seq(Nat) /\ Len(Payloads) <= Base
  /\ \A i \in 1 .. Len(Payloads) : Payloads[i] < KeyLen
  /\ DOMAIN Closures = Widths
  /\ \A n \in Widths : Closures[n] \subseteq [Word(n) \cup {<< >>} -> Word(n)]
  /\ Own \in Spaces /\ Reserve \in Nat /\ RawData \subseteq Seq(Byte)

VARIABLES
  store,   \* host: the entry of every slot of every space
  ret,     \* what the last call returned
  wrote,   \* per key, the little-endian word last written through it, if any
  call,    \* of a typed hook, the last call: its operation, space and key
  typed    \* the hook keeps to hook_state!, one value type for every key

vars == <<store, ret, wrote, call, typed>>

-----------------------------------------------------------------------------
(* Keys *)

Keys == UNION {{[variant |-> i - 1, payload |-> p] : p \in Word(Payloads[i])} :
                 i \in 1 .. Len(Payloads)}

MutEncode(k) == <<0>> \o k.payload  \* mutant: next is not incremented
Encode(k) == <<k.variant>> \o k.payload

\* The host's left padding.
PadLeft(key) ==
  [i \in 1 .. KeyLen |-> IF i > KeyLen - Len(key) THEN key[i - (KeyLen - Len(key))] ELSE 0]

\* The padding of a short key cannot be told from a discriminant of zero:
\* the keys of an enum are separate when its first variant, which has that
\* discriminant, is no longer than the others.
Separate == \A i \in 1 .. Len(Payloads) : Payloads[1] <= Payloads[i]

Slot == [k \in Keys |-> PadLeft(Encode(k))]
Entry(s, k) == store[s][Slot[k]]

-----------------------------------------------------------------------------
(* The host's answers *)

Ok(bytes) == [tag |-> "ok", val |-> bytes]
Err(code) == [tag |-> code, val |-> << >>]
None      == Err("none")

Reverse(w) == [i \in 1 .. Len(w) |-> w[Len(w) + 1 - i]]
Extend(w, n) == [i \in 1 .. n |-> IF i <= Len(w) THEN w[i] ELSE 0]

\* state and state_foreign into a buffer of cap bytes.
HostState(e, cap, fault) ==
  IF fault THEN Err("InternalError")
  ELSE IF e = << >> THEN Err("DoesntExist")
  ELSE IF Len(e) > cap THEN Err("TooSmall")
  ELSE Ok(e)

\* The same with no buffer: the entry as one big-endian integer, whose top
\* bit must be clear because a negative answer is an error.
HostInt64(e, fault) ==
  LET w == Extend(Reverse(e), Wide)
      big == Len(e) > Wide \/ 2 * w[Wide] >= Base
  IN  IF fault THEN Err("InternalError")
      ELSE IF e = << >> THEN Err("DoesntExist")
      ELSE IF big THEN Err("TooBig") ELSE Ok(w)

-----------------------------------------------------------------------------
(* Reading *)

\* mutant: every error reads as absent
MutDecodeRead(code, n) ==
  IF code.tag # "ok" \/ Len(code.val) < n THEN None ELSE Ok(SubSeq(code.val, 1, n))
DecodeRead(code, n) ==
  IF code.tag = "DoesntExist" THEN None
  ELSE IF code.tag # "ok" THEN code
  ELSE IF Len(code.val) < n THEN Err("TooSmall")
  ELSE Ok(SubSeq(code.val, 1, n))

ReadExact(code, n) == IF code.tag = "ok" /\ Len(code.val) # n THEN Err("TooSmall") ELSE code

\* mutant: unwrap_or instead of ?
MutValueOrAbsent(code) == IF code.tag = "ok" THEN code ELSE None
ValueOrAbsent(code) == IF code.tag = "DoesntExist" THEN None ELSE code

StateGet(e, n, fault)   == DecodeRead(HostState(e, MaxTyped, fault), n)
StateExact(e, n, fault) == ReadExact(HostState(e, n, fault), n)
StateU64(e, fault)      == HostInt64(e, fault)
StateForeignU64le(e, fault) ==
  LET code == HostState(e, Wide, fault)
  IN  IF code.tag = "ok" THEN Ok(Extend(code.val, Wide)) ELSE code

Read(answer) == ret' = answer /\ UNCHANGED <<store, wrote>>

-----------------------------------------------------------------------------
(* Writing *)

Present == {x \in Spaces \X Word(KeyLen) : store[x[1]][x[2]] # << >>}

HostSet(s, k, data, word, answer) ==
  \E fault \in BOOLEAN :
    LET full == data # << >> /\ Entry(s, k) = << >> /\ Cardinality(Present) >= Reserve
    IN  IF fault \/ full
        THEN Read(Err(IF fault THEN "InternalError" ELSE "ReserveInsufficient"))
        ELSE /\ store' = [store EXCEPT ![s][Slot[k]] = data]
             /\ wrote' = [wrote EXCEPT ![s][k] = word]
             /\ ret' = answer

MutTyped(v) == Extend(v, MaxTyped)  \* mutant: the whole buffer is sent
Typed(v) == SubSeq(Extend(v, MaxTyped), 1, Len(v))

\* Read-modify-write: an error of the read ends it before f is called.
Update(s, k, current, f, family) ==
  IF current.tag \notin {"ok", "none"} THEN Read(current)
  ELSE LET next == f[current.val]
       IN  \/ family = "loose" /\ HostSet(s, k, Typed(next), next, Ok(<< >>))
           \/ family = "exact" /\ HostSet(s, k, next, next, Ok(next))
           \/ family = "u64"   /\ HostSet(s, k, Reverse(next), << >>, Ok(next))

-----------------------------------------------------------------------------
Init ==
  /\ store = [s \in Spaces |-> [x \in Word(KeyLen) |-> << >>]]
  /\ wrote = [s \in Spaces |-> [k \in Keys |-> << >>]]
  /\ ret = None
  /\ call = << >>
  /\ typed \in BOOLEAN

\* The typed layer; the foreign functions with no namespace and no account
\* name are the ones on Own.
GetLoose(s, k, n) == \E fault \in BOOLEAN : Read(StateGet(Entry(s, k), n, fault))

SetLoose(s, k, v) == HostSet(s, k, Typed(v), v, Ok(<< >>))

UpdateLoose(s, k, n, f) ==
  \E fault \in BOOLEAN : Update(s, k, StateGet(Entry(s, k), n, fault), f, "loose")

Delete(k) == HostSet(Own, k, << >>, << >>, Ok(<< >>))

\* The fixed-width helpers: state_u32, state_i64, state_xfl, state_u64_le,
\* their setters and updates, on Own only.
GetExact(k, n) == \E fault \in BOOLEAN : Read(StateExact(Entry(Own, k), n, fault))

SetExact(k, v) == HostSet(Own, k, v, v, Ok(<< >>))

UpdateExact(k, n, f) ==
  \E fault \in BOOLEAN :
    Update(Own, k, ValueOrAbsent(StateExact(Entry(Own, k), n, fault)), f, "exact")

\* The big-endian pair, and the foreign little-endian reader.
GetU64(s, k) == \E fault \in BOOLEAN : Read(StateU64(Entry(s, k), fault))

UpdateU64(k, f) ==
  \E fault \in BOOLEAN :
    Update(Own, k, ValueOrAbsent(StateU64(Entry(Own, k), fault)), f, "u64")

GetForeignU64le(s, k) == \E fault \in BOOLEAN : Read(StateForeignU64le(Entry(s, k), fault))

SetRaw(s, k, data) == HostSet(s, k, data, << >>, Ok(<< >>))

\* A hook that uses every family on every key.
MixedNext ==
  /\ \/ \E s \in Spaces, k \in Keys :
          \/ \E n \in {Narrow, Wide} : GetLoose(s, k, n)
          \/ \E n \in {Narrow, Wide} : \E v \in Word(n) : SetLoose(s, k, v)
          \/ \E n \in {Narrow, Wide} : \E f \in Closures[n] : UpdateLoose(s, k, n, f)
          \/ GetU64(s, k)
          \/ GetForeignU64le(s, k)
          \/ \E data \in RawData : SetRaw(s, k, data)
     \/ \E k \in Keys :
          \/ Delete(k)
          \/ \E n \in {Narrow, Wide} : GetExact(k, n)
          \/ \E n \in {Narrow, Wide} : \E v \in Word(n) : SetExact(k, v)
          \/ \E n \in {Narrow, Wide} : \E f \in Closures[n] : UpdateExact(k, n, f)
          \/ \E f \in Closures[Wide] : UpdateU64(k, f)
  /\ UNCHANGED call

Called(op, s, k) == call' = [op |-> op, space |-> s, key |-> k]

TypedNext ==
  \E s \in Spaces, k \in Keys :
    \/ Called("get", s, k) /\ GetLoose(s, k, Paired)
    \/ Called("set", s, k) /\ \E v \in Word(Paired) : SetLoose(s, k, v)
    \/ Called("update", s, k) /\ \E f \in Closures[Paired] : UpdateLoose(s, k, Paired, f)
    \/ Called("delete", s, k) /\ s = Own /\ Delete(k)

Next ==
  /\ \/ typed /\ TypedNext
     \/ ~typed /\ MixedNext
  /\ UNCHANGED typed

Spec == Init /\ [][Next]_vars

-----------------------------------------------------------------------------
(* Properties *)

\* Every variant is a separate case: no call changes the entry of two keys.
CasesIndependent ==
  [][\A s \in Spaces, k \in Keys :
       Entry(s, k)' # Entry(s, k) =>
         \A t \in Spaces, l \in Keys : Entry(t, l)' # Entry(t, l) => t = s /\ l = k]_store

\* An update never replaces an entry it could not read: a typed one, in any
\* space, only an absent entry or one that decodes; on Own, a fixed-width one
\* only an absent entry or one of its width, and the big-endian one only an
\* absent entry or one that is a non-negative integer.
UpdatesNeverClobber ==
  [][\A s \in Spaces, k \in Keys :
       LET e == Entry(s, k) IN
         e # << >> /\ Entry(s, k)' # e =>
           /\ \A n \in Widths :
                StateGet(e, n, FALSE).tag # "ok" => \A f \in Closures[n] : ~UpdateLoose(s, k, n, f)
           /\ s = Own =>
                /\ \A n \in {Narrow, Wide} : Len(e) # n => \A f \in Closures[n] : ~UpdateExact(k, n, f)
                /\ StateU64(e, FALSE).tag # "ok" => \A f \in Closures[Wide] : ~UpdateU64(k, f)]_store

\* A word written through one little-endian function is read back by every
\* other of its width, until something else is written to that key.
LittleEndianReadsBack ==
  \A s \in Spaces, k \in Keys :
    LET w == wrote[s][k] IN
      w # << >> => StateGet(Entry(s, k), Len(w), FALSE) = Ok(w)
                   /\ StateExact(Entry(s, k), Len(w), FALSE) = Ok(w)

\* state_update_u64 writes back so as to round-trip through the convention
\* state_u64 reads with.
BigEndianRoundTrips ==
  [][\A k \in Keys :
       (\E f \in Closures[Wide] : UpdateU64(k, f)) /\ ret'.tag = "ok"
         => StateU64(Entry(Own, k)', FALSE) = ret']_vars

\* state_foreign_u64_le accepts the entries state_u64_le accepts, the ones of
\* exactly eight bytes.
ForeignTwinAgrees ==
  \A s \in Spaces, k \in Keys :
    StateForeignU64le(Entry(s, k), FALSE) = StateExact(Entry(s, k), Wide, FALSE)

-----------------------------------------------------------------------------
(* A typed hook sees a map *)

Answer ==
  CASE ret = Ok(<< >>) -> [is |-> "done", value |-> << >>]
    [] ret = None      -> [is |-> "not there", value |-> << >>]
    [] ret.tag = "ok" /\ ret # Ok(<< >>) -> [is |-> "found", value |-> ret.val]
    [] OTHER           -> [is |-> "failed", value |-> << >>]

\* What a hook can rely on to be a map: nothing, unless it is typed.
TheMap    == [s \in Spaces |-> [k \in Keys |-> IF typed THEN Entry(s, k) ELSE << >>]]
TheAnswer == IF typed THEN Answer ELSE [is |-> "not there", value |-> << >>]

Map == INSTANCE StateMap WITH
         Keys <- Keys, Values <- Word(Paired), Absent <- << >>, Closures <- Closures[Paired],
         map <- TheMap, answer <- TheAnswer

\* With one value type per key and separate cases, the typed layer is a map.
IsMap == Map!Spec
=============================================================================
