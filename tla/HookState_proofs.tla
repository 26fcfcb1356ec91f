--------------------------- MODULE HookState_proofs ---------------------------
(* The keys of an enum reach different slots when its first variant is the   *)
(* shortest; then a hook with one value type per key sees a map, no call of  *)
(* any hook touches another key, and a little-endian word is read back.      *)
(* That an update never replaces what it could not read needs no assumption. *)
EXTENDS HookState, TLAPS

LEMMA WordIsSeq ==
  ASSUME NEW n \in Nat, NEW w \in Word(n)
  PROVE  w \in Seq(Byte) /\ Len(w) = n /\ \A i \in 1 .. n : w[i] \in Byte
  BY DEF Word

LEMMA KeyShape ==
  ASSUME NEW k \in Keys
  PROVE  \E i \in 1 .. Len(Payloads) :
           /\ k.variant = i - 1 /\ i - 1 \in Byte /\ Payloads[i] \in Nat /\ Payloads[i] < KeyLen
           /\ k.payload \in Word(Payloads[i])
           /\ k = [variant |-> i - 1, payload |-> k.payload]
  <1>1. PICK i \in 1 .. Len(Payloads) : \E p \in Word(Payloads[i]) :
               k = [variant |-> i - 1, payload |-> p]
    BY DEF Keys
  <1>2. Payloads[i] \in Nat /\ Payloads[i] < KeyLen /\ i - 1 \in Byte
    BY StateParameters DEF StateParameters, Byte
  <1>3. PICK p \in Word(Payloads[i]) : k = [variant |-> i - 1, payload |-> p]
    BY <1>1
  <1>4. k.variant = i - 1 /\ k.payload = p
    BY <1>3
  <1>5. k = [variant |-> i - 1, payload |-> k.payload]
    BY <1>3, <1>4
  <1> QED  BY <1>2, <1>3, <1>4, <1>5

\* What the host stores a key under: zeros, the discriminant, the payload.
LEMMA SlotLayout ==
  ASSUME NEW k \in Keys, NEW n \in Nat, n < KeyLen, k.payload \in Word(n), k.variant \in Byte
  PROVE  /\ Slot[k] \in Word(KeyLen)
         /\ \A i \in 1 .. KeyLen - n - 1 : Slot[k][i] = 0
         /\ Slot[k][KeyLen - n] = k.variant
         /\ \A i \in 1 .. n : Slot[k][KeyLen - n + i] = k.payload[i]
  <1> DEFINE e == Encode(k)
  <1>0. KeyLen \in Nat /\ 0 \in Byte
    BY StateParameters DEF StateParameters, Byte
  <1>1. k.payload \in Seq(Byte) /\ Len(k.payload) = n /\ \A i \in 1 .. n : k.payload[i] \in Byte
    BY WordIsSeq
  <1>2. <<k.variant>> \in Seq(Byte) /\ Len(<<k.variant>>) = 1
    OBVIOUS
  <1>3. e \in Seq(Byte) /\ Len(e) = n + 1
    BY <1>1, <1>2 DEF Encode
  <1>4. e[1] = k.variant /\ \A i \in 1 .. n : e[i + 1] = k.payload[i]
    BY <1>1, <1>2 DEF Encode
  <1>5. \A i \in 1 .. n + 1 : e[i] \in Byte
    BY <1>3
  <1> HIDE DEF e
  <1>6. Slot[k] = [i \in 1 .. KeyLen |-> IF i > KeyLen - (n + 1) THEN e[i - (KeyLen - (n + 1))] ELSE 0]
    BY <1>3 DEF Slot, PadLeft, e
  <1>7. ASSUME NEW i \in 1 .. KeyLen
        PROVE  (IF i > KeyLen - (n + 1) THEN e[i - (KeyLen - (n + 1))] ELSE 0) \in Byte
    <2>1. CASE i > KeyLen - (n + 1)
      <3>1. i - (KeyLen - (n + 1)) \in 1 .. n + 1
        BY <1>0, <2>1
      <3> QED  BY <2>1, <3>1, <1>5
    <2>2. CASE ~(i > KeyLen - (n + 1))
      BY <2>2, <1>0
    <2> QED  BY <2>1, <2>2
  <1>8. Slot[k] \in Word(KeyLen)
    BY <1>6, <1>7 DEF Word
  <1>9. \A i \in 1 .. KeyLen - n - 1 : Slot[k][i] = 0
    BY <1>0, <1>6
  <1>10. Slot[k][KeyLen - n] = k.variant
    <2>1. KeyLen - n \in 1 .. KeyLen /\ KeyLen - n > KeyLen - (n + 1)
          /\ KeyLen - n - (KeyLen - (n + 1)) = 1
      BY <1>0
    <2> QED  BY <2>1, <1>4, <1>6
  <1>11. ASSUME NEW i \in 1 .. n
         PROVE  Slot[k][KeyLen - n + i] = k.payload[i]
    <2>1. PICK x \in 1 .. KeyLen : x = KeyLen - n + i /\ x > KeyLen - (n + 1)
                                   /\ x - (KeyLen - (n + 1)) = i + 1
      BY <1>0
    <2>2. Slot[k][x] = e[x - (KeyLen - (n + 1))]
      BY <2>1, <1>6
    <2>3. Slot[k][x] = e[i + 1]
      BY <2>1, <2>2
    <2> QED  BY <2>1, <2>3, <1>4
  <1> QED  BY <1>8, <1>9, <1>10, <1>11

\* Two keys of one enum never share a slot (state.rs, state_keys!), provided
\* the variant with discriminant zero is the shortest.
THEOREM KeysAreSeparate ==
  ASSUME Separate, NEW k \in Keys, NEW l \in Keys, Slot[k] = Slot[l]
  PROVE  k = l
  <1>0. KeyLen \in Nat
    BY StateParameters DEF StateParameters
  <1>1. PICK i \in 1 .. Len(Payloads) :
          /\ k.variant = i - 1 /\ i - 1 \in Byte /\ Payloads[i] \in Nat /\ Payloads[i] < KeyLen
          /\ k.payload \in Word(Payloads[i])
          /\ k = [variant |-> i - 1, payload |-> k.payload]
    BY KeyShape
  <1>2. PICK j \in 1 .. Len(Payloads) :
          /\ l.variant = j - 1 /\ j - 1 \in Byte /\ Payloads[j] \in Nat /\ Payloads[j] < KeyLen
          /\ l.payload \in Word(Payloads[j])
          /\ l = [variant |-> j - 1, payload |-> l.payload]
    BY KeyShape
  <1> DEFINE n == Payloads[i]
             m == Payloads[j]
  <1>3. /\ \A x \in 1 .. KeyLen - n - 1 : Slot[k][x] = 0
        /\ Slot[k][KeyLen - n] = k.variant
        /\ \A x \in 1 .. n : Slot[k][KeyLen - n + x] = k.payload[x]
    BY <1>1, SlotLayout
  <1>4. /\ \A x \in 1 .. KeyLen - m - 1 : Slot[l][x] = 0
        /\ Slot[l][KeyLen - m] = l.variant
        /\ \A x \in 1 .. m : Slot[l][KeyLen - m + x] = l.payload[x]
    BY <1>2, SlotLayout
  <1>5. Len(Payloads) \in Nat /\ Payloads[1] <= n /\ Payloads[1] <= m /\ Payloads[1] \in Nat
    <2>1. 1 \in 1 .. Len(Payloads) /\ Payloads \in Seq(Nat)
      BY StateParameters DEF StateParameters
    <2>2. Len(Payloads) \in Nat /\ Payloads[1] \in Nat
      BY <2>1
    <2> QED  BY <2>1, <2>2 DEF Separate
  <1>6. n <= m
    <2>1. SUFFICES ASSUME n > m  PROVE FALSE
      BY <1>1, <1>2
    <2>2. KeyLen - n \in 1 .. KeyLen - m - 1
      BY <1>0, <1>1, <1>2, <2>1
    <2>3. k.variant = 0
      BY <1>3, <1>4, <2>2
    <2> QED  BY <1>1, <1>2, <1>5, <2>1, <2>3
  <1>7. m <= n
    <2>1. SUFFICES ASSUME m > n  PROVE FALSE
      BY <1>1, <1>2
    <2>2. KeyLen - m \in 1 .. KeyLen - n - 1
      BY <1>0, <1>1, <1>2, <2>1
    <2>3. l.variant = 0
      BY <1>3, <1>4, <2>2
    <2> QED  BY <1>1, <1>2, <1>5, <2>1, <2>3
  <1>8. n = m
    BY <1>1, <1>2, <1>6, <1>7
  <1>9. k.variant = l.variant
    BY <1>3, <1>4, <1>8
  <1>10. k.payload = l.payload
    <2>1. \A x \in 1 .. n : k.payload[x] = l.payload[x]
      BY <1>3, <1>4, <1>8
    <2> QED  BY <1>1, <1>2, <1>8, <2>1 DEF Word
  <1> QED  BY <1>1, <1>2, <1>9, <1>10

-----------------------------------------------------------------------------
(* The typed hook *)

Typed0 == Word(Paired) \cup {<< >>}

\* Between calls: an entry is absent or a value of the paired type.
StateInv ==
  /\ store \in [Spaces -> [Word(KeyLen) -> Typed0]]
  /\ wrote \in [Spaces -> [Keys -> Typed0]]

LEMMA Sizes ==
  /\ KeyLen \in Nat /\ MaxTyped \in Nat /\ Paired \in Nat /\ Paired >= 1 /\ Paired <= MaxTyped
  /\ Paired \in Widths /\ Own \in Spaces
  BY StateParameters DEF StateParameters, Widths

LEMMA SlotType == \A k \in Keys : Slot[k] \in Word(KeyLen)
  <1> SUFFICES ASSUME NEW k \in Keys  PROVE Slot[k] \in Word(KeyLen)
    OBVIOUS
  <1>1. PICK i \in 1 .. Len(Payloads) :
          /\ k.variant = i - 1 /\ i - 1 \in Byte /\ Payloads[i] \in Nat /\ Payloads[i] < KeyLen
          /\ k.payload \in Word(Payloads[i])
          /\ k = [variant |-> i - 1, payload |-> k.payload]
    BY KeyShape
  <1> QED  BY <1>1, SlotLayout

LEMMA ValuesArePresent ==
  \A v \in Word(Paired) : v # << >> /\ Len(v) = Paired /\ v \in Seq(Byte)
  BY WordIsSeq, Sizes

LEMMA WidthSizes == \A n \in Widths : n \in Nat /\ n >= 1 /\ n <= MaxTyped
  BY StateParameters DEF StateParameters, Widths

\* encode_write sends the value's own bytes.
LEMMA TypedIsWord ==
  ASSUME NEW n \in Widths, NEW v \in Word(n)
  PROVE  Typed(v) = v
  <1>0. n \in Nat /\ n >= 1 /\ n <= MaxTyped
    BY WidthSizes
  <1>1. v \in Seq(Byte) /\ Len(v) = n /\ \A i \in 1 .. n : v[i] \in Byte
    BY <1>0, WordIsSeq
  <1> DEFINE x == Extend(v, MaxTyped)
  <1>2. x = [i \in 1 .. MaxTyped |-> IF i <= n THEN v[i] ELSE 0]
    BY <1>1 DEF Extend
  <1>3. 0 \in Byte
    BY StateParameters DEF StateParameters, Byte
  <1>4. x \in [1 .. MaxTyped -> Byte]
    BY <1>0, <1>1, <1>2, <1>3, Sizes
  <1>5. x \in Seq(Byte) /\ Len(x) = MaxTyped
    BY <1>4, Sizes
  <1> HIDE DEF x
  <1>6. SubSeq(x, 1, n) = [i \in 1 .. n |-> x[i]]
    BY <1>0, <1>5, Sizes
  <1>7. \A i \in 1 .. n : x[i] = v[i]
    BY <1>0, <1>2, Sizes
  <1>8. SubSeq(x, 1, n) = [i \in 1 .. n |-> v[i]]
    BY <1>6, <1>7
  <1>9. v = [i \in 1 .. n |-> v[i]]
    BY DEF Word
  <1> QED  BY <1>1, <1>8, <1>9 DEF Typed, x

LEMMA TypedIsValue == \A v \in Word(Paired) : Typed(v) = v
  BY TypedIsWord, Sizes

\* decode_read returns the value, or its absence, or an error.
LEMMA ReadTyped ==
  ASSUME NEW e \in Typed0, NEW fault \in BOOLEAN
  PROVE  \/ StateGet(e, Paired, fault) = Err("InternalError")
         \/ e = << >> /\ StateGet(e, Paired, fault) = None
         \/ e # << >> /\ StateGet(e, Paired, fault) = Ok(e)
  <1>1. CASE fault
    BY <1>1 DEF StateGet, DecodeRead, HostState, Err
  <1>2. CASE ~fault /\ e = << >>
    BY <1>2 DEF StateGet, DecodeRead, HostState, Err
  <1>3. CASE ~fault /\ e # << >>
    <2>1. e \in Seq(Byte) /\ Len(e) = Paired
      BY <1>3, ValuesArePresent DEF Typed0
    <2>2. HostState(e, MaxTyped, fault) = Ok(e)
      BY <1>3, <2>1, Sizes DEF HostState
    <2>3. Ok(e).tag = "ok" /\ Ok(e).val = e
      BY DEF Ok
    <2>4. SubSeq(e, 1, Paired) = e
      BY <2>1, Sizes
    <2>5. ~(Len(e) < Paired)
      BY <2>1, Sizes
    <2>6. DecodeRead(Ok(e), Paired) = Ok(SubSeq(e, 1, Paired))
      BY <2>3, <2>5 DEF DecodeRead
    <2>7. StateGet(e, Paired, fault) = Ok(e)
      BY <2>2, <2>4, <2>6 DEF StateGet
    <2> QED  BY <1>3, <2>7
  <1> QED  BY <1>1, <1>2, <1>3

-----------------------------------------------------------------------------
Entries == [s \in Spaces |-> [k \in Keys |-> Entry(s, k)]]

\* A write to one key changes the map at that key.
LEMMA WriteIsPut ==
  ASSUME Separate, StateInv, NEW s \in Spaces, NEW k \in Keys, NEW d \in Typed0,
         store' = [store EXCEPT ![s][Slot[k]] = d]
  PROVE  /\ Entries' = [Entries EXCEPT ![s][k] = d]
         /\ store' \in [Spaces -> [Word(KeyLen) -> Typed0]]
  <1>1. \A t \in Spaces, l \in Keys :
          store'[t][Slot[l]] = IF t = s /\ l = k THEN d ELSE store[t][Slot[l]]
    <2> SUFFICES ASSUME NEW t \in Spaces, NEW l \in Keys
                 PROVE  store'[t][Slot[l]] = IF t = s /\ l = k THEN d ELSE store[t][Slot[l]]
      OBVIOUS
    <2>1. Slot[k] \in Word(KeyLen) /\ Slot[l] \in Word(KeyLen)
      BY SlotType
    <2>2. Slot[l] = Slot[k] => l = k
      BY KeysAreSeparate
    <2> QED  BY <2>1, <2>2 DEF StateInv
  <1>2. Entries' = [t \in Spaces |-> [l \in Keys |-> store'[t][Slot[l]]]]
    BY DEF Entries, Entry
  <1>3. [Entries EXCEPT ![s][k] = d]
          = [t \in Spaces |-> [l \in Keys |-> IF t = s /\ l = k THEN d ELSE store[t][Slot[l]]]]
    BY DEF Entries, Entry
  <1>4. store' \in [Spaces -> [Word(KeyLen) -> Typed0]]
    BY SlotType DEF StateInv
  <1>5. [t \in Spaces |-> [l \in Keys |-> store'[t][Slot[l]]]]
          = [t \in Spaces |-> [l \in Keys |-> IF t = s /\ l = k THEN d ELSE store[t][Slot[l]]]]
    BY <1>1
  <1>6. Entries' = [Entries EXCEPT ![s][k] = d]
    BY <1>2, <1>3, <1>5
  <1> QED  BY <1>4, <1>6
-----------------------------------------------------------------------------
AnswerDone     == [is |-> "done", value |-> << >>]
AnswerNotThere == [is |-> "not there", value |-> << >>]
AnswerFailed   == [is |-> "failed", value |-> << >>]

LEMMA Answers ==
  /\ ret' = Ok(<< >>) => Answer' = AnswerDone
  /\ ret' = None => Answer' = AnswerNotThere
  /\ ret' \in {Err("InternalError"), Err("ReserveInsufficient")} => Answer' = AnswerFailed
  /\ \A v : ret' = Ok(v) /\ v # << >> => Answer' = [is |-> "found", value |-> v]
  <1>1. \A v : Ok(v).tag = "ok" /\ Ok(v).val = v
    BY DEF Ok
  <1>2. None.tag = "none" /\ Err("InternalError").tag = "InternalError"
        /\ Err("ReserveInsufficient").tag = "ReserveInsufficient"
    BY DEF None, Err
  <1> HIDE DEF Ok, None, Err
  <1>3. "ok" # "none" /\ "InternalError" \notin {"ok", "none"} /\ "ReserveInsufficient" \notin {"ok", "none"}
    OBVIOUS
  <1>4. ret' = Ok(<< >>) => Answer' = AnswerDone
    BY <1>1, <1>2, <1>3 DEF Answer, AnswerDone
  <1>5. ret' = None => Answer' = AnswerNotThere
    BY <1>1, <1>2, <1>3 DEF Answer, AnswerNotThere
  <1>6. ret' \in {Err("InternalError"), Err("ReserveInsufficient")} => Answer' = AnswerFailed
    BY <1>1, <1>2, <1>3 DEF Answer, AnswerFailed
  <1>7. ASSUME NEW v, ret' = Ok(v), v # << >>
        PROVE  Answer' = [is |-> "found", value |-> v]
    <2>1. ret' # Ok(<< >>) /\ ret' # None /\ ret'.tag = "ok" /\ ret'.val = v
      BY <1>7, <1>1, <1>2, <1>3
    <2> QED  BY <2>1 DEF Answer
  <1> QED  BY <1>4, <1>5, <1>6, <1>7

\* A write of the host: done, or refused and nothing changed.
LEMMA HostSetMaps ==
  ASSUME Separate, StateInv, NEW s \in Spaces, NEW k \in Keys, NEW d \in Typed0,
         NEW w \in Typed0, HostSet(s, k, d, w, Ok(<< >>))
  PROVE  /\ StateInv'
         /\ \/ Entries' = [Entries EXCEPT ![s][k] = d] /\ Answer' = AnswerDone
            \/ Entries' = Entries /\ Answer' = AnswerFailed
  <1>1. CASE /\ store' = [store EXCEPT ![s][Slot[k]] = d]
             /\ wrote' = [wrote EXCEPT ![s][k] = w]
             /\ ret' = Ok(<< >>)
    <2>1. Entries' = [Entries EXCEPT ![s][k] = d] /\ store' \in [Spaces -> [Word(KeyLen) -> Typed0]]
      BY <1>1, WriteIsPut
    <2>2. wrote' \in [Spaces -> [Keys -> Typed0]]
      BY <1>1 DEF StateInv
    <2> QED  BY <1>1, <2>1, <2>2, Answers DEF StateInv
  <1>2. CASE /\ store' = store /\ wrote' = wrote
             /\ ret' \in {Err("InternalError"), Err("ReserveInsufficient")}
    <2>1. Entries' = Entries
      BY <1>2 DEF Entries, Entry
    <2> QED  BY <1>2, <2>1, Answers DEF StateInv
  <1> QED  BY <1>1, <1>2 DEF HostSet, Read

-----------------------------------------------------------------------------
MapGet ==
  /\ call'.op = "get"
  /\ Answer' = IF Entries[call'.space][call'.key] = << >> THEN AnswerNotThere
               ELSE [is |-> "found", value |-> Entries[call'.space][call'.key]]
  /\ Entries' = Entries
MapPut(v) ==
  /\ Entries' = [Entries EXCEPT ![call'.space][call'.key] = v]
  /\ Answer' = AnswerDone
MapFail == Answer' = AnswerFailed /\ Entries' = Entries
MapStep ==
  /\ call' \in [op : {"get", "set", "update", "delete"}, space : Spaces, key : Keys]
  /\ \/ MapGet
     \/ call'.op = "set" /\ \E v \in Word(Paired) : MapPut(v)
     \/ call'.op = "update"
          /\ \E f \in Closures[Paired] : MapPut(f[Entries[call'.space][call'.key]])
     \/ call'.op = "delete" /\ MapPut(<< >>)
     \/ MapFail

LEMMA CalledIsCall ==
  ASSUME NEW s \in Spaces, NEW k \in Keys, NEW op \in {"get", "set", "update", "delete"},
         Called(op, s, k)
  PROVE  /\ call' \in [op : {"get", "set", "update", "delete"}, space : Spaces, key : Keys]
         /\ call'.op = op /\ call'.space = s /\ call'.key = k
  BY DEF Called

LEMMA TypedStepMaps ==
  ASSUME Separate, StateInv, TypedNext
  PROVE  StateInv' /\ MapStep
  <1>1. PICK s \in Spaces, k \in Keys :
          \/ Called("get", s, k) /\ GetLoose(s, k, Paired)
          \/ Called("set", s, k) /\ \E v \in Word(Paired) : SetLoose(s, k, v)
          \/ Called("update", s, k) /\ \E f \in Closures[Paired] : UpdateLoose(s, k, Paired, f)
          \/ Called("delete", s, k) /\ s = Own /\ Delete(k)
    BY DEF TypedNext
  <1>2. Entry(s, k) \in Typed0 /\ Entries[s][k] = Entry(s, k)
    BY SlotType DEF StateInv, Entry, Entries
  <1>3. << >> \in Typed0
    BY DEF Typed0
  <1>4. CASE Called("get", s, k) /\ GetLoose(s, k, Paired)
    <2>1. PICK fault \in BOOLEAN : Read(StateGet(Entry(s, k), Paired, fault))
      BY <1>4 DEF GetLoose
    <2>2. StateInv' /\ Entries' = Entries
      BY <2>1 DEF Read, StateInv, Entries, Entry
    <2>3. \/ Answer' = AnswerFailed
          \/ Entry(s, k) = << >> /\ Answer' = AnswerNotThere
          \/ Entry(s, k) # << >> /\ Answer' = [is |-> "found", value |-> Entry(s, k)]
      BY <1>2, <2>1, ReadTyped, Answers DEF Read
    <2> QED  BY <1>2, <1>4, <2>2, <2>3, CalledIsCall DEF MapStep, MapGet, MapFail
  <1>5. CASE Called("set", s, k) /\ \E v \in Word(Paired) : SetLoose(s, k, v)
    <2>1. PICK v \in Word(Paired) : SetLoose(s, k, v)
      BY <1>5
    <2>2. HostSet(s, k, v, v, Ok(<< >>)) /\ v \in Typed0
      BY <2>1, TypedIsValue DEF SetLoose, Typed0
    <2>3. StateInv' /\ (\/ Entries' = [Entries EXCEPT ![s][k] = v] /\ Answer' = AnswerDone
                        \/ Entries' = Entries /\ Answer' = AnswerFailed)
      BY <2>2, HostSetMaps
    <2> QED  BY <1>5, <2>3, CalledIsCall DEF MapStep, MapPut, MapFail
  <1>6. CASE Called("update", s, k) /\ \E f \in Closures[Paired] : UpdateLoose(s, k, Paired, f)
    <2>1. PICK f \in Closures[Paired] : UpdateLoose(s, k, Paired, f)
      BY <1>6
    <2> DEFINE e == Entry(s, k)
    <2>2. f \in [Typed0 -> Word(Paired)]
      BY StateParameters, Sizes DEF StateParameters, Typed0
    <2>3. PICK fault \in BOOLEAN : Update(s, k, StateGet(e, Paired, fault), f, "loose")
      BY <2>1 DEF UpdateLoose
    <2>4. CASE StateGet(e, Paired, fault) = Err("InternalError")
      <3>1. Read(Err("InternalError"))
        BY <2>3, <2>4 DEF Update, Err
      <3>2. StateInv' /\ Entries' = Entries /\ Answer' = AnswerFailed
        BY <3>1, Answers DEF Read, StateInv, Entries, Entry
      <3> QED  BY <1>6, <3>2, CalledIsCall DEF MapStep, MapFail
    <2>5. CASE \/ e = << >> /\ StateGet(e, Paired, fault) = None
               \/ StateGet(e, Paired, fault) = Ok(e)
      <3>1. StateGet(e, Paired, fault).tag \in {"ok", "none"} /\ StateGet(e, Paired, fault).val = e
        BY <2>5 DEF None, Err, Ok
      <3>2. f[e] \in Word(Paired) /\ f[e] \in Typed0 /\ Typed(f[e]) = f[e]
        BY <1>2, <2>2, TypedIsValue DEF Typed0
      <3>3. HostSet(s, k, f[e], f[e], Ok(<< >>))
        BY <2>3, <3>1, <3>2 DEF Update
      <3>4. StateInv' /\ (\/ Entries' = [Entries EXCEPT ![s][k] = f[e]] /\ Answer' = AnswerDone
                          \/ Entries' = Entries /\ Answer' = AnswerFailed)
        BY <3>2, <3>3, HostSetMaps
      <3>5. call' \in [op : {"get", "set", "update", "delete"}, space : Spaces, key : Keys]
            /\ call'.op = "update" /\ call'.space = s /\ call'.key = k
        BY <1>6, CalledIsCall
      <3>6. f[Entries[call'.space][call'.key]] = f[e]
        BY <1>2, <3>5
      <3>7. MapPut(f[e]) \/ MapFail
        BY <3>4, <3>5 DEF MapPut, MapFail
      <3>8. MapPut(f[Entries[call'.space][call'.key]]) \/ MapFail
        BY <3>6, <3>7
      <3>9. (\E g \in Closures[Paired] : MapPut(g[Entries[call'.space][call'.key]])) \/ MapFail
        BY <3>8, Zenon
      <3> QED  BY <3>4, <3>5, <3>9, Zenon DEF MapStep
    <2>6. e \in Typed0
      BY <1>2
    <2> HIDE DEF e
    <2> QED  BY <2>4, <2>5, <2>6, ReadTyped
  <1>7. CASE Called("delete", s, k) /\ s = Own /\ Delete(k)
    <2>1. StateInv' /\ (\/ Entries' = [Entries EXCEPT ![s][k] = << >>] /\ Answer' = AnswerDone
                        \/ Entries' = Entries /\ Answer' = AnswerFailed)
      BY <1>3, <1>7, HostSetMaps DEF Delete
    <2> QED  BY <1>7, <2>1, CalledIsCall DEF MapStep, MapPut, MapFail
  <1> QED  BY <1>1, <1>4, <1>5, <1>6, <1>7

\* Whatever the width of bytes, keys and values, the payloads, the closures
\* and the spaces: the typed layer is a map, if the variant with discriminant
\* zero is the shortest (state.rs, state_get_typed and its companions).
THEOREM TypedHookIsMap ==
  ASSUME Separate
  PROVE  Spec => IsMap
  <1> DEFINE I == typed \in BOOLEAN /\ (typed => StateInv)
  <1>1. Init => I /\ Map!Init
    <2> SUFFICES ASSUME Init  PROVE I /\ Map!Init
      OBVIOUS
    <2>1. I
      BY DEF Init, StateInv, Typed0
    <2>2. TheMap = [s \in Spaces |-> [k \in Keys |-> << >>]]
      BY SlotType DEF Init, TheMap, Entry
    <2>3. call \notin [op : {"get", "set", "update", "delete"}, space : Spaces, key : Keys]
      BY DEF Init
    <2>4. TheAnswer = AnswerNotThere
      BY DEF Init, Answer, TheAnswer, AnswerNotThere, None, Err, Ok
    <2> QED  BY <2>1, <2>2, <2>3, <2>4
             DEF Map!Init, Map!NotThere, Map!Calls, AnswerNotThere
  <1>2. I /\ [Next]_vars => I' /\ [Map!Next]_<<TheMap, call, TheAnswer>>
    <2> SUFFICES ASSUME I, [Next]_vars
                 PROVE  I' /\ [Map!Next]_<<TheMap, call, TheAnswer>>
      OBVIOUS
    <2>1. CASE Next /\ typed
      <3>1. typed' = typed /\ typed /\ typed' /\ StateInv' /\ MapStep
        BY <2>1, TypedStepMaps DEF Next
      <3>2. TheMap = Entries /\ TheMap' = Entries' /\ TheAnswer' = Answer'
        BY <3>1 DEF TheMap, Entries, TheAnswer
      <3>3. MapStep => Map!Next
        BY <3>2
        DEF MapStep, MapGet, MapPut, MapFail, AnswerDone, AnswerFailed, AnswerNotThere,
            Map!Next, Map!Get, Map!Set, Map!Update, Map!Delete, Map!Fail, Map!Put,
            Map!Current, Map!Calls, Map!Found, Map!NotThere, Map!Done, Map!Failed
      <3> QED  BY <3>1, <3>3
    <2>2. CASE Next /\ ~typed
      <3>1. typed' = typed /\ ~typed' /\ call' = call
        BY <2>2 DEF Next, MixedNext
      <3>2. TheMap' = TheMap /\ TheAnswer' = TheAnswer
        BY <2>2, <3>1 DEF TheMap, TheAnswer
      <3> QED  BY <3>1, <3>2
    <2>3. CASE UNCHANGED vars
      BY <2>3 DEF vars, StateInv, TheMap, TheAnswer, Entry, Answer
    <2> QED  BY <2>1, <2>2, <2>3
  <1> QED  BY <1>1, <1>2, PTL DEF Spec, IsMap, Map!Spec
-----------------------------------------------------------------------------
(* Any hook *)

StoreShape ==
  /\ DOMAIN store = Spaces
  /\ \A s \in Spaces : DOMAIN store[s] = Word(KeyLen)

OnlyChanges(s, k) ==
  \A t \in Spaces, l \in Keys : Entry(t, l)' # Entry(t, l) => t = s /\ l = k

Contained == StoreShape' /\ \E s \in Spaces, k \in Keys : OnlyChanges(s, k)

LEMMA ReadIsContained ==
  ASSUME StoreShape, NEW k \in Keys, NEW answer, Read(answer)
  PROVE  Contained
  <1>1. StoreShape' /\ OnlyChanges(Own, k)
    BY DEF Read, StoreShape, OnlyChanges, Entry
  <1> QED  BY <1>1, Sizes DEF Contained

LEMMA HostSetIsContained ==
  ASSUME Separate, StoreShape, NEW s \in Spaces, NEW k \in Keys, NEW data, NEW word, NEW answer,
         HostSet(s, k, data, word, answer)
  PROVE  Contained
  <1>1. CASE store' = [store EXCEPT ![s][Slot[k]] = data]
    <2>1. StoreShape'
      BY <1>1 DEF StoreShape
    <2>2. ASSUME NEW t \in Spaces, NEW l \in Keys, store'[t][Slot[l]] # store[t][Slot[l]]
          PROVE  t = s /\ l = k
      <3>1. Slot[k] \in Word(KeyLen) /\ Slot[l] \in Word(KeyLen)
        BY SlotType
      <3>2. t = s
        BY <1>1, <2>2 DEF StoreShape
      <3>3. Slot[l] = Slot[k]
        BY <1>1, <2>2, <3>1, <3>2 DEF StoreShape
      <3> QED  BY <3>2, <3>3, KeysAreSeparate
    <2>3. OnlyChanges(s, k)
      BY <2>2 DEF OnlyChanges, Entry
    <2> QED  BY <2>1, <2>3 DEF Contained
  <1>2. CASE \E code : Read(Err(code))
    BY <1>2, ReadIsContained
  <1> QED  BY <1>1, <1>2 DEF HostSet

LEMMA EveryCallIsContained ==
  ASSUME Separate, StoreShape, Next
  PROVE  Contained
  <1>1. ASSUME NEW s \in Spaces, NEW k \in Keys, NEW n, GetLoose(s, k, n)
        PROVE  Contained
    BY <1>1, ReadIsContained DEF GetLoose
  <1>2. ASSUME NEW s \in Spaces, NEW k \in Keys, NEW v, SetLoose(s, k, v)
        PROVE  Contained
    BY <1>2, HostSetIsContained DEF SetLoose
  <1>3. ASSUME NEW s \in Spaces, NEW k \in Keys, NEW n, NEW f, UpdateLoose(s, k, n, f)
        PROVE  Contained
    BY <1>3, ReadIsContained, HostSetIsContained DEF UpdateLoose, Update
  <1>4. ASSUME NEW s \in Spaces, NEW k \in Keys, GetU64(s, k) \/ GetForeignU64le(s, k)
        PROVE  Contained
    BY <1>4, ReadIsContained DEF GetU64, GetForeignU64le
  <1>5. ASSUME NEW s \in Spaces, NEW k \in Keys, NEW data, SetRaw(s, k, data)
        PROVE  Contained
    BY <1>5, HostSetIsContained DEF SetRaw
  <1>6. ASSUME NEW k \in Keys, Delete(k)
        PROVE  Contained
    BY <1>6, HostSetIsContained, Sizes DEF Delete
  <1>7. ASSUME NEW k \in Keys, NEW n, GetExact(k, n)
        PROVE  Contained
    BY <1>7, ReadIsContained DEF GetExact
  <1>8. ASSUME NEW k \in Keys, NEW v, SetExact(k, v)
        PROVE  Contained
    BY <1>8, HostSetIsContained, Sizes DEF SetExact
  <1>9. ASSUME NEW k \in Keys, NEW n, NEW f, UpdateExact(k, n, f)
        PROVE  Contained
    BY <1>9, ReadIsContained, HostSetIsContained, Sizes DEF UpdateExact, Update
  <1>10. ASSUME NEW k \in Keys, NEW f, UpdateU64(k, f)
         PROVE  Contained
    BY <1>10, ReadIsContained, HostSetIsContained, Sizes DEF UpdateU64, Update
  <1>11. CASE MixedNext
    BY <1>1, <1>2, <1>3, <1>4, <1>5, <1>6, <1>7, <1>8, <1>9, <1>10, <1>11 DEF MixedNext
  <1>12. CASE TypedNext
    BY <1>1, <1>2, <1>3, <1>6, <1>12 DEF TypedNext
  <1> QED  BY <1>11, <1>12 DEF Next

\* With the shortest variant first, no call of any hook, raw ones included,
\* touches the entry of a key it was not given (state.rs, state_keys!).
THEOREM NoCallTouchesAnotherKey ==
  ASSUME Separate
  PROVE  Spec => CasesIndependent
  <1>1. Init => StoreShape
    BY DEF Init, StoreShape
  <1>2. StoreShape /\ [Next]_vars =>
          /\ StoreShape'
          /\ [\A s \in Spaces, k \in Keys :
                Entry(s, k)' # Entry(s, k) =>
                  \A t \in Spaces, l \in Keys : Entry(t, l)' # Entry(t, l) => t = s /\ l = k]_store
    <2> SUFFICES ASSUME StoreShape, [Next]_vars
                 PROVE  /\ StoreShape'
                        /\ \/ store' = store
                           \/ \A s \in Spaces, k \in Keys :
                                Entry(s, k)' # Entry(s, k) => OnlyChanges(s, k)
      BY DEF OnlyChanges
    <2>1. CASE Next
      <3>1. Contained
        BY <2>1, EveryCallIsContained
      <3> QED  BY <3>1 DEF Contained, OnlyChanges
    <2>2. CASE UNCHANGED vars
      BY <2>2 DEF vars, StoreShape
    <2> QED  BY <2>1, <2>2
  <1> QED  BY <1>1, <1>2, PTL DEF Spec, CasesIndependent
-----------------------------------------------------------------------------
(* What is read back *)

Little == {<< >>} \cup UNION {Word(n) : n \in Widths}

LEMMA EmptyIsLittle == << >> \in Little
  BY Zenon DEF Little

LEMMA LittleWord == ASSUME NEW w \in Little, w # << >> PROVE \E n \in Widths : w \in Word(n)
  <1>1. w \in UNION {Word(n) : n \in Widths}
    BY Zenon DEF Little
  <1> QED  BY <1>1, Zenon

\* Entries are bytes, and the word last written through a little-endian
\* function is the entry until something else is written there.
LittleInv ==
  /\ store \in [Spaces -> [Word(KeyLen) -> Seq(Byte)]]
  /\ wrote \in [Spaces -> [Keys -> Little]]
  /\ \A s \in Spaces, k \in Keys : wrote[s][k] # << >> => Entry(s, k) = wrote[s][k]

LEMMA ReadKeepsLittle == ASSUME LittleInv, NEW answer, Read(answer) PROVE LittleInv'
  BY DEF Read, LittleInv, Entry

LEMMA HostSetKeepsLittle ==
  ASSUME Separate, LittleInv, NEW s \in Spaces, NEW k \in Keys,
         NEW data \in Seq(Byte), NEW word \in Little, word # << >> => data = word,
         NEW answer, HostSet(s, k, data, word, answer)
  PROVE  LittleInv'
  <1>1. CASE /\ store' = [store EXCEPT ![s][Slot[k]] = data]
             /\ wrote' = [wrote EXCEPT ![s][k] = word]
    <2>1. store' \in [Spaces -> [Word(KeyLen) -> Seq(Byte)]]
      BY <1>1, SlotType DEF LittleInv
    <2>2. wrote' \in [Spaces -> [Keys -> Little]]
      BY <1>1 DEF LittleInv
    <2>3. ASSUME NEW t \in Spaces, NEW l \in Keys, wrote'[t][l] # << >>
          PROVE  store'[t][Slot[l]] = wrote'[t][l]
      <3>1. Slot[k] \in Word(KeyLen) /\ Slot[l] \in Word(KeyLen)
        BY SlotType
      <3>2. CASE t = s /\ l = k
        <4>1. store'[t][Slot[l]] = data
          BY <1>1, <3>1, <3>2 DEF LittleInv
        <4>2. wrote'[t][l] = word
          BY <1>1, <3>2 DEF LittleInv
        <4> QED  BY <2>3, <4>1, <4>2
      <3>3. CASE ~(t = s /\ l = k)
        <4>1. Slot[l] = Slot[k] => l = k
          BY KeysAreSeparate
        <4>2. store'[t][Slot[l]] = store[t][Slot[l]]
          BY <1>1, <3>1, <3>3, <4>1 DEF LittleInv
        <4>3. wrote'[t][l] = wrote[t][l]
          BY <1>1, <3>3 DEF LittleInv
        <4> QED  BY <2>3, <4>2, <4>3 DEF LittleInv, Entry
      <3> QED  BY <3>2, <3>3
    <2> QED  BY <2>1, <2>2, <2>3 DEF LittleInv, Entry
  <1>2. CASE \E code : Read(Err(code))
    BY <1>2, ReadKeepsLittle
  <1> QED  BY <1>1, <1>2 DEF HostSet

LEMMA WordIsLittle ==
  ASSUME NEW n \in Widths, NEW v \in Word(n)
  PROVE  v \in Little /\ v \in Seq(Byte) /\ v # << >> /\ Len(v) = n
  <1>1. n \in Nat /\ n >= 1
    BY WidthSizes
  <1>2. v \in Seq(Byte) /\ Len(v) = n
    BY <1>1, WordIsSeq
  <1> QED  BY <1>1, <1>2 DEF Little

LEMMA ReversedWord ==
  ASSUME NEW n \in Nat, NEW w \in Word(n)
  PROVE  Reverse(w) \in Seq(Byte)
  <1>1. Len(w) = n /\ \A i \in 1 .. n : w[i] \in Byte
    BY WordIsSeq
  <1>2. \A i \in 1 .. n : n + 1 - i \in 1 .. n
    OBVIOUS
  <1>3. Reverse(w) = [i \in 1 .. n |-> w[n + 1 - i]]
    BY <1>1 DEF Reverse
  <1>4. Reverse(w) \in [1 .. n -> Byte]
    BY <1>1, <1>2, <1>3
  <1> QED  BY <1>4

\* What an update passes to its function is absent or a word of its width.
LEMMA LooseCurrent ==
  ASSUME NEW e \in Seq(Byte), NEW n \in Widths, NEW fault \in BOOLEAN,
         StateGet(e, n, fault).tag \in {"ok", "none"}
  PROVE  StateGet(e, n, fault).val \in Word(n) \cup {<< >>}
  <1> DEFINE h == HostState(e, MaxTyped, fault)
  <1>1. n \in Nat /\ n >= 1 /\ Len(e) \in Nat
    BY WidthSizes
  <1>2. h = Ok(e) \/ h.tag \in {"InternalError", "DoesntExist", "TooSmall"}
    BY DEF HostState, Err
  <1>3. StateGet(e, n, fault) = DecodeRead(h, n)
    BY DEF StateGet
  <1> HIDE DEF h
  <1>4. CASE h.tag \in {"InternalError", "DoesntExist", "TooSmall"}
    BY <1>3, <1>4 DEF DecodeRead, None, Err
  <1>5. CASE h = Ok(e)
    <2>1. CASE Len(e) < n
      BY <1>3, <1>5, <2>1 DEF DecodeRead, Ok, Err
    <2>2. CASE ~(Len(e) < n)
      <3>1. DecodeRead(h, n) = Ok(SubSeq(e, 1, n))
        BY <1>5, <2>2 DEF DecodeRead, Ok
      <3>2. SubSeq(e, 1, n) = [i \in 1 .. n |-> e[i]]
        BY <1>1, <2>2
      <3>3. \A i \in 1 .. n : e[i] \in Byte
        BY <1>1, <2>2
      <3>4. SubSeq(e, 1, n) \in Word(n)
        BY <3>2, <3>3 DEF Word
      <3> QED  BY <1>3, <3>1, <3>4 DEF Ok
    <2> QED  BY <2>1, <2>2
  <1> QED  BY <1>2, <1>4, <1>5

LEMMA ExactCurrent ==
  ASSUME NEW e \in Seq(Byte), NEW n \in Widths, NEW fault \in BOOLEAN,
         ValueOrAbsent(StateExact(e, n, fault)).tag \in {"ok", "none"}
  PROVE  ValueOrAbsent(StateExact(e, n, fault)).val \in Word(n) \cup {<< >>}
  <1> DEFINE h == HostState(e, n, fault)
             x == ReadExact(h, n)
  <1>1. h = Ok(e) \/ (h.tag \in {"InternalError", "DoesntExist", "TooSmall"} /\ h.val = << >>)
    BY DEF HostState, Err
  <1>2. StateExact(e, n, fault) = x
    BY DEF StateExact
  <1> HIDE DEF h
  <1>3. CASE h.tag \in {"InternalError", "DoesntExist", "TooSmall"} /\ h.val = << >>
    <2>1. x = h
      BY <1>3 DEF ReadExact
    <2> QED  BY <1>2, <1>3, <2>1 DEF ValueOrAbsent, None, Err
  <1>4. CASE h = Ok(e)
    <2>1. CASE Len(e) # n
      BY <1>2, <1>4, <2>1 DEF ReadExact, ValueOrAbsent, Ok, Err
    <2>2. CASE Len(e) = n
      <3>1. ValueOrAbsent(x) = Ok(e)
        BY <1>4, <2>2 DEF ReadExact, ValueOrAbsent, Ok
      <3>2. e \in Word(n)
        BY <2>2 DEF Word
      <3> QED  BY <1>2, <3>1, <3>2 DEF Ok
    <2> QED  BY <2>1, <2>2
  <1> QED  BY <1>1, <1>3, <1>4

LEMMA BigEndianCurrent ==
  ASSUME NEW e \in Seq(Byte), NEW fault \in BOOLEAN,
         ValueOrAbsent(StateU64(e, fault)).tag \in {"ok", "none"}
  PROVE  ValueOrAbsent(StateU64(e, fault)).val \in Word(Wide) \cup {<< >>}
  <1> DEFINE w == Extend(Reverse(e), Wide)
             h == StateU64(e, fault)
  <1>1. h = Ok(w) \/ (h.tag \in {"InternalError", "DoesntExist", "TooBig"} /\ h.val = << >>)
    BY DEF StateU64, HostInt64, Err
  <1>2. w \in Word(Wide)
    <2>1. Wide \in Nat /\ Len(e) \in Nat /\ 0 \in Byte
      BY StateParameters, WidthSizes DEF StateParameters, Widths, Byte
    <2>2. e \in Word(Len(e))
      BY DEF Word
    <2> DEFINE r == Reverse(e)
    <2>3. r \in Seq(Byte)
      BY <2>1, <2>2, ReversedWord
    <2> HIDE DEF r
    <2>4. Len(r) \in Nat /\ \A i \in 1 .. Len(r) : r[i] \in Byte
      BY <2>3
    <2>5. \A i \in 1 .. Wide : (IF i <= Len(r) THEN r[i] ELSE 0) \in Byte
      BY <2>1, <2>4
    <2>6. w = [i \in 1 .. Wide |-> IF i <= Len(r) THEN r[i] ELSE 0]
      BY DEF Extend, r
    <2> HIDE DEF w
    <2> QED  BY <2>5, <2>6 DEF Word
  <1> HIDE DEF w, h
  <1>3. CASE h = Ok(w)
    BY <1>2, <1>3 DEF ValueOrAbsent, Ok, h
  <1>4. CASE h.tag \in {"InternalError", "DoesntExist", "TooBig"} /\ h.val = << >>
    BY <1>4 DEF ValueOrAbsent, None, Err, h
  <1> QED  BY <1>1, <1>3, <1>4

LEMMA UpdateKeepsLittle ==
  ASSUME Separate, LittleInv, NEW s \in Spaces, NEW k \in Keys, NEW n \in Widths,
         NEW f \in Closures[n], NEW current,
         NEW family \in {"loose", "exact", "u64"},
         current.tag \in {"ok", "none"} => current.val \in Word(n) \cup {<< >>},
         Update(s, k, current, f, family)
  PROVE  LittleInv'
  <1>1. CASE current.tag \notin {"ok", "none"}
    BY <1>1, ReadKeepsLittle DEF Update
  <1>2. CASE current.tag \in {"ok", "none"}
    <2> DEFINE next == f[current.val]
    <2>1. f \in [Word(n) \cup {<< >>} -> Word(n)]
      BY StateParameters DEF StateParameters
    <2>2. next \in Word(n)
      BY <1>2, <2>1
    <2> HIDE DEF next
    <2>3. next \in Little /\ next \in Seq(Byte) /\ Typed(next) = next
      BY <2>2, WordIsLittle, TypedIsWord
    <2>4. Reverse(next) \in Seq(Byte) /\ << >> \in Little
      BY <2>2, WidthSizes, ReversedWord, EmptyIsLittle
    <2>5. \/ HostSet(s, k, next, next, Ok(<< >>))
          \/ HostSet(s, k, next, next, Ok(next))
          \/ HostSet(s, k, Reverse(next), << >>, Ok(next))
      BY <1>2, <2>3 DEF Update, next
    <2> QED  BY <2>3, <2>4, <2>5, HostSetKeepsLittle
  <1> QED  BY <1>1, <1>2

LEMMA EntryType == ASSUME LittleInv PROVE \A s \in Spaces, k \in Keys : Entry(s, k) \in Seq(Byte)
  BY SlotType DEF LittleInv, Entry

LEMMA EveryCallKeepsLittle ==
  ASSUME Separate, LittleInv, Next
  PROVE  LittleInv'
  <1>0. Narrow \in Widths /\ Wide \in Widths /\ Paired \in Widths /\ Own \in Spaces /\ << >> \in Little
    BY Sizes, EmptyIsLittle DEF Widths
  <1>1. ASSUME NEW s \in Spaces, NEW k \in Keys, NEW n, GetLoose(s, k, n)
        PROVE  LittleInv'
    BY <1>1, ReadKeepsLittle DEF GetLoose
  <1>2. ASSUME NEW s \in Spaces, NEW k \in Keys, NEW n \in Widths, NEW v \in Word(n), SetLoose(s, k, v)
        PROVE  LittleInv'
    BY <1>2, HostSetKeepsLittle, WordIsLittle, TypedIsWord DEF SetLoose
  <1>3. ASSUME NEW s \in Spaces, NEW k \in Keys, NEW n \in Widths, NEW f \in Closures[n],
               UpdateLoose(s, k, n, f)
        PROVE  LittleInv'
    <2>1. PICK fault \in BOOLEAN : Update(s, k, StateGet(Entry(s, k), n, fault), f, "loose")
      BY <1>3 DEF UpdateLoose
    <2> DEFINE current == StateGet(Entry(s, k), n, fault)
    <2>2. current.tag \in {"ok", "none"} => current.val \in Word(n) \cup {<< >>}
      BY EntryType, LooseCurrent
    <2> HIDE DEF current
    <2> QED  BY <2>1, <2>2, UpdateKeepsLittle DEF current
  <1>4. ASSUME NEW s \in Spaces, NEW k \in Keys, GetU64(s, k) \/ GetForeignU64le(s, k)
        PROVE  LittleInv'
    BY <1>4, ReadKeepsLittle DEF GetU64, GetForeignU64le
  <1>5. ASSUME NEW s \in Spaces, NEW k \in Keys, NEW data \in RawData, SetRaw(s, k, data)
        PROVE  LittleInv'
    <2>1. data \in Seq(Byte)
      BY StateParameters DEF StateParameters
    <2> QED  BY <1>0, <1>5, <2>1, HostSetKeepsLittle DEF SetRaw
  <1>6. ASSUME NEW k \in Keys, Delete(k)
        PROVE  LittleInv'
    <2>1. << >> \in Seq(Byte)
      OBVIOUS
    <2> QED  BY <1>0, <1>6, <2>1, HostSetKeepsLittle DEF Delete
  <1>7. ASSUME NEW k \in Keys, NEW n, GetExact(k, n)
        PROVE  LittleInv'
    BY <1>7, ReadKeepsLittle DEF GetExact
  <1>8. ASSUME NEW k \in Keys, NEW n \in Widths, NEW v \in Word(n), SetExact(k, v)
        PROVE  LittleInv'
    BY <1>0, <1>8, HostSetKeepsLittle, WordIsLittle DEF SetExact
  <1>9. ASSUME NEW k \in Keys, NEW n \in Widths, NEW f \in Closures[n], UpdateExact(k, n, f)
        PROVE  LittleInv'
    <2>1. PICK fault \in BOOLEAN :
            Update(Own, k, ValueOrAbsent(StateExact(Entry(Own, k), n, fault)), f, "exact")
      BY <1>9 DEF UpdateExact
    <2> DEFINE current == ValueOrAbsent(StateExact(Entry(Own, k), n, fault))
    <2>2. current.tag \in {"ok", "none"} => current.val \in Word(n) \cup {<< >>}
      BY <1>0, EntryType, ExactCurrent
    <2> HIDE DEF current
    <2> QED  BY <1>0, <2>1, <2>2, UpdateKeepsLittle DEF current
  <1>10. ASSUME NEW k \in Keys, NEW f \in Closures[Wide], UpdateU64(k, f)
         PROVE  LittleInv'
    <2>1. PICK fault \in BOOLEAN :
            Update(Own, k, ValueOrAbsent(StateU64(Entry(Own, k), fault)), f, "u64")
      BY <1>10 DEF UpdateU64
    <2> DEFINE current == ValueOrAbsent(StateU64(Entry(Own, k), fault))
    <2>2. current.tag \in {"ok", "none"} => current.val \in Word(Wide) \cup {<< >>}
      BY <1>0, EntryType, BigEndianCurrent
    <2> HIDE DEF current
    <2> QED  BY <1>0, <2>1, <2>2, UpdateKeepsLittle DEF current
  <1>11. CASE MixedNext
    BY <1>0, <1>1, <1>2, <1>3, <1>4, <1>5, <1>6, <1>7, <1>8, <1>9, <1>10, <1>11 DEF MixedNext
  <1>12. CASE TypedNext
    BY <1>0, <1>1, <1>2, <1>3, <1>6, <1>12 DEF TypedNext
  <1> QED  BY <1>11, <1>12 DEF Next

LEMMA ReadBack ==
  ASSUME NEW n \in Widths, NEW w \in Word(n)
  PROVE  StateGet(w, n, FALSE) = Ok(w) /\ StateExact(w, n, FALSE) = Ok(w)
  <1>1. w \in Seq(Byte) /\ Len(w) = n /\ w # << >> /\ n \in Nat /\ n <= MaxTyped /\ MaxTyped \in Nat
    BY WordIsLittle, WidthSizes, Sizes
  <1>2. HostState(w, MaxTyped, FALSE) = Ok(w) /\ HostState(w, n, FALSE) = Ok(w)
    BY <1>1 DEF HostState
  <1>3. SubSeq(w, 1, n) = w
    BY <1>1
  <1>4. DecodeRead(Ok(w), n) = Ok(SubSeq(w, 1, n))
    BY <1>1 DEF DecodeRead, Ok
  <1>5. ReadExact(Ok(w), n) = Ok(w)
    BY <1>1 DEF ReadExact, Ok
  <1> QED  BY <1>2, <1>3, <1>4, <1>5 DEF StateGet, StateExact

\* With the shortest variant first: what one little-endian function wrote, every
\* other of its width reads back, through whatever reads, failed calls and
\* writes to other keys come in between (api/state.rs, state.rs).
THEOREM LittleEndianWordsReadBack ==
  ASSUME Separate
  PROVE  Spec => []LittleEndianReadsBack
  <1>1. Init => LittleInv
    <2> SUFFICES ASSUME Init  PROVE LittleInv
      OBVIOUS
    <2>1. << >> \in Seq(Byte) /\ << >> \in Little
      BY EmptyIsLittle
    <2> QED  BY <2>1 DEF Init, LittleInv
  <1>2. LittleInv /\ [Next]_vars => LittleInv'
    <2>1. LittleInv /\ UNCHANGED vars => LittleInv'
      BY DEF vars, LittleInv, Entry
    <2> QED  BY <2>1, EveryCallKeepsLittle
  <1>3. LittleInv => LittleEndianReadsBack
    <2> SUFFICES ASSUME LittleInv, NEW s \in Spaces, NEW k \in Keys, wrote[s][k] # << >>
                 PROVE  /\ StateGet(Entry(s, k), Len(wrote[s][k]), FALSE) = Ok(wrote[s][k])
                        /\ StateExact(Entry(s, k), Len(wrote[s][k]), FALSE) = Ok(wrote[s][k])
      BY DEF LittleEndianReadsBack
    <2> DEFINE w == wrote[s][k]
    <2>1. Entry(s, k) = w
      BY DEF LittleInv
    <2>2. w \in Little /\ w # << >>
      BY DEF LittleInv
    <2> HIDE DEF w
    <2>3. PICK n \in Widths : w \in Word(n)
      BY <2>2, LittleWord
    <2>4. Len(w) = n
      BY <2>3, WordIsLittle
    <2> QED  BY <2>1, <2>3, <2>4, ReadBack DEF w
  <1> QED  BY <1>1, <1>2, <1>3, PTL DEF Spec

-----------------------------------------------------------------------------
(* Updates *)

LEMMA LooseRefuses ==
  ASSUME NEW s \in Spaces, NEW k \in Keys, NEW n, NEW f,
         Entry(s, k) # << >>, StateGet(Entry(s, k), n, FALSE).tag # "ok",
         UpdateLoose(s, k, n, f)
  PROVE  store' = store
  <1> DEFINE e == Entry(s, k)
  <1>1. PICK fault \in BOOLEAN : Update(s, k, StateGet(e, n, fault), f, "loose")
    BY DEF UpdateLoose
  <1>2. ASSUME NEW h, h = Ok(e) \/ h.tag \in {"InternalError", "TooSmall"}
        PROVE  DecodeRead(h, n).tag \in {"ok", "InternalError", "TooSmall"}
    BY <1>2 DEF DecodeRead, Ok, Err
  <1>3. ASSUME NEW g \in BOOLEAN
        PROVE  HostState(e, MaxTyped, g) = Ok(e)
               \/ HostState(e, MaxTyped, g).tag \in {"InternalError", "TooSmall"}
    BY <1>3 DEF HostState, Err
  <1>4. StateGet(e, n, fault).tag \in {"ok", "InternalError", "TooSmall"}
    BY <1>2, <1>3 DEF StateGet
  <1>5. StateGet(e, n, fault).tag # "ok"
    <2>1. CASE fault
      <3>1. HostState(e, MaxTyped, fault) = Err("InternalError")
        BY <2>1 DEF HostState
      <3> QED  BY <3>1 DEF StateGet, DecodeRead, Err
    <2>2. CASE ~fault
      <3>1. fault = FALSE
        BY <2>2
      <3> QED  BY <3>1
    <2> QED  BY <2>1, <2>2
  <1>6. StateGet(e, n, fault).tag \notin {"ok", "none"}
    BY <1>4, <1>5
  <1> QED  BY <1>1, <1>6 DEF Update, Read

LEMMA ExactRefuses ==
  ASSUME NEW k \in Keys, NEW n, NEW f, Entry(Own, k) # << >>, Len(Entry(Own, k)) # n,
         UpdateExact(k, n, f)
  PROVE  store' = store
  <1> DEFINE e == Entry(Own, k)
  <1>1. PICK fault \in BOOLEAN : Update(Own, k, ValueOrAbsent(StateExact(e, n, fault)), f, "exact")
    BY DEF UpdateExact
  <1> DEFINE h == HostState(e, n, fault)
             x == ReadExact(h, n)
  <1>2. h = Ok(e) \/ h.tag \in {"InternalError", "TooSmall"}
    BY DEF HostState, Err
  <1> HIDE DEF h
  <1>3. x.tag \in {"InternalError", "TooSmall"}
    BY <1>2 DEF ReadExact, Ok, Err
  <1>4. StateExact(e, n, fault) = x
    BY DEF StateExact, h
  <1> HIDE DEF x
  <1>5. ValueOrAbsent(StateExact(e, n, fault)).tag \in {"InternalError", "TooSmall"}
    BY <1>3, <1>4 DEF ValueOrAbsent
  <1> QED  BY <1>1, <1>5 DEF Update, Read

LEMMA BigEndianRefuses ==
  ASSUME NEW k \in Keys, NEW f, Entry(Own, k) # << >>, StateU64(Entry(Own, k), FALSE).tag # "ok",
         UpdateU64(k, f)
  PROVE  store' = store
  <1> DEFINE e == Entry(Own, k)
  <1>1. PICK fault \in BOOLEAN : Update(Own, k, ValueOrAbsent(StateU64(e, fault)), f, "u64")
    BY DEF UpdateU64
  <1> DEFINE x == StateU64(e, fault)
  <1>2. x.tag \in {"InternalError", "TooBig"}
    BY DEF StateU64, HostInt64, Ok, Err
  <1> HIDE DEF x
  <1>3. ValueOrAbsent(x).tag \in {"InternalError", "TooBig"}
    BY <1>2 DEF ValueOrAbsent
  <1> QED  BY <1>1, <1>3 DEF Update, Read, x

\* An update of any family, in any space it can name, never replaces an entry
\* it could not read, whatever the entry, the widths, the function and the
\* answers of the host (state.rs, state_update and its foreign companion;
\* api/state.rs, state_update_u64 and its companions).
THEOREM NoUpdateClobbers == Spec => UpdatesNeverClobber
  <1>1. [Next]_vars =>
          [\A s \in Spaces, k \in Keys :
             LET e == Entry(s, k) IN
               e # << >> /\ Entry(s, k)' # e =>
                 /\ \A n \in Widths :
                      StateGet(e, n, FALSE).tag # "ok" =>
                        \A f \in Closures[n] : ~UpdateLoose(s, k, n, f)
                 /\ s = Own =>
                      /\ \A n \in {Narrow, Wide} :
                           Len(e) # n => \A f \in Closures[n] : ~UpdateExact(k, n, f)
                      /\ StateU64(e, FALSE).tag # "ok" =>
                           \A f \in Closures[Wide] : ~UpdateU64(k, f)]_store
    <2> SUFFICES ASSUME NEW s \in Spaces, NEW k \in Keys,
                        Entry(s, k) # << >>, Entry(s, k)' # Entry(s, k), store' # store
                 PROVE  /\ \A n \in Widths :
                             StateGet(Entry(s, k), n, FALSE).tag # "ok" =>
                               \A f \in Closures[n] : ~UpdateLoose(s, k, n, f)
                        /\ s = Own =>
                             /\ \A n \in {Narrow, Wide} :
                                  Len(Entry(s, k)) # n =>
                                    \A f \in Closures[n] : ~UpdateExact(k, n, f)
                             /\ StateU64(Entry(s, k), FALSE).tag # "ok" =>
                                  \A f \in Closures[Wide] : ~UpdateU64(k, f)
      OBVIOUS
    <2>1. \A n \in Widths :
            StateGet(Entry(s, k), n, FALSE).tag # "ok" =>
              \A f \in Closures[n] : ~UpdateLoose(s, k, n, f)
      BY LooseRefuses
    <2>2. ASSUME s = Own
          PROVE  \A n \in {Narrow, Wide} :
                   Len(Entry(s, k)) # n => \A f \in Closures[n] : ~UpdateExact(k, n, f)
      BY <2>2, ExactRefuses
    <2>3. ASSUME s = Own, StateU64(Entry(s, k), FALSE).tag # "ok"
          PROVE  \A f \in Closures[Wide] : ~UpdateU64(k, f)
      BY <2>3, BigEndianRefuses
    <2> QED  BY <2>1, <2>2, <2>3
  <1> QED  BY <1>1, PTL DEF Spec, UpdatesNeverClobber
=============================================================================
