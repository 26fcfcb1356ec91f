----------------------------- MODULE TxnTemplate -----------------------------
(***************************************************************************)
(* txn_template! and prepare_for_emit (crates/rshooks/src/txn.rs): the     *)
(* byte layout a declaration compiles to, its setters, the filling of the  *)
(* fields every emitted transaction needs, with every host call free to    *)
(* fail half-way, and emission through a Prepared handle.                  *)
(*                                                                         *)
(* Bytes are numbers below 256 and headers are the protocol's; only the    *)
(* widths of the payloads are parameters.  Offsets count from 0.           *)
(***************************************************************************)
EXTENDS StObject, SequencesExt

CONSTANTS
  Decls,      \* the declarations given to the macro
  MaxDrops,   \* the first amount that is refused
  U32s, Drops, Accounts,       \* what the program passes to the setters
  HookAccount, LedgerSeq,      \* what the host answers
  MaxHeld     \* bound: Prepared handles nested in one another

EmitDetailsMaxLen == 4

Required ==
  { [code |-> sfSequence, kind |-> "u32_field"],
    [code |-> sfFirstLedgerSequence, kind |-> "u32_field"],
    [code |-> sfLastLedgerSequence, kind |-> "u32_field"],
    [code |-> sfFee, kind |-> "native_amount"],
    [code |-> sfSigningPubKey, kind |-> "empty_vl"],
    [code |-> sfAccount, kind |-> "account_id"] }

\* The fields prepare_for_emit writes.
Plumbing == {sfFirstLedgerSequence, sfLastLedgerSequence, sfAccount, sfFee}

VARIABLES
  decl,    \* the declaration: fields in order, EmitDetails last
  cbak,    \* the module exports cbak, which lengthens EmitDetails
  bytes,   \* the template
  held,    \* lengths kept by the live Prepared handles, innermost last
  value,   \* per field, what was last put in it
  own,     \* plumbing fields set by the program since the last prepare
  nonce    \* host: 1 or 2, alternating between calls of etxn_details

vars == <<decl, cbak, bytes, held, value, own, nonce>>

-----------------------------------------------------------------------------
(* Encoding *)

\* What stands between a header and the bytes a setter writes, and those.
Prefix(kind) == IF kind = "account_id" THEN <<AccLen>> ELSE IF kind = "empty_vl" THEN <<0>> ELSE << >>
Default(f) ==
  CASE f.kind = "u32_field"     -> BigEndian(f.default, U32Len)
    [] f.kind = "native_amount" -> NativeAmount(f.default)
    [] f.kind = "account_id"    -> [i \in 1 .. AccLen |-> 0]
    [] f.kind = "empty_vl"      -> << >>

-----------------------------------------------------------------------------
(* Layout *)

FieldSize(f) == Len(FieldHeader(f.code)) + Len(Prefix(f.kind)) + Len(Default(f))

\* Offset of each field, and of EmitDetails after the last.
Starts(d) ==
  LET start[i \in 1 .. Len(d) + 1] ==
        IF i = 1 THEN Len(FieldHeader(sfTransactionType)) + 2
        ELSE start[i - 1] + FieldSize(d[i - 1])
  IN  start
DetailsOffset(d) == Starts(d)[Len(d) + 1]
TemplateLen(d) == DetailsOffset(d) + EmitDetailsMaxLen

\* FIELDS: where the payload of a field is.
Payload(d, i) == Starts(d)[i] + Len(FieldHeader(d[i].code)) + Len(Prefix(d[i].kind))
IndexOf(d, code) == CHOOSE i \in DOMAIN d : d[i].code = code

Write(buf, offset, src) ==
  [i \in DOMAIN buf |-> IF offset < i /\ i <= offset + Len(src) THEN src[i - offset] ELSE buf[i]]

\* new(): zeros, the transaction type, then every header and default.
New(d) ==
  LET zeros == [i \in 1 .. TemplateLen(d) |-> 0]
      typed == Write(zeros, 0, FieldHeader(sfTransactionType) \o BigEndian(95, 2))
      baked[i \in 0 .. Len(d)] ==
        IF i = 0 THEN typed
        ELSE Write(baked[i - 1], Starts(d)[i],
                   FieldHeader(d[i].code) \o Prefix(d[i].kind) \o Default(d[i]))
  IN  baked[Len(d)]

Before(c, d) == c[1] < d[1] \/ (c[1] = d[1] /\ c[2] < d[2])

MutCompiles(d) ==  \* mutant: no kind agreement
  /\ \A i \in 1 .. Len(d) : Before(IF i = 1 THEN sfTransactionType ELSE d[i - 1].code, d[i].code)
  /\ \A r \in Required : \E i \in DOMAIN d : d[i].code = r.code
  /\ \A i \in DOMAIN d : d[i].kind = "native_amount" => d[i].default < MaxDrops

\* The order check, the range of defaults, and the presence and kind checks.
Compiles(d) ==
  /\ \A i \in 1 .. Len(d) : Before(IF i = 1 THEN sfTransactionType ELSE d[i - 1].code, d[i].code)
  /\ \A r \in Required :
       /\ \E i \in DOMAIN d : d[i].code = r.code
       /\ \A i \in DOMAIN d : d[i].code = r.code => d[i].kind = r.kind
  /\ \A i \in DOMAIN d : d[i].kind = "native_amount" => d[i].default < MaxDrops

-----------------------------------------------------------------------------
(* The program *)

Init ==
  /\ decl \in {d \in Decls : Compiles(d)}
  /\ cbak \in BOOLEAN
  /\ bytes = New(decl)
  /\ held = << >>
  /\ value = [i \in DOMAIN decl |-> Default(decl[i])]
  /\ own = {}
  /\ nonce = 1

\* A setter, on the template or through DerefMut of a Prepared. DerefMut also
\* lets a program assign a whole new template; that is left out.
Put(i, v) ==
  /\ bytes' = Write(bytes, Payload(decl, i), v)
  /\ value' = [value EXCEPT ![i] = v]
  /\ own' = own \cup ({decl[i].code} \cap Plumbing)
  /\ UNCHANGED <<decl, cbak, held, nonce>>

Set ==
  \E i \in DOMAIN decl :
    CASE decl[i].kind = "u32_field"     -> \E v \in U32s : Put(i, BigEndian(v, U32Len))
      [] decl[i].kind = "native_amount" -> \E v \in Drops : v < MaxDrops /\ Put(i, NativeAmount(v))
      [] decl[i].kind = "account_id"    -> \E a \in Accounts : Put(i, a)
      [] decl[i].kind = "empty_vl"      -> FALSE

\* What etxn_details writes: an object with a nonce and, with a callback, one
\* field more.
Details(n) == IF cbak THEN <<237, n, 99, 225>> ELSE <<237, n, 225>>

\* What etxn_fee_base asks for a blob of n bytes.
FeeBase(n) == 2 * n

TotalLen(d, edlen) == DetailsOffset(d) + edlen

MutSized(d, len) == TemplateLen(d)  \* mutant: the fee is asked for the whole template
Sized(d, len) == len

\* prepare_for_emit: FirstLedgerSequence, LastLedgerSequence, Account,
\* EmitDetails, Fee, in this order; fails says which host call fails, or that
\* the fee is out of range, and what was written before stays written.
Prepare(fails) ==
  LET at(code)  == Payload(decl, IndexOf(decl, code))
      fls   == BigEndian(LedgerSeq + 1, U32Len)
      lls   == BigEndian(LedgerSeq + 5, U32Len)
      total == TotalLen(decl, Len(Details(nonce)))
      fee   == NativeAmount(FeeBase(Sized(decl, total)))
      b1 == Write(Write(bytes, at(sfFirstLedgerSequence), fls), at(sfLastLedgerSequence), lls)
      b2 == Write(b1, at(sfAccount), HookAccount)
      b3 == Write(b2, DetailsOffset(decl), Details(nonce))
      b4 == Write(b3, at(sfFee), fee)
      reached == CASE fails = "hook_account" -> 1 [] fails = "etxn_details" -> 2
                   [] fails = "etxn_fee_base" -> 3 [] fails = "no" -> 4
      put(i) == CASE decl[i].code = sfFirstLedgerSequence -> fls
                  [] decl[i].code = sfLastLedgerSequence  -> lls
                  [] decl[i].code = sfAccount /\ reached > 1 -> HookAccount
                  [] decl[i].code = sfFee /\ reached > 3     -> fee
                  [] OTHER -> value[i]
  IN  /\ bytes' = <<b1, b2, b3, b4>>[reached]
      /\ value' = [i \in DOMAIN decl |-> put(i)]
      /\ own' = own \ {c \in Plumbing : \/ c \in {sfFirstLedgerSequence, sfLastLedgerSequence}
                                        \/ c = sfAccount /\ reached > 1
                                        \/ c = sfFee /\ reached > 3}
      /\ nonce' = IF reached > 2 THEN 3 - nonce ELSE nonce
      /\ IF fails = "no" THEN Len(held) < MaxHeld /\ held' = Append(held, total)
                         ELSE UNCHANGED held
      /\ UNCHANGED <<decl, cbak>>

\* The innermost handle goes out of scope.
Drop ==
  /\ held # << >>
  /\ held' = Front(held)
  /\ UNCHANGED <<decl, cbak, bytes, value, own, nonce>>

Next ==
  \/ Set
  \/ \E fails \in {"hook_account", "etxn_details", "etxn_fee_base", "no"} : Prepare(fails)
  \/ Drop

Spec == Init /\ [][Next]_vars

\* as_bytes and emit of the innermost handle.
Blob == SubSeq(bytes, 1, Last(held))

-----------------------------------------------------------------------------
(* How the protocol reads a blob *)

\* Bytes before a value of this type and the length of the value.
Extent(type, rest) ==
  CASE type = 1 -> <<0, 2>>
    [] type = 2 -> <<0, U32Len>>
    [] type = 6 -> <<0, AmountLen>>
    [] type \in {7, 8} /\ rest # << >> -> <<1, rest[1]>>
    [] type = 14 /\ 225 \in ToSet(rest) -> <<0, SelectInSeq(rest, LAMBDA x : x = 225)>>
    [] OTHER -> <<0, Len(rest) + 1>>

RECURSIVE Decode(_)
Decode(b) ==
  IF b = << >> THEN << >>
  ELSE IF Len(b) < 3 THEN <<Malformed>>
  ELSE LET head == ReadCode(b)
           rest == SubSeq(b, head.len + 1, Len(b))
           span == Extent(head.code[1], rest)
           end  == span[1] + span[2]
       IN  IF end > Len(rest) THEN <<Malformed>>
           ELSE <<[code |-> head.code, value |-> SubSeq(rest, span[1] + 1, end)]>>
                  \o Decode(SubSeq(rest, end + 1, Len(rest)))

-----------------------------------------------------------------------------
(* Properties *)

\* Whatever was declared, set, prepared and half prepared: what a Prepared
\* emits is, read by the protocol, the declared fields in order, each with the
\* value last put in it, and one complete EmitDetails, with nothing after.
BlobDecodes ==
  held # << >> =>
    LET fields == Decode(Blob)
        n == Len(decl)
    IN  /\ Len(fields) = n + 2
        /\ fields[1] = [code |-> sfTransactionType, value |-> BigEndian(95, 2)]
        /\ \A i \in 1 .. n : fields[i + 1] = [code |-> decl[i].code, value |-> value[i]]
        /\ fields[n + 2].code = <<14, 13>>

\* A live Prepared has the host's account, the ledger window and the fee of
\* the very blob it emits, except in the fields the program set itself after
\* preparing; a prepare that failed since does not change that.
EmitReady ==
  held # << >> =>
    LET fields == Decode(Blob)
        At(code) == CHOOSE v \in {fields[i].value : i \in {j \in DOMAIN fields : fields[j].code = code}} : TRUE
    IN  /\ sfFirstLedgerSequence \notin own => At(sfFirstLedgerSequence) = BigEndian(LedgerSeq + 1, U32Len)
        /\ sfLastLedgerSequence \notin own => At(sfLastLedgerSequence) = BigEndian(LedgerSeq + 5, U32Len)
        /\ sfAccount \notin own => At(sfAccount) = HookAccount
        /\ sfFee \notin own => At(sfFee) = NativeAmount(FeeBase(Len(Blob)))
=============================================================================
