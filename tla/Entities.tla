------------------------------ MODULE Entities -------------------------------
(***************************************************************************)
(* What a declaration or a derived struct read by Declarations becomes:    *)
(* the items it expands to (decl_pair.rs from `generate` on, hook_key.rs,  *)
(* hook_data.rs, param_name.rs, param_value.rs), whether they compile, the *)
(* bytes that address an entry, and hook_param_typed and otxn_param_typed  *)
(* (convert.rs, api/hook_ctx.rs, api/otxn.rs).                             *)
(*                                                                         *)
(* A value of a caller's type is its bytes, or for a scalar (an integer or *)
(* an XFL) its bits as a number; one of a declared struct is the sequence  *)
(* of its fields.                                                          *)
(***************************************************************************)
EXTENDS Declarations

-----------------------------------------------------------------------------
(* Items *)

LexedFields(fields) == [i \in DOMAIN fields |-> [fields[i] EXCEPT !.ty = Lexed(@)]]

Struct(vis, name, fields) ==
  [item |-> "struct", vis |-> vis, for |-> name, trait |-> "", value |-> <<>>,
   how |-> "fields", what |-> fields]
Impl(trait, for, value, how, what) ==
  [item |-> "impl", vis |-> <<>>, for |-> for, trait |-> trait, value |-> value,
   how |-> how, what |-> what]
Const(vis, name, init) ==
  [item |-> "const", vis |-> vis, for |-> name, trait |-> "", value |-> <<>>,
   how |-> "init", what |-> init]

Tuple(ty) == <<[name |-> "0", ty |-> ty]>>

\* A length that param_name_length_assert checks where it stands, and one
\* that state_key_encode_impl checks where the key is encoded.
LengthAssert(name) == Impl("length", name, <<>>, "self", <<>>)
StateKeyEncode(name) == Impl("StateKeyEncode", name, <<>>, "self", <<>>)

KeyStruct(name, fields, role) ==
  <<Impl("ToBytes", name, <<>>, "fields", fields),
    IF IsParam(role) THEN LengthAssert(name) ELSE StateKeyEncode(name)>>

ValueStruct(name, fields, role) ==
  [i \in 1..(IF IsParam(role) THEN 2 ELSE 3) |->
    Impl(<<"FromBytes", "FixedRead", "ToBytes">>[i], name, <<>>, "fields", fields)]

Pairing(key, value, role) ==
  IF IsParam(role)
  THEN <<LengthAssert(key), Impl("TypedParamName", key, value, "self", <<>>)>>
  ELSE <<Impl("TypedStateKey", key, value, "self", <<>>)>>

FixedBytes(name, bytes, value, role) ==
  <<Impl("ToBytes", name, <<>>, "bytes", bytes)>>
  \o IF IsParam(role)
     THEN <<LengthAssert(name), Impl("TypedParamName", name, value, "bytes", bytes)>>
     ELSE <<StateKeyEncode(name)>> \o Pairing(name, value, role)

PairingEntity(entity, key, value, role) ==
  IF IsParam(role)
  THEN <<Impl("ToBytes", entity, <<>>, "forward", key), LengthAssert(entity),
         Impl("TypedParamName", entity, value, "forward", key)>>
  ELSE <<Impl("StateKeyEncode", entity, <<>>, "forward", key)>> \o Pairing(entity, value, role)

\* The inherent accessors, with the bytes for get_name where there is one.
Accessors(entity, value, role, bytes) ==
  <<Impl(role, entity, value, IF bytes = <<>> THEN "self" ELSE "bytes", bytes)>>

Fielded(name, fields, value, role, vis) ==
  <<Struct(vis, name, fields)>> \o KeyStruct(name, fields, role) \o Pairing(name, value, role)

KeyItems(d, role, entity, value) ==
  LET key == Lexed(d.key.name)
      of  == Lexed(d.key.of) IN
  CASE d.key.form = "pairing" ->
         Pairing(key, value, role) \o <<Struct(d.vis, entity, Tuple(key))>>
         \o PairingEntity(entity, key, value, role)
    [] d.key.form \in {"existing", "fixed"} ->
         (IF d.key.form = "fixed" THEN <<Struct(d.vis, key, <<>>)>> ELSE <<>>)
         \o FixedBytes(key, of, value, role)
         \o <<Struct(d.vis, entity, <<>>)>> \o FixedBytes(entity, of, value, role)
    [] d.key.form = "struct" ->
         LET f == LexedFields(d.key.of) IN
         Fielded(key, f, value, role, d.vis) \o Fielded(entity, f, value, role, d.vis)
         \o [i \in DOMAIN d.key.init |-> Const(d.vis, entity, Lexed(d.key.init[i]))]
    [] OTHER ->
         Fielded(key, Tuple(of), value, role, d.vis)
         \o Fielded(entity, Tuple(of), value, role, d.vis)

\* generate: the value first, then key and entity, then the accessors.
Items(d, role) ==
  LET entity == <<Ident(d.entity)>>
      value  == Lexed(d.value.name)
      f      == LexedFields(d.value.of) IN
  (IF d.value.form = "inline"
   THEN <<Struct(d.vis, value, f)>> \o ValueStruct(value, f, role) ELSE <<>>)
  \o KeyItems(d, role, entity, value)
  \o Accessors(entity, value, role,
       IF IsParam(role) /\ d.key.form \in {"existing", "fixed"} THEN Lexed(d.key.of) ELSE <<>>)

Generate ==
  /\ step = "generate"
  /\ out' = Items(parsed, call.macro)
  /\ step' = "rustc"
  /\ UNCHANGED <<call, at, parsed>>

\* The struct stays as the compiler read it; the derive adds its impls.
Derive ==
  /\ step = "derive"
  /\ LET name   == Lexed(parsed.value.name)
         fields == LexedFields(parsed.value.of)
         role   == IF call.macro \in {"HookKey", "HookData"} THEN "hook_state!" ELSE "hook_parameter!" IN
     out' = <<Struct(<<>>, name, LexedFields(call.meant.value.of))>>
            \o IF call.macro \in {"HookKey", "ParamName"} THEN KeyStruct(name, fields, role)
               ELSE ValueStruct(name, fields, role)
  /\ step' = "rustc"
  /\ UNCHANGED <<call, at, parsed>>

-----------------------------------------------------------------------------
(* The compiler, as far as the expansion relies on it *)

ImplsOf(items, trait, ty) ==
  {i \in DOMAIN items : items[i].trait = trait /\ items[i].for = ty}
TheImpl(items, trait, ty) == items[CHOOSE i \in ImplsOf(items, trait, ty) : TRUE]

Has(items, ty, trait) ==
  \/ ImplsOf(items, trait, ty) # {}
  \/ ty \in DOMAIN Owned /\ trait \in Owned[ty].traits

Known(items, ty) ==
  ty \in DOMAIN Owned \/ \E i \in DOMAIN items : items[i].item = "struct" /\ items[i].for = ty

\* ToBytes::MAX_LEN, and the chain of constants __OFF_0, __OFF_1, ...
RECURSIVE MaxLen(_, _)
RECURSIVE Offset(_, _, _)
MaxLen(items, ty) ==
  IF ImplsOf(items, "ToBytes", ty) = {} THEN Owned[ty].len
  ELSE LET impl == TheImpl(items, "ToBytes", ty) IN
    CASE impl.how = "bytes"   -> Len(BytesOf[impl.what])
      [] impl.how = "forward" -> MaxLen(items, impl.what)
      [] OTHER -> Offset(items, impl.what, Len(impl.what) + 1)
Offset(items, fields, i) ==
  IF i = 1 THEN 0 ELSE Offset(items, fields, i - 1) + MaxLen(items, fields[i - 1].ty)

LengthOk(items, ty) == MaxLen(items, ty) \in 1..MaxName

FieldsHave(items, fields, traits) ==
  \A i \in DOMAIN fields, t \in traits : Has(items, fields[i].ty, t)

Checked(items, i) ==
  LET x == items[i] IN
  CASE x.item = "struct" ->
         /\ x.for \in DOMAIN Owned => ~Owned[x.for].named
         /\ \A j \in DOMAIN x.what : Known(items, x.what[j].ty)
         /\ \A j, k \in DOMAIN x.what : x.what[j].name = x.what[k].name => j = k
    [] x.item = "const" -> x.what \in DOMAIN ValuesOf
    [] x.trait = "ToBytes" ->
         CASE x.how = "bytes"   -> x.what \in DOMAIN BytesOf
           [] x.how = "forward" -> Has(items, x.what, "ToBytes")
           [] OTHER -> FieldsHave(items, x.what, {"ToBytes"})
    [] x.trait \in {"FromBytes", "FixedRead"} ->
         FieldsHave(items, x.what, {"ToBytes", "FromBytes"})
    [] x.trait = "StateKeyEncode" ->
         IF x.how = "forward" THEN Has(items, x.what, "StateKeyEncode")
         ELSE Has(items, x.for, "ToBytes") /\ LengthOk(items, x.for)
    [] x.trait = "length" -> Has(items, x.for, "ToBytes") /\ LengthOk(items, x.for)
    [] x.trait = "TypedStateKey" ->
         /\ Has(items, x.for, "StateKeyEncode")
         /\ Has(items, x.value, "ToBytes") /\ Has(items, x.value, "FromBytes")
    [] x.trait = "TypedParamName" ->
         Has(items, x.for, "ToBytes") /\ Has(items, x.value, "FixedRead")
    [] OTHER -> TRUE

\* Two items that define the same thing.
Same(x, y) ==
  /\ x.item = y.item /\ x.for = y.for /\ x.trait = y.trait
  /\ x.trait # "length"
Repeated(items) == \E i, j \in DOMAIN items : i < j /\ Same(items[i], items[j])

\* No type is of infinite size.
RECURSIVE Within(_, _, _)
Within(items, tys, n) ==
  IF n = 0 THEN tys
  ELSE Within(items,
         tys \cup UNION {{items[i].what[j].ty : j \in DOMAIN items[i].what} :
                           i \in {k \in DOMAIN items : items[k].item = "struct" /\ items[k].for \in tys}},
         n - 1)
Sized(items) ==
  \A i \in DOMAIN items : items[i].item = "struct" =>
    items[i].for \notin Within(items, {items[i].what[j].ty : j \in DOMAIN items[i].what}, Len(items))

Compiles(items) ==
  /\ ~Repeated(items) /\ Sized(items)
  /\ \A i \in DOMAIN items :
       /\ items[i].item = "impl" =>
            /\ Known(items, items[i].for)
            /\ items[i].for \in DOMAIN Owned =>
                 /\ items[i].trait \notin Owned[items[i].for].traits
                 /\ Owned[items[i].for].foreign => items[i].trait = "length"
       /\ Checked(items, i)

Rustc ==
  /\ step = "rustc"
  /\ step' = IF Compiles(out) THEN "compiled" ELSE "rejected"
  /\ UNCHANGED <<call, at, parsed, out>>

-----------------------------------------------------------------------------
(* Running what was declared *)

\* write and read of the scalars: to_le_bytes and from_le_bytes.
LeBytes(v, n) == [i \in 1..n |-> (v \div 256^(i - 1)) % 256]
RECURSIVE LeNumber(_)
LeNumber(bytes) == IF bytes = <<>> THEN 0 ELSE Head(bytes) + 256 * LeNumber(Tail(bytes))

WriteOwned(ty, v) == IF Owned[ty].scalar THEN LeBytes(v, Owned[ty].len) ELSE v
ReadOwned(ty, bytes) ==
  IF ty \in DOMAIN Owned /\ Owned[ty].scalar THEN LeNumber(bytes) ELSE bytes

\* ToBytes::write: each field into the slice between its offsets.
RECURSIVE Written(_, _, _)
Written(items, ty, v) ==
  IF ImplsOf(items, "ToBytes", ty) = {} THEN WriteOwned(ty, v)
  ELSE LET impl == TheImpl(items, "ToBytes", ty)
           off(i) == Offset(items, impl.what, i) IN
    CASE impl.how = "bytes"   -> BytesOf[impl.what]
      [] impl.how = "forward" -> Written(items, impl.what, v[1])
      [] OTHER ->
           [p \in 1..MaxLen(items, ty) |->
             LET i == CHOOSE i \in DOMAIN impl.what : off(i) < p /\ p <= off(i + 1) IN
             Written(items, impl.what[i].ty, v[i])[p - off(i)]]

\* What the host gets as a key (encode) or a name (with_name_bytes).
RECURSIVE Address(_, _, _, _)
Address(items, role, ty, v) ==
  LET trait == IF IsParam(role) THEN "TypedParamName" ELSE "StateKeyEncode" IN
  IF ImplsOf(items, trait, ty) = {} THEN v
  ELSE LET impl == TheImpl(items, trait, ty) IN
    CASE impl.how = "bytes"   -> BytesOf[impl.what]
      [] impl.how = "forward" -> Address(items, role, impl.what, v[1])
      [] OTHER -> Written(items, ty, v)

\* How many bytes a value type reads, and the value they are.
ReadLen(items, ty) ==
  IF ImplsOf(items, "FixedRead", ty) = {} THEN Owned[ty].len
  ELSE LET f == TheImpl(items, "FixedRead", ty).what IN Offset(items, f, Len(f) + 1)
Decoded(items, ty, buf) ==
  IF ImplsOf(items, "FromBytes", ty) = {} THEN ReadOwned(ty, buf)
  ELSE LET f == TheImpl(items, "FromBytes", ty).what IN
    [i \in DOMAIN f |->
      ReadOwned(f[i].ty, SubSeq(buf, Offset(items, f, i) + 1, Offset(items, f, i + 1)))]

TooSmall == [ok |-> FALSE, why |-> "TooSmall"]
DoesntExist == [ok |-> FALSE, why |-> "DoesntExist"]

\* hook_param and otxn_param of the host, into a zeroed buffer.
HostRead(bytes, room) ==
  IF Len(bytes) > room THEN TooSmall
  ELSE [ok |-> TRUE, n |-> Len(bytes),
        buf |-> [i \in 1..room |-> IF i <= Len(bytes) THEN bytes[i] ELSE 0]]
HostParam(stored, role, name, room) ==
  IF stored.role # role \/ stored.name # name THEN DoesntExist ELSE HostRead(stored.value, room)

\* FixedRead::read_exact
MutReadExact(items, ty, got) ==
  IF ~got.ok THEN got ELSE [ok |-> TRUE, value |-> Decoded(items, ty, got.buf)]
ReadExact(items, ty, got) ==
  IF ~got.ok THEN got
  ELSE IF got.n # ReadLen(items, ty) THEN TooSmall
  ELSE [ok |-> TRUE, value |-> Decoded(items, ty, got.buf)]

\* get_value of an entity, or the free function on the name it declares.
ParamTyped(items, role, ty, v, stored) ==
  LET value == TheImpl(items, "TypedParamName", ty).value IN
  ReadExact(items, value,
    HostParam(stored, role, Address(items, role, ty, v), ReadLen(items, value)))

\* The handles a program builds: every byte of every field is different.
SampleBytes(n, i) == [p \in 1..n |-> 10 * i + p]
Sample(items, ty, i) == ReadOwned(ty, SampleBytes(MaxLen(items, ty), i))
KeyOf(items, d) ==
  LET of == Lexed(d.key.of) IN
  CASE d.key.form = "pairing" -> Sample(items, Lexed(d.key.name), 1)
    [] d.key.form = "newtype" -> <<Sample(items, of, 1)>>
    [] d.key.form = "struct"  ->
         [i \in DOMAIN d.key.of |->
           IF d.key.init # <<>> THEN ValuesOf[Lexed(d.key.init[1])][d.key.of[i].name]
           ELSE Sample(items, Lexed(d.key.of[i].ty), i)]
    [] OTHER -> <<>>
EntityOf(items, d) == IF d.key.form = "pairing" THEN <<KeyOf(items, d)>> ELSE KeyOf(items, d)

\* A transaction or the Hook itself carries one parameter, perhaps this one.
ReadParam ==
  /\ step = "compiled" /\ IsParam(call.macro)
  /\ LET entity == <<Ident(parsed.entity)>>
         key    == Lexed(parsed.key.name)
         name   == Address(out, call.macro, entity, EntityOf(out, parsed))
         len    == ReadLen(out, Lexed(parsed.value.name)) IN
     \E role \in Roles \ {"hook_state!"}, pad \in {<<>>, <<0>>}, n \in len - 1..len + 1,
        through \in {"entity", "key"} :
       LET stored == [role |-> role, name |-> name \o pad, value |-> [i \in 1..n |-> 100 + i]] IN
       out' = [items |-> out, stored |-> stored,
               got |-> IF through = "entity"
                       THEN ParamTyped(out, call.macro, entity, EntityOf(out, parsed), stored)
                       ELSE ParamTyped(out, call.macro, key, KeyOf(out, parsed), stored)]
  /\ step' = "read"
  /\ UNCHANGED <<call, at, parsed>>

\* A derived key or name is written; a value is read with read_exact from
\* what is stored, and state is written back.
UseStruct ==
  /\ step = "compiled" /\ call.macro \in Derives
  /\ LET name    == Lexed(parsed.value.name)
         of      == parsed.value.of
         samples == [i \in DOMAIN of |-> Sample(out, Lexed(of[i].ty), i)] IN
     IF call.macro \in {"HookKey", "ParamName"}
     THEN out' = [items |-> out, stored |-> samples, got |-> [ok |-> TRUE, value |-> samples],
                  back |-> Written(out, name, samples)]
     ELSE \E n \in ReadLen(out, name) - 1..ReadLen(out, name) + 1 :
            LET stored == [i \in 1..n |-> 100 + i]
                got    == ReadExact(out, name, HostRead(stored, ReadLen(out, name))) IN
            out' = [items |-> out, stored |-> stored, got |-> got,
                    back |-> IF got.ok /\ call.macro = "HookData"
                             THEN Written(out, name, got.value) ELSE stored]
  /\ step' = "used"
  /\ UNCHANGED <<call, at, parsed>>

DeclareNext ==
  \/ ParseVis \/ ParseEntity \/ ExistingKey \/ StructKey \/ FixedKey \/ TypeKey \/ NewtypeKey
  \/ NoKey \/ ParseArrow \/ ParseValue \/ CheckDistinct \/ Generate \/ Rustc \/ ReadParam
  \/ ParseStruct \/ Derive \/ UseStruct

-----------------------------------------------------------------------------
(* Properties *)

Declaring == call.macro \in Roles \cup Derives
Accepted == Declaring /\ step \in {"generate", "derive", "used", "rustc", "rejected", "compiled", "read"}

\* The tokens of a declaration, and what counts of them: not the attributes
\* and visibilities of fields, which are skipped, nor a comma after the last.
RECURSIVE SpellFields(_, _)
SpellFields(f, i) ==
  IF i > Len(f) THEN <<>>
  ELSE (IF i = 1 THEN <<>> ELSE <<Punct(",")>>)
       \o <<Ident(f[i].name), Punct(":")>> \o Lexed(f[i].ty) \o SpellFields(f, i + 1)

Inline(value) == Lexed(value.name) \o <<Brace(SpellFields(value.of, 1))>>

Spell(d) ==
  LET name == Lexed(d.key.name) IN
  IF d.key.form = "none" THEN <<Ident("struct")>> \o Inline(d.value)
  ELSE
  d.vis \o <<Ident(d.entity), Punct(",")>>
  \o (CASE d.key.form = "existing" ->
              <<Ident("existing")>> \o name \o <<Punct("=")>> \o Lexed(d.key.of)
        [] d.key.form = "fixed"   -> name \o <<Punct("=")>> \o Lexed(d.key.of)
        [] d.key.form = "struct"  ->
              name \o <<Brace(SpellFields(d.key.of, 1))>>
              \o IF d.key.init = <<>> THEN <<>> ELSE <<Punct("="), Brace(Lexed(d.key.init[1]))>>
        [] d.key.form = "pairing" -> name
        [] OTHER -> name \o Lexed(d.key.of))
  \o ArrowTokens \o IF d.value.form = "inline" THEN Inline(d.value) ELSE Lexed(d.value.name)

Counts(ts, i) ==
  /\ ~IsPunct(ts, i, "#") /\ ~IsPunct(ts, i - 1, "#") /\ ~IsWord(ts, i, "pub")
  /\ ~(IsKind(ts, i, "paren") /\ IsWord(ts, i - 1, "pub"))
  /\ ~(IsPunct(ts, i, ",") /\ i = Len(ts))
RECURSIVE Plain(_, _)
Plain(ts, i) ==
  IF i > Len(ts) THEN <<>>
  ELSE IF ~Counts(ts, i) THEN Plain(ts, i + 1)
  ELSE <<[ts[i] EXCEPT !.joint = FALSE, !.in = Plain(@, 1)]>> \o Plain(ts, i + 1)

\* A type, as a run of the tokens of the invocation or of one of its groups.
HasRun(ts, run) ==
  \E i \in 1..Len(ts) - Len(run) + 1 : SubSeq(ts, i, i + Len(run) - 1) = run
RunOf(ts, run) == HasRun(ts, run) \/ \E i \in DOMAIN ts : HasRun(ts[i].in, run)

\* A declaration is taken as it is written: what the macro accepts is, token
\* for token, what it read, with no token left over and no type torn apart;
\* it never defines one thing twice, unless a key the caller owns is also
\* named as the value; and every declaration of the documented grammar is
\* accepted with the meaning it was written with.
DeclaredAsWritten ==
  /\ Accepted => Plain(Spell(parsed), 1) = Plain(call.tokens, 1)
  /\ Accepted /\ step = "rustc" =>
       /\ \A i \in DOMAIN out : out[i].item = "struct" =>
            \A j \in DOMAIN out[i].what : RunOf(call.tokens, out[i].what[j].ty)
       /\ Repeated(out) =>
            /\ parsed.key.form \in {"existing", "pairing"}
            /\ Clash(Bare(parsed.key.name), Bare(parsed.value.name))
  /\ Declaring /\ call.meant # Undeclared =>
       step # "refused" /\ (Accepted => parsed = call.meant)

\* The bytes that a declaration stands for, by its author's intention: the
\* fields one after the other, the lowest byte of a scalar first.
RECURSIVE Joined(_, _)
Joined(parts, i) == IF i > Len(parts) THEN <<>> ELSE parts[i] \o Joined(parts, i + 1)
Flat(ty, v) ==
  IF Owned[ty].scalar
  THEN [p \in 1..Owned[ty].len |-> (v % 256^p) \div 256^(p - 1)] ELSE v
FlatFields(of, v) == Joined([i \in DOMAIN of |-> Flat(Lexed(of[i].ty), v[i])], 1)
FlatSamples(of) ==
  Joined([i \in DOMAIN of |-> SampleBytes(Owned[Lexed(of[i].ty)].len, i)], 1)
FlatValue(value, v) ==
  IF value.form = "inline" THEN FlatFields(value.of, v) ELSE Flat(Lexed(value.name), v)
Meant(d, key) ==
  CASE d.key.form \in {"existing", "fixed"} -> BytesOf[Lexed(d.key.of)]
    [] d.key.form = "pairing" -> key
    [] d.key.form = "newtype" -> Flat(Lexed(d.key.of), key[1])
    [] d.key.form = "struct" /\ d.key.init = <<>> -> FlatSamples(d.key.of)
    [] OTHER -> FlatFields(d.key.of, key)

\* Entity and key (or name) address one entry, under the bytes the author
\* wrote, at their natural length; and a parameter reads back whole, field by
\* field, exactly when one is stored under that name, for the side the macro
\* names, with the length of the value type.  A derived struct is its fields,
\* one after the other, written and read.
EntriesReached ==
  /\ call.macro \in Roles /\ step = "compiled" =>
       LET key  == KeyOf(out, parsed)
           wire == Meant(call.meant, key) IN
       call.meant # Undeclared =>
         /\ Len(wire) \in 1..MaxName
         /\ Address(out, call.macro, Lexed(parsed.key.name), key) = wire
         /\ Address(out, call.macro, <<Ident(parsed.entity)>>, EntityOf(out, parsed)) = wire
  /\ call.macro \in Roles /\ step = "read" /\ call.meant # Undeclared =>
       LET s   == out.stored
           len == IF call.meant.value.form = "inline"
                  THEN Len(FlatSamples(call.meant.value.of))
                  ELSE Owned[Lexed(call.meant.value.name)].len
           mine == s.role = call.macro /\ s.name = Meant(call.meant, KeyOf(out.items, parsed)) IN
       /\ out.got.ok = (mine /\ Len(s.value) = len)
       /\ out.got.ok => s.value = FlatValue(call.meant.value, out.got.value)
       /\ ~out.got.ok => (out.got.why = "TooSmall") = mine
  /\ call.macro \in Derives /\ step = "used" =>
       LET wire == FlatSamples(call.meant.value.of) IN
       IF call.macro \in {"HookKey", "ParamName"} THEN out.back = wire
       ELSE /\ out.got.ok = (Len(out.stored) = Len(wire))
            /\ out.got.ok => /\ out.stored = FlatFields(call.meant.value.of, out.got.value)
                             /\ out.back = out.stored
=============================================================================
