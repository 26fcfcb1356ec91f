------------------------------- MODULE MCBuild -------------------------------
(* What stands in the source of a Hook crate: the declaring macros in every  *)
(* documented form, and in forms with one token missing, exchanged or in the *)
(* place of another; crates with and without metadata!; literals.  Then the  *)
(* modules that cargo hands to Build: one flaw each, two that are sound,     *)
(* with and without metadata, around the size limit.                         *)
EXTENDS Source

-----------------------------------------------------------------------------
(* Declarations *)

I(t) == <<Ident(t)>>
Path(a, b) == I(a) \o PathSep \o I(b)
Array(n) == <<Bracket(<<Ident("u8"), Punct(";"), Literal(n)>>)>>
Acc == I("Acc")

MCCamel == {"Self", "Dep", "DepKey", "Val", "Acc", "MyKey", "Marker"}
MCSnake == {"existing", "pub", "u8", "a", "b", "m", "crate", "taken"}
MCUnraw ==
  [n \in {"r#Dep", "r#Marker", "r#Payment"} |->
    CASE n = "r#Dep" -> "Dep" [] n = "r#Marker" -> "Marker" [] OTHER -> "Payment"]

Reads == {"ToBytes", "FromBytes", "FixedRead"}
Plainly(len, traits) ==
  [len |-> len, traits |-> traits, named |-> FALSE, scalar |-> FALSE, foreign |-> FALSE]
Named(len, traits) == [Plainly(len, traits) EXCEPT !.named = TRUE]
Foreign(len, traits) == [Plainly(len, traits) EXCEPT !.foreign = TRUE]
Scalar(len, traits) == [Foreign(len, traits) EXCEPT !.scalar = TRUE]
Bytes == Reads \cup {"StateKeyEncode"}
Owner(x) ==
  CASE x = I("u8") -> Scalar(1, {"ToBytes", "FromBytes"})
    [] x = I("u16") -> Scalar(2, {"ToBytes", "FromBytes"})
    [] x = I("XFL") -> Scalar(2, Reads)  \* two of its eight bytes
    [] x = Array("2") -> Foreign(2, Bytes)
    [] x = Path("crate", "Acc") -> Plainly(2, Reads)
    [] x = Acc -> Named(2, Reads)
    [] x = Array("33") -> Foreign(33, Bytes)
    [] x = I("MyKey") -> Named(3, {"ToBytes", "StateKeyEncode"})
    [] x \in {I("existing"), Path("existing", "Acc")} -> Plainly(2, {"ToBytes", "StateKeyEncode"})
    [] x = I("taken") -> Named(2, {"ToBytes", "StateKeyEncode", "TypedStateKey", "TypedParamName"})
    [] OTHER -> Named(0, {})
MCOwned ==
  [x \in {I("u8"), I("u16"), I("XFL"), Array("2"), Path("crate", "Acc"), Acc, Array("33"), I("MyKey"), I("existing"),
          Path("existing", "Acc"), I("taken"), I("Marker"), I("r#Marker"), Path("m", "Marker")}
   |-> Owner(x)]

MCBytesOf ==
  [x \in {<<Literal(t)>> : t \in {"b\"K\"", "b\"\"", "LONG"}} |->
    CASE x[1].t = "LONG" -> [i \in 1..33 |-> 1] [] x[1].t = "b\"\"" -> <<>> [] OTHER -> <<75>>]
OneInit == <<Ident("a"), Punct(":"), Literal("7")>>
MCValuesOf == [x \in {OneInit} |-> [a |-> 7]]

T(ts) == TokensToString(ts)
Field(n, ty) == [name |-> n, ty |-> T(ty)]
One == <<Field("a", I("u8"))>>
Two == <<Field("a", I("u16")), Field("b", Path("crate", "Acc"))>>

MCKeys ==
  {Key("fixed", T(I("DepKey")), T(<<Literal(b)>>), <<>>) : b \in {"b\"K\"", "b\"\"", "LONG"}}
  \cup {Key("existing", PathText(n), T(<<Literal("b\"K\"")>>), <<>>) :
          n \in {I("Marker"), I("r#Marker"), Path("m", "Marker")}}
  \cup {Key("struct", T(I("DepKey")), f, i) : f \in {One, Two}, i \in {<<>>}}
  \cup {Key("struct", T(I("DepKey")), One, <<T(OneInit)>>)}
  \cup {Key("newtype", T(I("DepKey")), T(ty), <<>>) : ty \in {Acc, Array("2"), Array("33")}}
  \cup {Key("pairing", T(ty), <<>>, <<>>) :
          ty \in {I("MyKey"), I("existing"), Path("existing", "Acc"), Array("2"), I("taken")}}
MCValues ==
  {Value("type", T(ty), <<>>) : ty \in {Acc, Path("crate", "Acc"), Array("2"), I("u8"), I("XFL")}}
  \cup {Value("inline", T(I("Val")), f) : f \in {One, Two}}
MCVis == {<<>>, I("pub"), I("pub") \o <<Paren(I("crate"))>>}

Decl(vis, key, value) == [vis |-> vis, entity |-> "Dep", key |-> key, value |-> value]
Invoke(role, ts, d) == [macro |-> role, tokens |-> ts, meant |-> d]

Documented ==
  {Invoke(role, Spell(d), d) :
     role \in Roles, d \in {Decl(v, k, x) : v \in MCVis, k \in MCKeys, x \in MCValues}}

\* The same fields with attributes, visibilities and a last comma.
Decorated ==
  LET d == Decl(<<>>, Key("struct", T(I("DepKey")), Two, <<>>), Value("type", T(Acc), <<>>))
      doc == <<Punct("#"), Bracket(I("a"))>>
      f == doc \o doc \o I("pub") \o SpellFields(<<Two[1]>>, 1) \o <<Punct(",")>> \o doc
           \o I("pub") \o <<Paren(I("crate"))>> \o SpellFields(<<Two[2]>>, 1) \o <<Punct(",")>> IN
  {Invoke(role, SubSeq(Spell(d), 1, 3) \o <<Brace(f)>> \o SubSeq(Spell(d), 5, 7), d) : role \in Roles}

Alphabet ==
  {Ident(t) : t \in {"Dep", "r#Dep", "DepKey", "Acc", "Snake_Case", "a", "Self", "existing", "pub"}}
  \cup {Punct(t) : t \in {",", "=", "<"}} \cup {Literal("b\"K\""), Brace(<<>>)}

Cut(ts, i) == SubSeq(ts, 1, i - 1) \o SubSeq(ts, i + 1, Len(ts))
\* Only a mark that another mark follows is glued to it.
Respaced(ts) == [i \in DOMAIN ts |-> [ts[i] EXCEPT !.joint = @ /\ IsKind(ts, i + 1, "punct")]]
Edits(ts) ==
  {Respaced(e) : e \in
    {Cut(ts, i) : i \in DOMAIN ts}
    \cup {[ts EXCEPT ![i] = x] : i \in DOMAIN ts, x \in Alphabet}
    \cup {[ts EXCEPT ![i] = ts[i + 1], ![i + 1] = ts[i]] : i \in 1..Len(ts) - 1}}
EditsWithin(ts) ==
  UNION {{[ts EXCEPT ![i].in = e] : e \in Edits(ts[i].in)} :
           i \in {j \in DOMAIN ts : ts[j].k = "brace"}}
Edited ==
  LET bases == {Spell(Decl(<<>>, k, x)) : k \in MCKeys,
                  x \in {y \in MCValues : y.name = T(Acc) \/ y.of = Two}}
      known == {c.tokens : c \in Documented} IN
  {Invoke("hook_state!", ts, Undeclared) :
     ts \in (UNION {Edits(b) \cup EditsWithin(b) : b \in bases}) \ known}

\* Items with a derive: the fields of structs, and what a derive refuses.
Derived(f) == [Undeclared EXCEPT !.value = Value("inline", T(I("Val")), f)]
Attribute == <<Punct("#"), Bracket(I("a"))>>
Generic == Acc \o <<Punct("<")>> \o I("u8") \o <<Punct(",")>> \o I("u8") \o <<Punct(">")>>
Derivations ==
  {Invoke(m, before \o Spell(Derived(f)), Derived(f)) :
     m \in Derives, f \in {One, Two, <<Field("b", Array("2")), Field("a", Array("2"))>>},
     before \in {<<>>, I("pub"), Attribute \o Attribute \o I("pub") \o <<Paren(I("crate"))>>}}
  \cup {Invoke("ParamName", Spell(Derived(f)), Derived(f)) : f \in {<<Field("a", Array("33"))>>}}
  \cup {Invoke(m, ts, Undeclared) :
          m \in Derives,
          ts \in {I("struct") \o I("Val") \o <<Punct(";")>>,
                  I("struct") \o I("Val") \o <<Brace(<<>>)>>,
                  I("struct") \o I("Val") \o <<Paren(I("u8")), Punct(";")>>,
                  I("struct") \o I("Val") \o <<Punct("<")>> \o I("a") \o <<Punct(">"),
                    Brace(SpellFields(One, 1))>>,
                  I("enum") \o I("Val") \o <<Brace(I("a"))>>,
                  I("union") \o I("Val") \o <<Brace(SpellFields(One, 1))>>,
                  I("struct") \o I("Val") \o <<Brace(I("a") \o <<Punct(":")>> \o Generic)>>}}

-----------------------------------------------------------------------------
(* Crates *)

Char(n, c) == [bytes |-> n, char |-> c]
Name(n, bytes) == [i \in 1..n |-> Char(bytes, "x")]
MCStringOf ==
  [t \in {"\"\"", "\"x\"", "\"xx\"", "\"xxxxxxxx\"", "\"xxxxxxxxx\"", "\"wide\""} |->
    CASE t = "\"\"" -> <<>> [] t = "\"x\"" -> Name(1, 1) [] t = "\"xx\"" -> Name(2, 1)
      [] t = "\"xxxxxxxx\"" -> Name(8, 1) [] t = "\"xxxxxxxxx\"" -> Name(9, 1)
      [] OTHER -> Name(8, 3)]
LiteralOf(s) == Literal(CHOOSE t \in DOMAIN MCStringOf : MCStringOf[t] = s)

RECURSIVE Separated(_)
Separated(parts) ==
  IF parts = <<>> THEN <<>> ELSE IF Len(parts) = 1 THEN parts[1]
  ELSE parts[1] \o <<Punct(",")>> \o Separated(Tail(parts))
SpellField(f, v) ==
  <<Ident(f), Punct(":"),
    IF f \in Texts THEN LiteralOf(v)
    ELSE Bracket(Separated([i \in DOMAIN v |-> <<Ident(v[i])>>]))>>
FieldsOf(m) == SelectSeq(KeyOrder, LAMBDA f : m[f] # <<>>)
SpellMetadata(m) == Separated([i \in DOMAIN FieldsOf(m) |-> SpellField(FieldsOf(m)[i], m[FieldsOf(m)[i]][1])])

Named2(name) == [NoMetadata EXCEPT !["name"] = <<MCStringOf[name]>>]
Basic == Named2("\"xx\"")
With(f, v) == [Basic EXCEPT ![f] = <<v>>]
TypeLists ==
  {<<t>> : t \in DOMAIN Variant}
  \cup {<<>>, <<"Payment", "SetHook">>, <<"Payment", "Invoke">>, <<"Payment", "Payment">>, <<"r#Payment">>,
        <<"r#Payment", "Payment">>, <<"Paymnet">>, <<"Unknown">>}
Metas ==
  {With("HookOn", l) : l \in TypeLists}
  \cup {Named2(n) : n \in {"\"\"", "\"x\""}} \cup {NoMetadata}
  \cup {With("HookName", MCStringOf[t]) : t \in DOMAIN MCStringOf}
  \cup {[Basic EXCEPT !["IncomingHookOn"] = a, !["OutgoingHookOn"] = b] :
          a, b \in {<<>>} \cup {<<l>> : l \in {<<>>, <<"Payment">>, <<"Payment", "Invoke">>,
                                              <<"Invoke", "Payment">>}}}
  \cup {[With("HookOn", <<"Payment">>) EXCEPT !["IncomingHookOn"] = <<<<"Invoke">>>>],
        [With("HookCanEmit", <<"Payment">>) EXCEPT !["description"] = <<MCStringOf["\"wide\""]>>]}

Item_(macro, attr, ts) == [macro |-> macro, attr |-> attr, tokens |-> ts]
Fn(name) ==
  <<Ident("fn"), Ident(name), Paren(<<>>), Joint("-"), Punct(">"), Ident("i64"), Brace(<<>>)>>
Hook == Item_("hook", <<>>, Fn("run"))
Doc == <<Punct("#"), Bracket(<<Ident("doc")>>)>>
Declare(m) == Item_("metadata!", <<>>, SpellMetadata(m))

OfItems(items, metas, hand, emits) ==
  [macro |-> "crate", now |-> Head(items), rest |-> Tail(items), meant |-> metas, hand |-> hand,
   emits |-> emits, tokens |-> <<>>]

HandExports ==
  LET carrier(m, func) == [name |-> <<Prefix, HexUpper(EncodeJson(m))>>, func |-> func]
      c == carrier(Basic, TRUE) IN
  {<<carrier(Basic, FALSE)>>, <<c>>, <<[c EXCEPT !.name[2] = <<>>]>>,
   <<[c EXCEPT !.name[2] = Tail(@)]>>, <<[c EXCEPT !.name[2][1].upper = FALSE]>>,
   <<carrier(NoMetadata, TRUE)>>, <<carrier(Named2("\"\""), TRUE)>>,
   <<carrier(With("HookOn", <<"Paymnet">>), TRUE)>>,
   <<carrier(With("HookOn", <<"Payment", "Payment">>), TRUE)>>,
   <<[name |-> <<"memory">>, func |-> FALSE], carrier(With("HookCanEmit", <<"Payment">>), TRUE)>>}

CutAt(ts, i) == SubSeq(ts, 1, i - 1) \o SubSeq(ts, i + 1, Len(ts))
Crates ==
  {OfItems(<<Declare(m), Hook>>, <<m>>, <<>>, e) : m \in Metas, e \in BOOLEAN}
  \cup {OfItems(<<Hook, Declare(m), Declare(n)>>, <<m, n>>, <<>>, FALSE) :
          m, n \in {Basic, With("HookOn", <<"Payment">>)}}
  \cup {OfItems(<<Hook>>, <<>>, h, FALSE) : h \in HandExports \cup {<<>>}}
  \cup {OfItems(<<Declare(Basic)>>, <<Basic>>, h, FALSE) : h \in HandExports \cup {<<>>}}
  \cup {OfItems(<<Hook, Item_("cbak", <<>>, Fn(n))>>, <<>>, <<>>, FALSE) : n \in {"run", "back", "cbak"}}
  \cup {OfItems(<<Hook, Item_("hook", a, Fn("other"))>>, <<>>, <<>>, FALSE) : a \in {<<>>, I("a")}}
  \cup {OfItems(<<Item_("hook", <<>>, f)>>, <<>>, <<>>, FALSE) :
          f \in {Doc \o Fn("run"), Doc \o I("pub") \o Fn("run"),
                 Doc \o Doc \o I("pub") \o <<Paren(I("crate"))>> \o Fn("run"),
                 I("const") \o Fn("run"), Fn("run") \o I("where"),
                 [Fn("run") EXCEPT ![3] = Paren(I("a"))], [Fn("run") EXCEPT ![6] = Ident("i32")]}
                \cup {CutAt(Fn("run"), i) : i \in 1..7}}
  \cup {OfItems(<<Item_("metadata!", <<>>, ts), Hook>>, <<Basic>>, <<>>, FALSE) :
          ts \in {SpellMetadata(Basic) \o <<Punct(",")>>,
                  SpellMetadata(Basic) \o <<Punct(",")>> \o SpellMetadata(Basic),
                  SpellMetadata(Basic) \o SpellMetadata(Basic), <<Ident("name"), Literal("7")>>,
                  <<Ident("name"), Punct(":"), Literal("7")>>, <<Ident("nam"), Punct(":"), Literal("\"xx\"")>>,
                  <<Ident("HookOn"), Punct(":"), Literal("\"xx\"")>>,
                  <<Ident("HookOn"), Punct(":"), Bracket(<<Literal("7")>>)>>,
                  <<Ident("HookOn"), Punct(":"), Bracket(I("Payment") \o I("Invoke"))>>}}

-----------------------------------------------------------------------------
(* Literals *)

Decimal(int, frac, exp) ==
  [kind |-> "decimal", int |-> int, frac |-> frac, exp |-> exp, suffix |-> FALSE]
Runs == {<<0>>, <<7>>, <<0, 0>>, <<0, 7>>, <<7, 0>>, <<7, Underscore, 0>>, <<7, 7>>}
Exponents ==
  {<<>>} \cup {<<[negative |-> n, digits |-> d]>> :
                 n \in BOOLEAN, d \in {<<0>>, <<1>>, <<2>>, <<3>>, <<4>>, <<0, 2>>, <<1, Underscore, 0>>, <<9, 9, 9>>}}
Numbers ==
  {Decimal(i, f, e) : i \in Runs, f \in Runs \cup {<<>>}, e \in Exponents}
  \cup {[Decimal(<<7>>, <<>>, <<>>) EXCEPT !.suffix = TRUE],
        [Decimal(<<7>>, <<>>, <<>>) EXCEPT !.kind = "radix"],
        [Decimal(<<7>>, <<>>, <<>>) EXCEPT !.kind = "text"]}
NumberCall(ts, n) == [macro |-> "XFL!", tokens |-> ts, literal |-> n]
NumberCalls ==
  {NumberCall(ts, n) : n \in Numbers,
     ts \in {<<Literal("number")>>, <<Punct("-"), Literal("number")>>}}
  \cup {NumberCall(ts, Decimal(<<7>>, <<>>, <<>>)) :
          ts \in {<<>>, <<Punct("-")>>, <<Punct("+"), Literal("number")>>,
                  <<Literal("number"), Literal("number")>>}}

MCMinExponent == -3
MCSha(bytes) == <<(bytes[2] + 2 * bytes[3] + 1) % ByteSize>>
AddressCalls ==
  {[macro |-> "account_id!", tokens |-> <<Literal("address")>>,
    literal |-> [kind |-> "string", text |-> s]] :
      s \in UNION {[1..n -> 0..Radix - 1] : n \in 0..6} \cup {<<Radix>>, <<0, 1, Radix>>}}
  \cup {[macro |-> "account_id!", tokens |-> ts, literal |-> [kind |-> k, text |-> AddressOf(<<1, 2>>)]] :
          ts \in {<<>>, <<Literal("address")>>, <<Literal("address"), Punct(",")>>}, k \in {"string", "raw"}}

\* The setters of a template with some fields, next to brackets of all kinds
\* that are no splice, in the body of an impl block.
Splice(f) == Bracket(<<Punct("<"), Ident("set_"), Ident(f), Punct(">")>>)
Setter(name, ty) == <<Ident("fn"), name, Paren(<<Ident("value"), Punct(":")>> \o ty), Brace(Array("2"))>>
NoSplice ==
  {<<>>, Array("2"), <<Bracket(<<>>)>>, <<Bracket(<<Punct("<"), Punct(">")>>)>>,
   <<Bracket(<<Ident("a"), Ident("b"), Punct(">")>>)>>, <<Bracket(<<Punct("<"), Ident("a"), Ident("b")>>)>>,
   <<Bracket(<<Punct("<"), Ident("a"), Punct(","), Ident("b"), Punct(">")>>)>>,
   <<Brace(<<Punct("<"), Ident("a"), Punct(">")>>)>>}
PasteCalls ==
  {[macro |-> "paste", escaped |-> f = "r#Dep" \/ g = "r#Dep",
    tokens |-> <<Brace(Setter(Splice(f), ty) \o Setter(Splice(g), I("u8")))>> \o ty,
    meant |-> <<Brace(Setter(Ident("set_" \o f), ty) \o Setter(Ident("set_" \o g), I("u8")))>> \o ty] :
      f, g \in {"a", "amount", "r#Dep"}, ty \in NoSplice}

MCCalls ==
  PasteCalls \cup Documented \cup Derivations \cup Decorated \cup Edited \cup Crates \cup NumberCalls \cup AddressCalls

-----------------------------------------------------------------------------
(* What cargo built *)

Flawed(breaks) == {"export", "R1", "R2"} \cup breaks
Built(n, meta, size, breaks) == [id |-> n, meta |-> meta, size |-> size, breaks |-> Flawed(breaks)]

MCRaws ==
  {Built(1, "none", 2, {}), Built(1, "good", 2, {"loop"}), Built(1, "good", 3, {}),
   Built(2, "none", 3, {"float"}), Built(2, "good", 2, {"ladder"}), Built(2, "bad", 2, {}), Built(2, "bad", 2, {"hook"}),
   Built(3, "none", 2, {"wce"}), Built(3, "none", 2, {"recursion"}),
   Built(3, "none", 2, {"hook"}), Built(3, "good", 2, {"hook"})}
=============================================================================
