---------------------------- MODULE Declarations -----------------------------
(***************************************************************************)
(* The parsers of the declaring macros of rshooks-macros: the one grammar  *)
(* of hook_state!, hook_parameter! and otxn_parameter! (decl_pair.rs), and *)
(* the shape of a struct (shape.rs), for its fields in that grammar and    *)
(* for the derives HookKey, HookData, ParamName and ParamValue.            *)
(*                                                                         *)
(* The diagnostics are one refusal; where a refusal points is left out.    *)
(***************************************************************************)
EXTENDS Tokens, FiniteSets

CONSTANTS
  Camel, Snake,   \* the identifiers in UpperCamelCase, and those in snake_case
  Owned,          \* the types in scope: length, traits, and whether named (declared
                  \* here), scalar, foreign (declared in another crate)
  BytesOf,        \* the bytes that a literal denotes
  ValuesOf        \* the field values that an initializer denotes

Roles == {"hook_state!", "hook_parameter!", "otxn_parameter!"}
IsParam(role) == role \in {"hook_parameter!", "otxn_parameter!"}
Derives == {"HookKey", "HookData", "ParamName", "ParamValue"}
MaxName == 32   \* STATE_KEY_LEN and PARAM_NAME_MAX_LEN

-----------------------------------------------------------------------------
(* Fields *)

RECURSIVE SkipAttrs(_, _)
SkipAttrs(ts, i) == IF IsPunct(ts, i, "#") THEN SkipAttrs(ts, i + 2) ELSE i

RECURSIVE FieldsFrom(_, _, _)
FieldsFrom(ts, i, done) ==
  LET a     == SkipAttrs(ts, i)
      n     == a + VisLen(ts, a)
      comma == FirstOf({j \in n + 2..Len(ts) : IsPunct(ts, j, ",")}, ts) IN
  IF i > Len(ts) \/ n > Len(ts) THEN [ok |-> TRUE, fields |-> done]
  ELSE IF ~IsKind(ts, n, "ident") \/ ~IsPunct(ts, n + 1, ":") \/ comma = n + 2
  THEN [ok |-> FALSE, fields |-> <<>>]
  ELSE FieldsFrom(ts, comma + 1,
         Append(done, [name |-> ts[n].t, ty |-> TokensToString(SubSeq(ts, n + 2, comma - 1))]))

\* Some fields, as a key, a name or a value must have.
Fields(ts) ==
  LET f == FieldsFrom(ts, 1, <<>>) IN [f EXCEPT !.ok = @ /\ f.fields # <<>>]

-----------------------------------------------------------------------------
(* The parser *)

Key(form, name, of, init) == [form |-> form, name |-> name, of |-> of, init |-> init]
Value(form, name, of) == [form |-> form, name |-> name, of |-> of]

Undeclared ==
  [vis |-> <<>>, entity |-> "", key |-> Key("none", <<>>, <<>>, <<>>),
   value |-> Value("none", <<>>, <<>>)]

\* A derive reads a struct with named fields: no tuple, no generics, no enum.
ParseStruct ==
  /\ step = "struct"
  /\ LET ts == call.tokens
         a  == SkipAttrs(ts, 1)
         n  == a + VisLen(ts, a) + 1
         f  == Fields(ts[n + 1].in) IN
     IF IsWord(ts, n - 1, "struct") /\ IsKind(ts, n, "ident") /\ IsKind(ts, n + 1, "brace") /\ f.ok
     THEN Goto("derive", n + 2,
               [parsed EXCEPT !.value = Value("inline", TokensToString(<<ts[n]>>), f.fields)])
     ELSE Refuse

CheckUpperCamelCase(name) == name # "Self" /\ name \in Camel

ParseVis ==
  /\ step = "vis"
  /\ LET n == VisLen(call.tokens, 1) IN
     IF call.tokens = <<>> THEN Refuse
     ELSE Goto("entity", n + 1, [parsed EXCEPT !.vis = SubSeq(call.tokens, 1, n)])

ParseEntity ==
  /\ step = "entity"
  /\ LET ts == call.tokens IN
     IF /\ IsKind(ts, at, "ident") /\ IsPunct(ts, at + 1, ",")
        /\ ts[at].t # "existing" /\ ts[at].t \notin Snake
        /\ CheckUpperCamelCase(ts[at].t)
     THEN Goto("key", at + 2, [parsed EXCEPT !.entity = ts[at].t])
     ELSE Refuse

RECURSIVE PathLen(_, _)
PathLen(ts, i) ==
  IF ~IsKind(ts, i, "ident") THEN 0
  ELSE IF IsPunct(ts, i + 1, ":") /\ IsPunct(ts, i + 2, ":") /\ IsKind(ts, i + 3, "ident")
  THEN 3 + PathLen(ts, i + 3) ELSE 1

\* parse_path glues the parts of a path whatever stood between them.
PathText(ts) == [i \in DOMAIN ts |-> [tok |-> [ts[i] EXCEPT !.joint = FALSE], gap |-> FALSE]]

\* `existing` is a keyword only where no type called existing can stand.
IsExisting(ts, i) ==
  /\ IsWord(ts, i, "existing")
  /\ ~IsArrowAt(ts, i + 1) /\ ~IsPunct(ts, i + 1, ":") /\ ~IsPunct(ts, i + 1, "<")

\* Which form stands at the cursor, told by at most three tokens.
KeyForm(ts, i) ==
  IF IsExisting(ts, i) THEN "existing"
  ELSE IF ~IsKind(ts, i, "ident") THEN IF IsKind(ts, i, "literal") THEN "none" ELSE "type"
  ELSE IF IsKind(ts, i + 1, "brace") THEN "struct"
  ELSE IF IsBareEq(ts, i + 1) THEN "fixed"
  ELSE IF IsPunct(ts, i + 1, ",") THEN "none"
  ELSE IF IsArrowAt(ts, i + 1) \/ IsPunct(ts, i + 1, ":") \/ IsPunct(ts, i + 1, "<") THEN "type"
  ELSE "newtype"

HasKey(key, i) == Goto("arrow", i, [parsed EXCEPT !.key = key])

ExistingKey ==
  /\ step = "key" /\ KeyForm(call.tokens, at) = "existing"
  /\ LET ts == call.tokens
         n  == PathLen(ts, at + 1)
         eq == at + 1 + n
         e  == ArrowFrom(ts, eq + 1) IN
     IF n = 0 \/ ~IsBareEq(ts, eq) \/ e \in {eq + 1, Len(ts) + 1} THEN Refuse
     ELSE HasKey(Key("existing", PathText(SubSeq(ts, at + 1, at + n)),
                     TokensToString(SubSeq(ts, eq + 1, e - 1)), <<>>), e)

\* Forms 2 and 3.
StructKey ==
  /\ step = "key" /\ KeyForm(call.tokens, at) = "struct"
  /\ LET ts   == call.tokens
         f    == Fields(ts[at + 1].in)
         init == IF IsKind(ts, at + 3, "brace") THEN <<TokensToString(ts[at + 3].in)>> ELSE <<>>
         key(x) == Key("struct", TokensToString(<<ts[at]>>), f.fields, x) IN
     IF ~CheckUpperCamelCase(ts[at].t) \/ ~f.ok THEN Refuse
     ELSE IF ~IsBareEq(ts, at + 2) THEN HasKey(key(<<>>), at + 2)
     ELSE IF init = <<>> THEN Refuse ELSE HasKey(key(init), at + 4)

\* Form 1.
FixedKey ==
  /\ step = "key" /\ KeyForm(call.tokens, at) = "fixed"
  /\ LET ts == call.tokens
         e  == ArrowFrom(ts, at + 2) IN
     IF ~CheckUpperCamelCase(ts[at].t) \/ e \in {at + 2, Len(ts) + 1} THEN Refuse
     ELSE HasKey(Key("fixed", TokensToString(<<ts[at]>>),
                     TokensToString(SubSeq(ts, at + 2, e - 1)), <<>>), e)

\* The pairing form: a type the caller declared, whatever it looks like.
TypeKey ==
  /\ step = "key" /\ KeyForm(call.tokens, at) = "type"
  /\ LET e == ArrowFrom(call.tokens, at) IN
     IF e \in {at, Len(call.tokens) + 1} THEN Refuse
     ELSE HasKey(Key("pairing", TokensToString(SubSeq(call.tokens, at, e - 1)), <<>>, <<>>), e)

\* Form 4.
NewtypeKey ==
  /\ step = "key" /\ KeyForm(call.tokens, at) = "newtype"
  /\ LET ts == call.tokens
         e  == ArrowFrom(ts, at + 1) IN
     IF ~CheckUpperCamelCase(ts[at].t) \/ e = Len(ts) + 1 THEN Refuse
     ELSE HasKey(Key("newtype", TokensToString(<<ts[at]>>),
                     TokensToString(SubSeq(ts, at + 1, e - 1)), <<>>), e)

NoKey == step = "key" /\ KeyForm(call.tokens, at) = "none" /\ Refuse

ParseArrow ==
  /\ step = "arrow"
  /\ IF IsArrowAt(call.tokens, at) THEN Goto("value", at + 2, parsed) ELSE Refuse

HasValue(form, name, of) ==
  Goto("distinct", Len(call.tokens) + 1,
       [parsed EXCEPT !.value = Value(form, name, of)])

ParseValue ==
  /\ step = "value"
  /\ LET ts == call.tokens
         f  == Fields(ts[at + 1].in) IN
     IF IsKind(ts, at, "ident") /\ IsKind(ts, at + 1, "brace")
     THEN IF CheckUpperCamelCase(ts[at].t) /\ f.ok /\ at + 1 = Len(ts)
          THEN HasValue("inline", TokensToString(<<ts[at]>>), f.fields) ELSE Refuse
     ELSE IF at > Len(ts) THEN Refuse
     ELSE HasValue("type", TokensToString(SubSeq(ts, at, Len(ts))), <<>>)

\* The one identifier that a text is, without its escape.
Bare(text) ==
  IF Len(text) = 1 /\ text[1].tok.k = "ident" THEN <<Unescaped(text[1].tok.t)>> ELSE <<>>

\* The type that the macro itself declares for the key.
DeclaredIdent(key) == IF key.form \in {"fixed", "struct", "newtype"} THEN Bare(key.name) ELSE <<>>

Clash(x, y) == x # <<>> /\ x = y

MutCheckDistinct ==
  /\ step = "distinct"
  /\ IF Clash(Bare(parsed.key.name), <<parsed.entity>>) THEN Refuse
     ELSE Goto("generate", at, parsed)
CheckDistinct ==
  /\ step = "distinct"
  /\ LET entity   == <<Unescaped(parsed.entity)>>
         key      == Bare(parsed.key.name)
         value    == Bare(parsed.value.name) IN
     IF \/ Clash(key, entity) \/ Clash(value, entity)
        \/ Clash(DeclaredIdent(parsed.key), value)
     THEN Refuse ELSE Goto("generate", at, parsed)
=============================================================================
