------------------------------ MODULE Carrier --------------------------------
(***************************************************************************)
(* The macros of a Hook crate that reach the file it is built from:        *)
(* #[hook] and #[cbak] (rshooks-macros/src/lib.rs), metadata! (metadata.rs *)
(* there), which hides its declaration in the name of an export, and the   *)
(* builder that finds it and writes the sidecar (rshooks-build/src/        *)
(* metadata.rs).                                                           *)
(*                                                                         *)
(* A crate is a sequence of invocations, [macro, attr, tokens]; `hand` are *)
(* exports written without these macros, `emits` whether the final wasm    *)
(* imports emit.  A string is the sequence of its characters, a character  *)
(* the number of its UTF-8 bytes and what it is.                           *)
(***************************************************************************)
EXTENDS Tokens, TxTypes, FiniteSets

CONSTANTS StringOf   \* what a string literal denotes

Texts == {"name", "description", "HookName"}
Lists == {"HookOn", "IncomingHookOn", "OutgoingHookOn", "HookCanEmit"}
NoMetadata == [f \in Texts \cup Lists |-> <<>>]   \* every field an option

ElementsOf(s) == {s[i] : i \in DOMAIN s}
Expanding(macros) == call.macro = "crate" /\ call.now.macro \in macros

\* What an invocation leaves in the crate, and the next one.
Item(kind, name, of) == [item |-> kind, name |-> name, of |-> of]
Leave(items) ==
  /\ out' = out \o items
  /\ call' = IF call.rest = <<>> THEN call
             ELSE [call EXCEPT !.now = Head(call.rest), !.rest = Tail(@)]
  /\ step' = IF call.rest = <<>> THEN "crate" ELSE "item"
  /\ at' = 1 /\ parsed' = NoMetadata

-----------------------------------------------------------------------------
(* #[hook] and #[cbak] *)

RECURSIVE SkipItemAttrs(_, _)
SkipItemAttrs(ts, i) ==
  IF IsPunct(ts, i, "#") /\ IsKind(ts, i + 1, "bracket") THEN SkipItemAttrs(ts, i + 2) ELSE i

\* The name of a plain fn without arguments that returns i64.
ExtractFnName(ts) ==
  LET a == SkipItemAttrs(ts, 1)
      n == a + VisLen(ts, a) + 1 IN
  IF /\ IsWord(ts, n - 1, "fn") /\ IsKind(ts, n, "ident")
     /\ IsKind(ts, n + 1, "paren") /\ ts[n + 1].in = <<>>
     /\ IsPunct(ts, n + 2, "-") /\ IsPunct(ts, n + 3, ">") /\ IsWord(ts, n + 4, "i64")
     /\ IsKind(ts, n + 5, "brace") /\ Len(ts) = n + 5
  THEN <<ts[n].t>> ELSE <<>>

EntryPoint ==
  /\ step = "item" /\ Expanding({"hook", "cbak"})
  /\ LET name == ExtractFnName(call.now.tokens) IN
     IF call.now.attr # <<>> \/ name = <<>> THEN Refuse
     ELSE Leave(<<Item("fn", name, <<>>), Item("fn", <<call.now.macro>>, name),
                  Item("export", <<call.now.macro>>, <<>>)>>)

-----------------------------------------------------------------------------
(* metadata! *)

ParseString(ts, i) ==
  IF IsKind(ts, i, "literal") /\ ts[i].t \in DOMAIN StringOf THEN <<StringOf[ts[i].t]>> ELSE <<>>

RECURSIVE VariantsFrom(_, _, _)
VariantsFrom(ts, i, done) ==
  IF i > Len(ts) THEN <<done>>
  ELSE IF ~IsKind(ts, i, "ident") \/ ts[i].t \in ElementsOf(done) THEN <<>>
  ELSE IF i < Len(ts) /\ ~IsPunct(ts, i + 1, ",") THEN <<>>
  ELSE VariantsFrom(ts, i + 2, Append(done, ts[i].t))
ParseVariants(ts, i) == IF IsKind(ts, i, "bracket") THEN VariantsFrom(ts[i].in, 1, <<>>) ELSE <<>>

\* One turn of the loop of `parse`.
ParseField ==
  /\ step = "item" /\ Expanding({"metadata!"}) /\ at <= Len(call.now.tokens)
  /\ LET ts    == call.now.tokens
         f     == ts[at].t
         value == IF f \in Texts THEN ParseString(ts, at + 2) ELSE ParseVariants(ts, at + 2) IN
     IF /\ IsKind(ts, at, "ident") /\ IsPunct(ts, at + 1, ":")
        /\ f \in DOMAIN parsed /\ parsed[f] = <<>> /\ value # <<>>
        /\ at + 3 <= Len(ts) => IsPunct(ts, at + 3, ",")
     THEN Goto("item", at + 4, [parsed EXCEPT ![f] = value])
     ELSE Refuse

\* HookOn, or the two directions, or neither.
TriggersOk(m) ==
  LET on == m["HookOn"] # <<>>
      in == m["IncomingHookOn"] # <<>>
      to == m["OutgoingHookOn"] # <<>> IN
  /\ in = to /\ ~(on /\ in)
  /\ in /\ to => ElementsOf(m["IncomingHookOn"][1]) # ElementsOf(m["OutgoingHookOn"][1])

NameLenOk(m) == m["HookName"] # <<>> => Len(m["HookName"][1]) \in 2..8
HasName(m) == m["name"] # <<>> /\ m["name"][1] # <<>>

\* The JSON of the fields there are, in the order of their names, byte by
\* byte in upper-case hex.
KeyOrder ==
  <<"HookCanEmit", "HookName", "HookOn", "IncomingHookOn", "OutgoingHookOn", "description", "name">>
EncodeJson(m) ==
  SelectSeq([i \in DOMAIN KeyOrder |-> <<KeyOrder[i], m[KeyOrder[i]]>>], LAMBDA e : e[2] # <<>>)
HexUpper(bytes) ==
  [i \in 1..2 * Len(bytes) |->
    [digit |-> IF i % 2 = 1 THEN "high" ELSE "low", upper |-> TRUE, of |-> bytes[(i + 1) \div 2]]]

Prefix == "__rshooks_metadata_v1_"
Variants(m) ==
  UNION {IF m[f] = <<>> THEN {} ELSE ElementsOf(m[f][1]) : f \in Lists}

\* validate, and the items of `expand`: a constant for every type that is
\* named, so that the compiler checks it, and the carrier, a function that
\* is named after the digest of what it carries.
ExpandMetadata ==
  /\ step = "item" /\ Expanding({"metadata!"}) /\ at > Len(call.now.tokens)
  /\ IF ~HasName(parsed) \/ ~TriggersOk(parsed) \/ ~NameLenOk(parsed) THEN Refuse
     ELSE LET json == EncodeJson(parsed) IN
       Leave(<<Item("types", <<>>, Variants(parsed)),
               Item("fn", <<"__rshooks_metadata_", json>>, <<>>),
               Item("export", <<Prefix, HexUpper(json)>>, <<>>)>>)

-----------------------------------------------------------------------------
(* rustc, and the exports of the raw wasm *)

IsExport(e) == e.item = "export"
CompileCrate ==
  /\ step = "crate"
  /\ IF \/ \E i, j \in DOMAIN out : i < j /\ out[i].item = "fn" /\ out[j].item = "fn"
                                     /\ out[i].name = out[j].name
        \/ \E i \in DOMAIN out : out[i].item = "types"
                                  /\ \E t \in out[i].of : Unescaped(t) \notin DOMAIN Variant
     THEN step' = "rejected" /\ UNCHANGED out
     ELSE /\ step' = "raw"
          /\ out' = [e \in DOMAIN SelectSeq(out, IsExport) |->
                      [name |-> SelectSeq(out, IsExport)[e].name, func |-> TRUE]] \o call.hand
  /\ UNCHANGED <<call, at, parsed>>

-----------------------------------------------------------------------------
(* The builder *)

None == [ok |-> TRUE, meta |-> <<>>]
Bad == [ok |-> FALSE, meta |-> <<>>]

DecodeUpperHex(digits) ==
  IF digits = <<>> \/ Len(digits) % 2 # 0 \/ \E i \in DOMAIN digits : ~digits[i].upper
  THEN <<>> ELSE <<[i \in 1..Len(digits) \div 2 |-> digits[2 * i].of]>>

\* serde_json: the name is required, unknown fields are refused.
FromJson(bytes) ==
  LET keys == {bytes[i][1] : i \in DOMAIN bytes} IN
  IF "name" \notin keys \/ ~(keys \subseteq DOMAIN NoMetadata) THEN <<>>
  ELSE <<[f \in DOMAIN NoMetadata |->
           IF f \in keys THEN bytes[CHOOSE i \in DOMAIN bytes : bytes[i][1] = f][2] ELSE <<>>]>>

ValidateTransactionTypes(list) ==
  list # <<>> =>
    /\ ElementsOf(list[1]) \subseteq ElementsOf(TransactionTypes)
    /\ Cardinality(ElementsOf(list[1])) = Len(list[1])

ValidateHookMetadata(m) ==
  /\ HasName(m) /\ TriggersOk(m) /\ NameLenOk(m)
  /\ \A f \in Lists : ValidateTransactionTypes(m[f])

\* extract_metadata, export by export.
RECURSIVE ExtractFrom(_, _, _)
ExtractFrom(exports, i, found) ==
  IF i > Len(exports) THEN found
  ELSE IF exports[i].name[1] # Prefix THEN ExtractFrom(exports, i + 1, found)
  ELSE LET json == DecodeUpperHex(exports[i].name[2])
           meta == IF json = <<>> THEN <<>> ELSE FromJson(json[1]) IN
    IF found.meta # <<>> \/ ~exports[i].func \/ meta = <<>> THEN Bad
    ELSE IF ~ValidateHookMetadata(meta[1]) THEN Bad
    ELSE ExtractFrom(exports, i + 1, [ok |-> TRUE, meta |-> meta])

\* hook_mask: the bits that are set, of 256.
FlipBit(bits, b) == IF b \in bits THEN bits \ {b} ELSE bits \cup {b}
RECURSIVE FlipTypes(_, _, _)
FlipTypes(bits, list, i) ==
  IF i > Len(list) THEN bits
  ELSE LET at_ == CHOOSE p \in DOMAIN TransactionTypes : TransactionTypes[p] = list[i] IN
    FlipTypes(FlipBit(bits, TransactionTypeCodes[at_]), list, i + 1)
HookMask(list) ==
  IF list = <<>> THEN <<>>
  ELSE LET bits == FlipTypes((0..255) \ {22}, list[1], 1) IN IF bits = {} THEN <<>> ELSE <<bits>>

\* The keys of the document that speak of triggers and of the name.
Document(m) ==
  LET triggers == IF m["IncomingHookOn"] # <<>> THEN {"HookOnIncoming", "HookOnOutgoing"}
                  ELSE {"HookOn"} IN
  [k \in triggers \cup {"HookCanEmit", "HookName"} |->
    CASE k = "HookOnIncoming" -> HookMask(m["IncomingHookOn"])
      [] k = "HookOnOutgoing" -> HookMask(m["OutgoingHookOn"])
      [] k = "HookName" -> m["HookName"]
      [] OTHER -> HookMask(m[k])]

RECURSIVE ByteLen(_)
ByteLen(s) == IF s = <<>> THEN 0 ELSE Head(s).bytes + ByteLen(Tail(s))

\* What build_metadata warns of.
Warnings(m, emits) ==
  {w \in {"unused HookCanEmit", "undeclared emit", "HookName bytes"} :
    CASE w = "unused HookCanEmit" -> m["HookCanEmit"] # <<>> /\ ~emits
      [] w = "undeclared emit"    -> m["HookCanEmit"] = <<>> /\ emits
      [] OTHER -> m["HookName"] # <<>> /\ ByteLen(m["HookName"][1]) \notin 4..16}

ExtractMetadata ==
  /\ step = "raw"
  /\ LET found == ExtractFrom(out, 1, None) IN
     out' = [exports |-> out, found |-> found,
             document |-> IF found.meta = <<>> THEN <<>> ELSE <<Document(found.meta[1])>>,
             warnings |-> IF found.meta = <<>> THEN {} ELSE Warnings(found.meta[1], call.emits)]
  /\ step' = "extracted"
  /\ UNCHANGED <<call, at, parsed>>

CrateNext == EntryPoint \/ ParseField \/ ExpandMetadata \/ CompileCrate \/ ExtractMetadata

-----------------------------------------------------------------------------
(* Properties *)

\* A transaction fires the Hook (or may be emitted): the bit of its type is
\* clear, the one of SetHook set.
Fires(mask, c) == IF c = 22 THEN c \in mask ELSE c \notin mask
FiresOn(mask, types) ==
  \A c \in 0..255 : Fires(mask, c) = (FromCode(c).known /\ FromCode(c).type \in types)

Spells(m) == {t \in Variants(m) : t \in DOMAIN Unraw}

\* What the author declared is what the sidecar says: a crate that compiles
\* with one declaration (and no carrier written by hand) gives that one back,
\* unless a type is spelled with the r# escape, which the builder refuses;
\* with several it gives an error, never one of them; with none, none.  Each
\* mask fires exactly on the transactions that otxn_type calls by the names
\* in the list, and the Hook's entry point is exported once.
MetadataSurvives ==
  call.macro = "crate" /\ step = "extracted" =>
    LET found == out.found
        m     == call.meant[1]
        d     == out.document[1] IN
    /\ call.hand = <<>> =>
         CASE Len(call.meant) = 0 -> found = None
           [] Len(call.meant) > 1 -> ~found.ok
           [] OTHER -> IF Spells(m) # {} THEN ~found.ok ELSE found.ok /\ found.meta = <<m>>
    /\ found.ok /\ found.meta # <<>> =>
         \A p \in {<<"HookOn", "HookOn">>, <<"IncomingHookOn", "HookOnIncoming">>,
                   <<"OutgoingHookOn", "HookOnOutgoing">>, <<"HookCanEmit", "HookCanEmit">>} :
           LET list == found.meta[1][p[1]]
               mask == IF p[2] \in DOMAIN d THEN d[p[2]] ELSE <<>> IN
           IF list = <<>> THEN mask = <<>> ELSE FiresOn(mask[1], ElementsOf(list[1]))
    /\ \A i, j \in DOMAIN out.exports :
         out.exports[i].name = <<"hook">> /\ out.exports[j].name = <<"hook">> => i = j
=============================================================================
