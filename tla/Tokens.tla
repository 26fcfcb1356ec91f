------------------------------- MODULE Tokens --------------------------------
(***************************************************************************)
(* The token streams that the procedural macros of crates/rshooks-macros   *)
(* read, and the state of one macro invocation while it is expanded.       *)
(*                                                                         *)
(* A token tree is [k, t, joint, in]: its kind, its text, whether it is a  *)
(* punctuation mark glued to the next one, and the trees of a group.       *)
(***************************************************************************)
EXTENDS Integers, Sequences

CONSTANTS Unraw   \* for an identifier with the r# escape, the same without

VARIABLES
  call,     \* the invocation: [macro, tokens, meant], meant what its author had in mind
  step,     \* its next step; "refused" once the macro reports an error
  at,       \* the cursor
  parsed,   \* what has been read so far
  out       \* what came of it

expansion == <<call, step, at, parsed, out>>

Tree(k, t, s) == [k |-> k, t |-> t, joint |-> FALSE, in |-> s]
Ident(t) == Tree("ident", t, <<>>)
Literal(t) == Tree("literal", t, <<>>)
Punct(t) == Tree("punct", t, <<>>)
Joint(t) == [Punct(t) EXCEPT !.joint = TRUE]
Brace(s) == Tree("brace", "", s)
Paren(s) == Tree("paren", "", s)
Bracket(s) == Tree("bracket", "", s)
ArrowTokens == <<Joint("="), Punct(">")>>
PathSep == <<Joint(":"), Punct(":")>>

Unescaped(t) == IF t \in DOMAIN Unraw THEN Unraw[t] ELSE t

IsKind(ts, i, k) == i \in DOMAIN ts /\ ts[i].k = k
IsWord(ts, i, t) == IsKind(ts, i, "ident") /\ ts[i].t = t
IsPunct(ts, i, t) == IsKind(ts, i, "punct") /\ ts[i].t = t
IsArrowAt(ts, i) == IsPunct(ts, i, "=") /\ IsPunct(ts, i + 1, ">")
IsBareEq(ts, i) == IsPunct(ts, i, "=") /\ ~IsPunct(ts, i + 1, ">")

\* The length of a visibility.
VisLen(ts, i) ==
  IF ~IsWord(ts, i, "pub") THEN 0 ELSE IF IsKind(ts, i + 1, "paren") THEN 2 ELSE 1

\* What a macro keeps of a run of tokens is its source text: the tokens, with
\* a gap before each one but where the tokenizer saw two marks touch.
TokensToString(ts) ==
  [i \in DOMAIN ts |-> [tok |-> [ts[i] EXCEPT !.joint = FALSE],
                        gap |-> i > 1 /\ ~ts[i - 1].joint]]

\* The parser that reads the generated source.
Lexed(text) ==
  [i \in DOMAIN text |->
    [text[i].tok EXCEPT !.joint =
      /\ i < Len(text)
      /\ text[i].tok.k = "punct" /\ text[i + 1].tok.k = "punct" /\ ~text[i + 1].gap]]

\* The first of some places in ts, one past its end if there is none.
FirstOf(hits, ts) ==
  IF hits = {} THEN Len(ts) + 1 ELSE CHOOSE j \in hits : \A k \in hits : j <= k

ArrowFrom(ts, i) == FirstOf({j \in i..Len(ts) : IsArrowAt(ts, j)}, ts)

Refuse == step' = "refused" /\ UNCHANGED <<call, at, parsed, out>>
Goto(s, i, p) == step' = s /\ at' = i /\ parsed' = p /\ UNCHANGED <<call, out>>
=============================================================================
