------------------------------ MODULE Literals -------------------------------
(***************************************************************************)
(* The macros that compute a value from a literal: XFL! (rshooks-macros/   *)
(* src/xfl_literal.rs) and account_id! (lib.rs and base58.rs there); and   *)
(* paste, which makes the names of the setters of txn_template! (lib.rs).  *)
(*                                                                         *)
(* A number is what the tokenizer saw: [kind, int, frac, exp, suffix], its *)
(* runs of digits with their underscores.  An address is a sequence of     *)
(* symbols, by their place in ALPHABET; a symbol outside of it is Radix.   *)
(***************************************************************************)
EXTENDS Tokens

CONSTANTS
  MantissaDigits, MinExponent, MaxExponent, MaxI64,   \* of an XFL
  Radix, ByteSize,          \* 58 and 256
  PayloadLen, ChecksumLen,  \* the bytes of an account and of its checksum
  Sha(_)                    \* the start of the double SHA-256 of a payload

-----------------------------------------------------------------------------
(* XFL! *)

Underscore == 10   \* next to the digits 0 to 9
Stripped(run) == SelectSeq(run, LAMBDA c : c # Underscore)

\* saturating_mul(10).saturating_add(digit), digit by digit.
LeastOf(a, b) == IF a <= b THEN a ELSE b
RECURSIVE Accumulated(_)
Accumulated(run) ==
  IF run = <<>> THEN 0
  ELSE LeastOf(MaxI64, Accumulated(SubSeq(run, 1, Len(run) - 1)) * 10 + run[Len(run)])
Saturated(n) == IF n > MaxI64 THEN MaxI64 ELSE IF n < -MaxI64 - 1 THEN -MaxI64 - 1 ELSE n

RECURSIVE StripLeading(_)
StripLeading(d) == IF d # <<>> /\ Head(d) = 0 THEN StripLeading(Tail(d)) ELSE d
RECURSIVE StripTrailing(_, _)
StripTrailing(d, e) ==
  IF d # <<>> /\ d[Len(d)] = 0
  THEN StripTrailing(SubSeq(d, 1, Len(d) - 1), Saturated(e + 1)) ELSE [digits |-> d, exponent |-> e]

RECURSIVE Number(_)
Number(d) == IF d = <<>> THEN 0 ELSE Number(SubSeq(d, 1, Len(d) - 1)) * 10 + d[Len(d)]

Rejected == [ok |-> FALSE]
Bits(sign, exponent, mantissa) ==
  [ok |-> TRUE, sign |-> sign, exponent |-> exponent, mantissa |-> mantissa]
Zero == Bits(0, 0, 0)

MutEncode(lit, negative) ==
  LET frac == Stripped(lit.frac)
      d    == StripLeading(Stripped(lit.int) \o frac)
      exp  == IF lit.exp = <<>> THEN 0
              ELSE Accumulated(Stripped(lit.exp[1].digits)) * IF lit.exp[1].negative THEN -1 ELSE 1
      pad  == MantissaDigits - Len(d)
      e    == Saturated(Saturated(exp - Len(frac)) - pad) IN
  IF lit.kind # "decimal" \/ lit.suffix THEN Rejected
  ELSE IF d = <<>> THEN Zero
  ELSE IF pad < 0 \/ e < MinExponent \/ e > MaxExponent THEN Rejected
  ELSE Bits(IF negative THEN 0 ELSE 1, e, Number(d \o [i \in 1..pad |-> 0]))
Encode(lit, negative) ==
  LET frac == Stripped(lit.frac)
      exp  == IF lit.exp = <<>> THEN 0
              ELSE Accumulated(Stripped(lit.exp[1].digits)) * IF lit.exp[1].negative THEN -1 ELSE 1
      all  == StripLeading(Stripped(lit.int) \o frac)
      n    == StripTrailing(all, Saturated(exp - Len(frac)))
      pad  == MantissaDigits - Len(n.digits)
      e    == Saturated(n.exponent - pad) IN
  IF lit.kind # "decimal" \/ lit.suffix THEN Rejected
  ELSE IF all = <<>> THEN Zero
  ELSE IF pad < 0 \/ e < MinExponent \/ e > MaxExponent THEN Rejected
  ELSE Bits(IF negative THEN 0 ELSE 1, e, Number(n.digits \o [i \in 1..pad |-> 0]))

Produced(x) ==
  /\ out' = x
  /\ step' = IF x.ok THEN "produced" ELSE "refused"
  /\ UNCHANGED <<call, at, parsed>>

\* A minus, perhaps, and one literal.
ExpandXFL ==
  /\ call.macro = "XFL!" /\ step = "literal"
  /\ LET negative == IsPunct(call.tokens, 1, "-")
         i        == IF negative THEN 2 ELSE 1 IN
     IF ~IsKind(call.tokens, i, "literal") \/ Len(call.tokens) > i THEN Refuse
     ELSE Produced(Encode(call.literal, negative))

-----------------------------------------------------------------------------
(* account_id! *)

\* num * Radix + carry, least significant byte first.
RECURSIVE MulAdd(_, _, _)
MulAdd(num, i, carry) ==
  IF i <= Len(num)
  THEN LET c == carry + num[i] * Radix IN
    MulAdd([num EXCEPT ![i] = c % ByteSize], i + 1, c \div ByteSize)
  ELSE IF carry > 0 THEN MulAdd(Append(num, carry % ByteSize), Len(num) + 2, carry \div ByteSize)
  ELSE num
RECURSIVE Accumulate58(_, _, _)
Accumulate58(s, i, num) == IF i > Len(s) THEN num ELSE Accumulate58(s, i + 1, MulAdd(num, 1, s[i]))

RECURSIVE LeadingZeros(_)
LeadingZeros(s) == IF s # <<>> /\ Head(s) = 0 THEN 1 + LeadingZeros(Tail(s)) ELSE 0

Base58Decode(s) ==
  LET num == Accumulate58(s, 1, <<>>) IN
  [i \in 1..LeadingZeros(s) |-> 0] \o [i \in DOMAIN num |-> num[Len(num) + 1 - i]]

DecodedLen == 1 + PayloadLen + ChecksumLen
DecodeAddress(s) ==
  IF \E i \in DOMAIN s : s[i] = Radix THEN Rejected
  ELSE LET decoded == Base58Decode(s) IN
    IF \/ Len(decoded) # DecodedLen \/ decoded[1] # 0
       \/ SubSeq(decoded, PayloadLen + 2, DecodedLen) # Sha(SubSeq(decoded, 1, PayloadLen + 1))
    THEN Rejected ELSE [ok |-> TRUE, account |-> SubSeq(decoded, 2, PayloadLen + 1)]

\* One string literal; unquote_str takes neither raw nor byte strings.
ExpandAccountId ==
  /\ call.macro = "account_id!" /\ step = "literal"
  /\ IF Len(call.tokens) # 1 \/ ~IsKind(call.tokens, 1, "literal") \/ call.literal.kind # "string"
     THEN Refuse ELSE Produced(DecodeAddress(call.literal.text))

-----------------------------------------------------------------------------
(* paste *)

\* The inside of a bracket that is a splice: [< ident ident .. >].
IsMarker(ts) ==
  /\ Len(ts) >= 3 /\ IsPunct(ts, 1, "<") /\ IsPunct(ts, Len(ts), ">")
  /\ \A i \in 2..Len(ts) - 1 : IsKind(ts, i, "ident")
Marks(tree) == tree.k = "bracket" /\ IsMarker(tree.in)

RECURSIVE Concatenated(_, _)
Concatenated(ts, n) == IF n = 1 THEN "" ELSE Concatenated(ts, n - 1) \o ts[n].t

RECURSIVE RewriteStream(_)
RewriteStream(ts) ==
  [i \in DOMAIN ts |->
    IF Marks(ts[i]) THEN Ident(Concatenated(ts[i].in, Len(ts[i].in) - 1))
    ELSE [ts[i] EXCEPT !.in = RewriteStream(@)]]

\* The text of an escaped identifier keeps its r#, and Ident::new panics on
\* what is made with it.
RECURSIVE Unnameable(_)
Unnameable(ts) ==
  \E i \in DOMAIN ts :
    IF Marks(ts[i]) THEN \E j \in DOMAIN ts[i].in : ts[i].in[j].t \in DOMAIN Unraw
    ELSE Unnameable(ts[i].in)

ExpandPaste ==
  /\ call.macro = "paste" /\ step = "literal"
  /\ IF Unnameable(call.tokens) THEN Refuse
     ELSE Produced([ok |-> TRUE, tokens |-> RewriteStream(call.tokens)])

LiteralNext == ExpandXFL \/ ExpandAccountId \/ ExpandPaste

-----------------------------------------------------------------------------
(* Properties *)

\* n * 10^x = m * 10^y, for numbers of at most four digits.
SameValue(n, x, m, y) ==
  IF x >= y THEN x - y <= 5 /\ n * 10^(x - y) = m ELSE y - x <= 5 /\ n = m * 10^(y - x)

\* The number a literal denotes, as an integer and a power of ten.
Digits(lit) == Number(Stripped(lit.int) \o Stripped(lit.frac))
Power(lit) ==
  (IF lit.exp = <<>> THEN 0
   ELSE Number(Stripped(lit.exp[1].digits)) * IF lit.exp[1].negative THEN -1 ELSE 1)
  - Len(Stripped(lit.frac))
Mantissas == 10^(MantissaDigits - 1)..10^MantissaDigits - 1
Representable(lit) ==
  \/ Digits(lit) = 0
  \/ \E m \in Mantissas, e \in MinExponent..MaxExponent : SameValue(Digits(lit), Power(lit), m, e)

\* The text of some bytes in base Radix: a zero symbol for each leading zero,
\* then the number without leading zeros.
RECURSIVE ValueOf(_)
ValueOf(bytes) ==
  IF bytes = <<>> THEN 0 ELSE ValueOf(SubSeq(bytes, 1, Len(bytes) - 1)) * ByteSize + bytes[Len(bytes)]
RECURSIVE InRadix(_)
InRadix(n) == IF n = 0 THEN <<>> ELSE Append(InRadix(n \div Radix), n % Radix)
Base58Encode(bytes) == [i \in 1..LeadingZeros(bytes) |-> 0] \o InRadix(ValueOf(bytes))
AddressOf(account) == Base58Encode(<<0>> \o account \o Sha(<<0>> \o account))

\* A literal is what it says or it is refused: XFL! produces the number of
\* its decimal literal, exactly, in the one normal form (zero without sign),
\* and refuses only what no XFL is equal to; account_id! takes exactly the
\* addresses of accounts, each for its own account; paste writes the one name
\* that is meant in the place of each splice, at any depth, and nothing else,
\* unless a part of a name is escaped.
LiteralsExact ==
  /\ call.macro = "XFL!" /\ step \in {"produced", "refused"} =>
       LET lit      == call.literal
           negative == call.tokens = <<Punct("-"), Literal("number")>>
           one      == negative \/ call.tokens = <<Literal("number")>> IN
       /\ (step = "produced") =
            (one /\ lit.kind = "decimal" /\ ~lit.suffix /\ Representable(lit))
       /\ step = "produced" =>
            IF Digits(lit) = 0 THEN out = Zero
            ELSE /\ out.mantissa \in Mantissas /\ out.exponent \in MinExponent..MaxExponent
                 /\ SameValue(Digits(lit), Power(lit), out.mantissa, out.exponent)
                 /\ out.sign = IF negative THEN 0 ELSE 1
  /\ call.macro = "account_id!" /\ step \in {"produced", "refused"} =>
       LET text == call.literal.text
           of   == {a \in [1..PayloadLen -> 0..ByteSize - 1] : AddressOf(a) = text}
           one  == call.tokens = <<Literal("address")>> /\ call.literal.kind = "string" IN
       IF one /\ of # {} THEN step = "produced" /\ of = {out.account} ELSE step = "refused"
  /\ call.macro = "paste" /\ step \in {"produced", "refused"} =>
       IF call.escaped THEN step = "refused"
       ELSE step = "produced" /\ out.tokens = call.meant
=============================================================================
