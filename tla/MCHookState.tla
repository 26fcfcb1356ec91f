----------------------------- MODULE MCHookState -----------------------------
(* Bytes of one bit, two-byte wide words, three-byte keys: enough for keys  *)
(* of two lengths, entries shorter and longer than a word, and a top bit.   *)
EXTENDS HookState, TLC

\* Stores its argument plus one, wrapping; absent counts as zero.
Increment(n) ==
  [w \in Word(n) \cup {<< >>} |->
     LET v == IF w = << >> THEN [i \in 1 .. n |-> 0] ELSE w
     IN  [i \in 1 .. n |-> IF \A j \in 1 .. i - 1 : v[j] = 1 THEN 1 - v[i] ELSE v[i]]]

Saturate(n) == [w \in Word(n) \cup {<< >>} |-> [i \in 1 .. n |-> 1]]

MCClosures == [n \in Widths |-> {Increment(n), Saturate(n)}]
MCRawData  == {<< >>, <<1, 0>>, <<1, 0, 1>>}

UnitFirst  == <<0, 1>>
TupleFirst == <<1, 0>>
=============================================================================
