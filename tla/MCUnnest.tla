------------------------------- MODULE MCUnnest -------------------------------
(* Bodies for Unnest, put together from every way to enter and leave a block. *)
EXTENDS Unnest

C(n) == I("const", n)
Get(n) == I("get", n)
Call(n) == I("call", n)
Block(n) == I("block", n)
Br(n) == I("br", n)
BrIf(n) == I("br_if", n)
Table(n) == I("br_table", n)
Loop == I("loop", 0)
End == I("end", 0)
Pop == I("drop", 0)
Trap == I("trap", 0)
Obs == Call(0)

\* What follows the end of a block: tails, and code that only looks like one.
Continuations ==
  {<<C(1), Obs, Pop, Trap>>, <<>>, <<Get(0), Call(1), Trap>>,
   <<C(2), Pop>>, <<C(3), I("set", 1), Trap>>, <<Obs, Pop, Trap>>}

\* What is in the innermost of two blocks.
Inner ==
  {<<Get(0), BrIf(0), Get(0), C(3), I("add", 0), BrIf(1)>>,
   <<Get(0), I("if", 0), Br(1), End, Get(0), Obs, Pop>>,
   <<C(3), Get(0), BrIf(2), Pop>>,
   <<C(2), I("set", 1), Loop, Get(1), BrIf(1), Get(1), C(3), I("add", 0), I("tee", 1), BrIf(0), Br(2), End>>,
   <<Block(0), Get(0), Table(1), End, Get(0), Obs, Pop>>,
   <<Block(0), Block(1), C(1), Get(0), BrIf(3), Pop, C(1), Pop, C(2), End, Obs, Pop, End>>,
   <<Block(0), Get(0), BrIf(2), Get(0), Table(0), End>>,
   <<Block(0), Block(0), Block(0), Block(0), Get(0), Table(2), End, Get(0), Obs, Pop, End,
     Get(0), BrIf(1), End, C(3), Obs, Pop, End, C(2), Obs, Pop>>,
   <<Br(0)>>}

\* A continuation that uses a value from outside its block needs one there.
Outer(c) == IF c # <<>> /\ c[1] = Obs THEN <<C(1)>> ELSE <<>>

Fn(b) == [params |-> 1, extra |-> 1, result |-> 1, body |-> b]
Ladder(in, c, d) ==
  Fn(<<Block(0)>> \o Outer(d) \o Outer(c) \o <<Block(0)>> \o in \o <<End>> \o c \o <<End>> \o d \o <<C(0), End>>)

\* Continuations of the outer block never take a value from outside.
Bodies ==
  {Ladder(in, c, d) : in \in Inner, c \in Continuations, d \in {<<Trap>>, <<Get(0), Call(1), Trap>>, <<C(2), Pop>>}}

Host == <<[name |-> "obs", params |-> 1, result |-> 1, ends |-> FALSE],
          [name |-> "rollback", params |-> 1, result |-> 0, ends |-> TRUE]>>
Prog(f) == [imports |-> Host, hook |-> 2, funcs |-> (2 :> f @@ 3 :> Fn(<<Block(0), C(1), End, End>>))]
MCPrograms == {Prog(b) : b \in Bodies}
=============================================================================
