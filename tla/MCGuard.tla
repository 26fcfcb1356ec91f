------------------------------- MODULE MCGuard -------------------------------
(* Loops for Guard: plain, nested, in a helper, guarded, endless.             *)
EXTENDS Guard

C(n) == I("const", n)
Get(n) == I("get", n)
Put0(n) == I("set", n)
Call(n) == I("call", n)
Loop == I("loop", 0)
BrIf(n) == I("br_if", n)
End == I("end", 0)
Add == I("add", 0)
Pop == I("drop", 0)
Obs == Call(0)

Fn(b) == [params |-> 1, extra |-> 1, result |-> 1, body |-> b]
Down(l) == <<Get(l), C(Width-1), Add, I("tee", l)>>   \* local l, one less

\* A loop that runs as often as the argument says, doing b first.
Count(l, g, b) == <<Loop>> \o g \o b \o Down(l) \o <<BrIf(0), End>>
UserGuard(id, max, g) == IF g < 0 THEN <<>> ELSE <<C(id), C(max), Call(g), Pop>>

\* Bodies over: h the helper, g the index of _g or -1.
Hooks(h, g) ==
  {Fn(Count(0, <<>>, <<Get(0), Obs, Pop>>) \o <<C(0), End>>),
   Fn(Count(0, <<>>, <<C(2), Put0(1)>> \o Count(1, <<>>, <<>>)) \o <<C(0), End>>),
   Fn(Count(0, UserGuard(UserBase, 1, g), <<Get(0), Call(h), Pop>>) \o <<C(0), End>>),
   Fn(Count(0, UserGuard(UserBase, 2, g), <<Get(0), Obs, Pop>>) \o Count(0, <<>>, <<>>) \o <<C(0), End>>),
   Fn(Count(0, <<C(1), C(2), Add, Pop>>, <<>>) \o <<Get(0), Call(h), End>>),
   Fn(<<Loop, I("br", 0), End, C(0), End>>),
   Fn(<<Loop, C(1), C(2), Add, Pop, I("br", 0), End, C(0), End>>),
   Fn(<<Get(0), Call(h), End>>)}
Helpers(g) ==
  {Fn(Count(0, <<>>, <<C(2), Obs, Pop>>) \o <<C(3), End>>),
   Fn(Count(0, UserGuard(UserBase+1, 3, g), <<>>) \o <<C(3), End>>),
   Fn(<<Get(0), Obs, End>>)}

Host == <<[name |-> "obs", params |-> 1, result |-> 1, ends |-> FALSE]>>
HostG == Append(Host, GImport)
HostGFirst == <<Host[1], GImport, [name |-> "x", params |-> 1, result |-> 1, ends |-> FALSE]>>
Prog(imports, helper, hook) ==
  LET n == Len(imports) IN
  [imports |-> imports, hook |-> n, funcs |-> (n :> hook @@ n+1 :> helper)]

MCPrograms ==
  {Prog(Host, f, h) : f \in Helpers(-1), h \in Hooks(2, -1)}
  \cup {Prog(HostG, f, h) : f \in Helpers(1), h \in Hooks(3, 1)}
  \cup {Prog(HostGFirst, f, h) : f \in Helpers(1), h \in Hooks(4, 1)}
=============================================================================
