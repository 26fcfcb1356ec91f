------------------------------ MODULE MCFlatten ------------------------------
(* Programs for Flatten: a leaf, a function that calls it, hook and cbak.    *)
EXTENDS Flatten

C(n) == I("const", n)
Get(n) == I("get", n)
Put0(n) == I("set", n)
Call(n) == I("call", n)
Block(n) == I("block", n)
Loop == I("loop", 0)
If(n) == I("if", n)
Br(n) == I("br", n)
BrIf(n) == I("br_if", n)
Else == I("else", 0)
End == I("end", 0)
Ret == I("ret", 0)
Add == I("add", 0)
Eqz == I("eqz", 0)
Pop == I("drop", 0)
Trap == I("trap", 0)
Obs == Call(0)
Rollback == Call(1)

Fn(p, b) == [params |-> p, extra |-> 1, result |-> 1, body |-> b]

\* The leaves: one per way a body can return, branch and use its locals.
Leaves ==
  {Fn(1, <<Get(0), Obs, Put0(1), Get(1), Get(0), Add, End>>),
   Fn(2, <<Get(0), Obs, Pop, Get(1), Obs, I("tee", 2), Ret, End>>),
   Fn(1, <<Block(0), Get(0), BrIf(0), C(1), Ret, End, Get(0), Obs, Ret, End>>),
   Fn(1, <<Block(0), Block(0), Get(0), Eqz, BrIf(0), Get(0), Obs, Ret, End,
           C(2), Obs, Pop, End, C(3), End>>),
   Fn(1, <<Get(0), Put0(1), Block(0), Loop, Get(1), Eqz, BrIf(1), Get(1), Obs, Pop,
           Get(1), C(3), Add, Put0(1), Br(0), End, End, C(1), End>>),
   Fn(1, <<Get(0), If(1), C(1), Obs, Else, Get(0), End, End>>),
   Fn(1, <<Get(0), If(0), C(3), Rollback, Pop, Trap, End, C(2), End>>),
   Fn(1, <<Get(0), If(1), C(2), Ret, Else, Get(0), End, End>>)}

\* Indices of the defined functions, after two or three imports.
CallLeaf(l, leaf) == IF leaf.params = 2 THEN <<C(1), Call(l)>> ELSE <<Call(l)>>

Mids(l, leaf) ==
  {Fn(1, <<Get(0)>> \o CallLeaf(l, leaf) \o <<Get(0), C(1), Add>> \o CallLeaf(l, leaf) \o <<Add, End>>),
   Fn(1, <<Block(1), Get(0)>> \o CallLeaf(l, leaf) \o <<Get(0), BrIf(0), C(1), Add, End, End>>),
   Fn(1, <<Get(0)>> \o CallLeaf(l, leaf) \o <<Put0(1), Get(1), Ret, End>>)}

Hooks(l, leaf, m) ==
  {Fn(1, <<Get(0), Call(m), End>>),
   Fn(1, <<C(2), Put0(1), Loop, Get(1), Call(m), Obs, Pop,
           Get(1), C(3), Add, I("tee", 1), BrIf(0), End, Get(0), End>>),
   Fn(1, <<Get(0), If(1), C(1)>> \o CallLeaf(l, leaf) \o <<Else, Get(0), Call(m), End, Ret, End>>)}

Host == <<[name |-> "obs", type |-> 1, params |-> 1, result |-> 1, ends |-> FALSE],
          [name |-> "rollback", type |-> 2, params |-> 1, result |-> 1, ends |-> TRUE]>>
HostG == Append(Host, [name |-> "_g", type |-> 4, params |-> 2, result |-> 1, ends |-> FALSE])
Types == <<"helper", "i32->i32", "i32->i32", "entry", "g">>

Prog(imports, fs, hook, cbak) ==
  [imports |-> imports, types |-> Types, hook |-> hook, cbak |-> cbak,
   funcs |-> [k \in Len(imports) .. Len(imports)+Len(fs)-1 |-> fs[k-Len(imports)+1]]]

ThreeFunctions ==
  UNION {UNION {{Prog(Host, <<h, leaf, mid>>, 2, None) : h \in Hooks(3, leaf, 4)} :
                mid \in Mids(3, leaf)} : leaf \in Leaves}

\* _g imported already; a helper shared by two entry points.
TwoEntries ==
  {Prog(HostG, <<leaf, Fn(1, <<Get(0)>> \o CallLeaf(3, leaf) \o <<End>>),
                 Fn(1, <<C(1)>> \o CallLeaf(3, leaf) \o <<Obs, Ret, End>>)>>, 4, 5) :
     leaf \in Leaves}

\* Recursion, and a module without hook.
Refused ==
  {Prog(Host, <<Fn(1, <<Get(0), Call(3), End>>), Fn(1, <<Get(0), Call(4), End>>),
                Fn(1, <<Get(0), Call(3), End>>)>>, 2, None),
   Prog(Host, <<Fn(1, <<Get(0), End>>)>>, None, None)}

MCPrograms == ThreeFunctions \cup TwoEntries \cup Refused

\* A callee that reads a local it never wrote, called from a loop.
StalePrograms ==
  {Prog(Host, <<h, Fn(1, <<Get(1), Obs, Pop, Get(0), Put0(1), Get(1), End>>)>>, 2, None) :
     h \in {Fn(1, <<C(2), Put0(1), Loop, Get(1), Call(3), Obs, Pop,
                    Get(1), C(3), Add, I("tee", 1), BrIf(0), End, Get(0), End>>)}}

\* A callee without a "return" that branches to its function's own label.
LabelPrograms ==
  {Prog(Host, <<Fn(1, <<Block(1), Get(0), Call(3), Obs, End, End>>),
                Fn(1, <<Block(0), C(1), Get(0), BrIf(1), Pop, End, Get(0), Obs, End>>)>>, 2, None)}
=============================================================================
