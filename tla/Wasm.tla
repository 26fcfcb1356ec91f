-------------------------------- MODULE Wasm --------------------------------
(***************************************************************************)
(* The part of WebAssembly that the passes of rshooks-build transform, as  *)
(* the interpreter of the differential tests runs it: structured control,  *)
(* locals, calls to host functions and to defined functions.               *)
(*                                                                         *)
(* A body is a flat sequence of operators closed by its own "end", which   *)
(* is how wasmparser delivers it and how the passes rewrite it.            *)
(***************************************************************************)
EXTENDS Integers, FiniteSets, SequencesExt

CONSTANT Width    \* values are taken modulo Width

ASSUME WasmWidth == Width \in Nat \ {0}

\* An operator and its immediate: a constant, a local, a callee, a branch
\* depth, or the number of results of a construct.  A br_table has one entry,
\* depth 0, and n is its default.
I(op, n) == [op |-> op, n |-> n]
Ops == {"const", "get", "set", "tee", "add", "eqz", "drop", "call", "block",
        "loop", "if", "else", "end", "br", "br_if", "br_table", "ret", "trap"}
Operator == [op : Ops, n : Nat]

LocalOps  == {"get", "set", "tee"}
BranchOps == {"br", "br_if", "br_table"}
Opens(i)  == i.op \in {"block", "loop", "if"}

\* Constructs open after the first k operators; the last "end" makes it -1.
Depth(b, k) ==
  Cardinality({j \in 1 .. k : Opens(b[j])}) - Cardinality({j \in 1 .. k : b[j].op = "end"})

EndOf(b, k) ==
  CHOOSE j \in k+1 .. Len(b) :
    /\ b[j].op = "end" /\ Depth(b, j) = Depth(b, k) - 1
    /\ \A i \in k+1 .. j-1 : Depth(b, i) >= Depth(b, k)

ElseOf(b, k) == {j \in k+1 .. EndOf(b, k) : b[j].op = "else" /\ Depth(b, j) = Depth(b, k)}

\* Function bodies: parameters, other locals, results (0 or 1).
Function == [params : Nat, extra : Nat, result : 0 .. 1, body : Seq(Operator)]

\* What the validator of WebAssembly asks of a body, but for operand types.
ValidBody(f, funcs) ==
  LET b == f.body IN
  /\ b # <<>> /\ Depth(b, Len(b)) = -1
  /\ \A k \in 1 .. Len(b)-1 : Depth(b, k) >= 0
  /\ \A k \in 1 .. Len(b) :
       /\ b[k].op \in LocalOps  => b[k].n < f.params + f.extra
       /\ b[k].op \in BranchOps => b[k].n <= Depth(b, k)
       /\ b[k].op = "call" => b[k].n \in funcs

-----------------------------------------------------------------------------
(* Execution.  A program p has p.imports, a sequence of host functions, and *)
(* p.funcs, the functions defined at the indices after them.                *)

Tail0(s, n) == SubSeq(s, Len(s)-n+1, Len(s))      \* the n topmost values
Drop0(s, n) == SubSeq(s, 1, Len(s)-n)

Enter(f, fn, args) ==
  [fn |-> fn, pc |-> 1, stack |-> <<>>, labels |-> <<>>,
   locals |-> args \o [k \in 1 .. f.extra |-> 0]]

Start(p, fn, arg) ==
  [frames |-> <<Enter(p.funcs[fn], fn, <<arg>>)>>, trace |-> <<>>,
   status |-> "run", result |-> <<>>]

\* The host's answer, a pure function of the arguments.
Answer(args) == IF args = <<>> THEN 0 ELSE (args[1] + 1) % Width

\* The frame of the running function, and the operator it is at.
Active(s)     == s.frames[Len(s.frames)]
Current(p, s) == p.funcs[Active(s).fn].body[Active(s).pc]
Upper(st)     == st[Len(st)]

\* The active function goes on at pc, with these operands, labels and locals.
GoOn(s, pc, st, ls, locals) ==
  LET f == [fn |-> Active(s).fn, pc |-> pc, stack |-> st, labels |-> ls, locals |-> locals] IN
  [frames |-> [s.frames EXCEPT ![Len(s.frames)] = f],
   trace |-> s.trace, status |-> s.status, result |-> s.result]
Then(s, st, ls) == GoOn(s, Active(s).pc + 1, st, ls, Active(s).locals)

Halt(s, status, result) ==
  [frames |-> <<>>, trace |-> s.trace, status |-> status, result |-> result]

\* What a validator would have rejected.
Invalid(s) == Halt(s, "invalid", s.result)

\* The active function returns, with the operands st.
Leave(p, s, st) ==
  LET n   == Len(s.frames)
      r   == p.funcs[Active(s).fn].result
      res == Tail0(st, r)
      to  == s.frames[n-1] IN
  IF Len(st) < r THEN Invalid(s)
  ELSE IF n = 1 THEN Halt(s, "done", res)
  ELSE [frames |-> [SubSeq(s.frames, 1, n-1) EXCEPT ![n-1] =
                      [fn |-> to.fn, pc |-> to.pc, stack |-> to.stack \o res,
                       labels |-> to.labels, locals |-> to.locals]],
        trace |-> s.trace, status |-> s.status, result |-> s.result]

\* A branch to the d-th label from within; d-th of m is the body itself.
Branch(p, s, d, st) ==
  LET f == Active(s)
      m == Len(f.labels)
      l == f.labels[m-d] IN
  IF d > m THEN Invalid(s)
  ELSE IF d = m THEN Leave(p, s, st)
  ELSE IF Len(st) < l.height + l.arity THEN Invalid(s)
  ELSE GoOn(s, l.to, SubSeq(st, 1, l.height) \o Tail0(st, l.arity),
            SubSeq(f.labels, 1, m - d - (IF l.loop THEN 0 ELSE 1)), f.locals)

HostCall(p, s, k) ==
  LET h    == p.imports[k+1]
      st   == Active(s).stack
      args == Tail0(st, h.params)
      res  == IF h.result = 1 THEN <<Answer(args)>> ELSE <<>> IN
  [frames |-> Then(s, Drop0(st, h.params) \o res, Active(s).labels).frames,
   trace |-> Append(s.trace, <<h.name, args>>),
   status |-> IF h.ends THEN "ended" ELSE s.status, result |-> s.result]

GuestCall(p, s, k) ==
  LET g  == p.funcs[k]
      st == Active(s).stack IN
  [frames |-> Append(Then(s, Drop0(st, g.params), Active(s).labels).frames,
                     Enter(g, k, Tail0(st, g.params))),
   trace |-> s.trace, status |-> s.status, result |-> s.result]

\* The operands that an operator takes.
Takes(p, i) ==
  CASE i.op \in {"set", "tee", "eqz", "drop", "if", "br_if", "br_table"} -> 1
    [] i.op = "add"  -> 2
    [] i.op = "call" -> IF i.n < Len(p.imports) THEN p.imports[i.n+1].params ELSE p.funcs[i.n].params
    [] OTHER -> 0

Entering(s, to, arity, loop, st) ==
  Append(Active(s).labels, [to |-> to, height |-> Len(st), arity |-> arity, loop |-> loop])

\* An "if" whose condition is false: to its "else", if it has one.
Otherwise(b, s, i, st) ==
  LET f   == Active(s)
      end == EndOf(b, f.pc)
      alt == ElseOf(b, f.pc) IN
  IF alt = {} THEN GoOn(s, end + 1, st, f.labels, f.locals)
  ELSE GoOn(s, Min(alt) + 1, st, Entering(s, end + 1, i.n, FALSE, st), f.locals)

Step(p, s) ==
  LET f   == Active(s)
      b   == p.funcs[f.fn].body
      i   == Current(p, s)
      st  == f.stack
      top == Upper(st)
      st1 == Drop0(st, 1)
      Push(rest, v) == Then(s, Append(rest, v), f.labels)
  IN
  IF f.pc \notin DOMAIN b \/ Len(st) < Takes(p, i) THEN Invalid(s)
  ELSE
  CASE i.op = "const" -> Push(st, i.n % Width)
    [] i.op = "get"   -> Push(st, f.locals[i.n+1])
    [] i.op \in {"set", "tee"} ->
         GoOn(s, f.pc + 1, IF i.op = "set" THEN st1 ELSE st, f.labels,
              [f.locals EXCEPT ![i.n+1] = top])
    [] i.op = "add"   -> Push(Drop0(st, 2), (top + Upper(st1)) % Width)
    [] i.op = "eqz"   -> Push(st1, IF top = 0 THEN 1 ELSE 0)
    [] i.op = "drop"  -> Then(s, st1, f.labels)
    [] i.op = "call"  -> IF i.n < Len(p.imports) THEN HostCall(p, s, i.n) ELSE GuestCall(p, s, i.n)
    [] i.op = "block" -> Then(s, st, Entering(s, EndOf(b, f.pc)+1, i.n, FALSE, st))
    [] i.op = "loop"  -> Then(s, st, Entering(s, f.pc+1, 0, TRUE, st))
    [] i.op = "if"    -> IF top # 0 THEN Then(s, st1, Entering(s, EndOf(b, f.pc)+1, i.n, FALSE, st1))
                         ELSE Otherwise(b, s, i, st1)
    [] i.op = "else"  ->   \* the first arm ends: go to the "end" of its "if"
         GoOn(s, EndOf(b, f.pc), st, f.labels, f.locals)
    [] i.op = "end"   -> IF f.labels = <<>> THEN Leave(p, s, st)
                         ELSE Then(s, st, SubSeq(f.labels, 1, Len(f.labels)-1))
    [] i.op = "br"    -> Branch(p, s, i.n, st)
    [] i.op = "br_if" -> IF top # 0 THEN Branch(p, s, i.n, st1) ELSE Then(s, st1, f.labels)
    [] i.op = "br_table" -> Branch(p, s, IF top = 0 THEN 0 ELSE i.n, st1)
    [] i.op = "ret"   -> Leave(p, s, st)
    [] i.op = "trap"  -> Halt(s, "trap", s.result)

Running(s) == s.status = "run"
Advance(p, s) == IF Running(s) THEN Step(p, s) ELSE s

\* What a caller can observe of an execution.
Outcome(s) == [status |-> s.status, result |-> s.result, trace |-> s.trace]
=============================================================================
