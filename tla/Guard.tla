-------------------------------- MODULE Guard --------------------------------
(***************************************************************************)
(* Loop guards (crates/rshooks-build/src/guard.rs): the scan for loops     *)
(* that do not begin with a call of _g, and the transformation of          *)
(* --auto-guard that inserts one, importing _g if need be, which moves     *)
(* every defined function up by one.                                       *)
(*                                                                         *)
(* The result is executed next to the input under the host's rule: a       *)
(* guard that is called more often than its budget ends the hook.          *)
(***************************************************************************)
EXTENDS Wasm

CONSTANTS
  Programs,   \* the modules given to the pass
  Args,       \* arguments of an execution
  MaxIter,    \* Options.default_maxiter
  AutoBase,   \* 1 << 30, where the ids of inserted guards start
  UserBase,   \* 1 << 31, where the ids of guard! start
  None

ASSUME GuardParameters ==
  /\ MaxIter \in Nat /\ AutoBase \in Nat /\ UserBase \in Nat /\ AutoBase < UserBase
  /\ MaxIter < Width /\ UserBase <= Width
  /\ None \notin Nat /\ Args \subseteq Nat

Imports(p) == 0 .. Len(p.imports)-1

\* Valid WebAssembly: the imports first, then the defined functions.
ASSUME GuardInputs ==
  \A p \in Programs :
    /\ p.imports \in Seq([name : STRING, params : Nat, result : 0 .. 1, ends : BOOLEAN])
    /\ IsFiniteSet(DOMAIN p.funcs)
    /\ DOMAIN p.funcs = Len(p.imports) .. Len(p.imports) + Cardinality(DOMAIN p.funcs) - 1
    /\ {Len(p.imports), p.hook} \subseteq DOMAIN p.funcs /\ p.funcs[p.hook].params = 1
    /\ \A f \in DOMAIN p.funcs :
         p.funcs[f] \in Function /\ ValidBody(p.funcs[f], Imports(p) \cup DOMAIN p.funcs)

VARIABLES
  prog,     \* the input, never written
  pc,       \* "scan", "rebuild" or "done"
  at,       \* the function being rebuilt
  pos,      \* the next operator of its body
  body,     \* its new body so far
  counter,  \* guards inserted so far in the module
  out,      \* the output module
  pre,      \* the execution of prog
  post,     \* the execution of out
  laps      \* iterations that pre has begun, per loop of prog

vars == <<prog, pc, at, pos, body, counter, out, pre, post, laps>>
runs == <<pre, post, laps>>

-----------------------------------------------------------------------------
(* The scan *)

\* find_g_index
GuardImports(p) == {k \in Imports(p) : p.imports[k+1].name = "_g"}
GIndex(p) ==
  IF GuardImports(p) = {} THEN None
  ELSE CHOOSE k \in GuardImports(p) : \A j \in GuardImports(p) : k <= j

Loops(b) == {k \in DOMAIN b : b[k].op = "loop"}

\* is_guard_prologue
MutGuarded(b, k, g) ==
  /\ g # None /\ k+2 <= Len(b)
  /\ b[k+1].op = "const" /\ b[k+2].op = "const"
Guarded(b, k, g) ==
  /\ g # None /\ k+3 <= Len(b)
  /\ b[k+1].op = "const" /\ b[k+2].op = "const" /\ b[k+3] = I("call", g)

Unguarded(p, f) == {k \in Loops(p.funcs[f].body) : ~Guarded(p.funcs[f].body, k, GIndex(p))}
AllGuarded(p) == \A f \in DOMAIN p.funcs : Unguarded(p, f) = {}

\* All of them.  Ids of inserted guards do not run into those of guard!: there
\* are 1 << 30, and so many loops are more than 3 GB of code.
Sites(p) == UNION {{f} \X Unguarded(p, f) : f \in DOMAIN p.funcs}
ASSUME GuardRoom == \A p \in Programs : Cardinality(Sites(p)) <= UserBase - AutoBase

-----------------------------------------------------------------------------
(* auto_guard *)

\* The index of _g in the output, and func_map.
G == IF GIndex(prog) = None THEN Len(prog.imports) ELSE GIndex(prog)
FuncMap(f) == IF GIndex(prog) = None /\ f >= Len(prog.imports) THEN f + 1 ELSE f

GImport == [name |-> "_g", params |-> 2, result |-> 1, ends |-> FALSE]

\* A module that imports _g imports the host's.
ASSUME HostGuard ==
  \A p \in Programs : \A k \in GuardImports(p) : p.imports[k+1] = GImport

MutPrologue(n) == <<I("const", UserBase + n), I("const", MaxIter), I("call", G), I("drop", 0)>>
Prologue(n) == <<I("const", AutoBase + n), I("const", MaxIter), I("call", G), I("drop", 0)>>

\* Functions are emitted in order, after the imports.
NewIndex(f) == f - Len(prog.imports) + Len(out.imports)

Idle == [frames |-> <<>>, trace |-> <<>>, status |-> "idle", result |-> <<>>]

Init ==
  /\ prog \in Programs
  /\ pc = "scan" /\ at = None /\ pos = 0 /\ body = <<>> /\ counter = 0
  /\ out = [imports |-> <<>>, funcs |-> [f \in {} |-> 0], hook |-> None]
  /\ pre = Idle /\ post = Idle /\ laps = [l \in {} |-> 0]

\* Every loop carries a guard: the module is returned as it is.
Unchanged ==
  /\ pc = "scan" /\ AllGuarded(prog)
  /\ out' = prog
  /\ pc' = "done"
  /\ UNCHANGED <<prog, at, pos, body, counter, runs>>

Import ==
  /\ pc = "scan" /\ ~AllGuarded(prog)
  /\ out' = [imports |-> IF GIndex(prog) = None THEN Append(prog.imports, GImport)
                                                ELSE prog.imports,
             funcs |-> out.funcs, hook |-> FuncMap(prog.hook)]
  /\ at' = Len(prog.imports) /\ pos' = 1 /\ body' = <<>>
  /\ pc' = "rebuild"
  /\ UNCHANGED <<prog, counter, runs>>

Old == prog.funcs[at]
Translated(i) == IF i.op = "call" THEN I("call", FuncMap(i.n)) ELSE i

Copy ==
  /\ pc = "rebuild" /\ pos <= Len(Old.body) /\ pos \notin Unguarded(prog, at)
  /\ body' = Append(body, Translated(Old.body[pos]))
  /\ pos' = pos + 1
  /\ UNCHANGED <<prog, pc, at, counter, out, runs>>

MutInsert ==
  /\ pc = "rebuild" /\ pos <= Len(Old.body) /\ pos \in Unguarded(prog, at)
  /\ body' = body \o Prologue(counter) \o <<Old.body[pos]>>
  /\ counter' = counter + 1
  /\ pos' = pos + 1
  /\ UNCHANGED <<prog, pc, at, out, runs>>
Insert ==
  /\ pc = "rebuild" /\ pos <= Len(Old.body) /\ pos \in Unguarded(prog, at)
  /\ body' = body \o <<Old.body[pos]>> \o Prologue(counter)
  /\ counter' = counter + 1
  /\ pos' = pos + 1
  /\ UNCHANGED <<prog, pc, at, out, runs>>

\* The functions built so far, with the one whose body is complete.
WithBody ==
  [f \in DOMAIN out.funcs \cup {NewIndex(at)} |->
     IF f = NewIndex(at) THEN [Old EXCEPT !.body = body] ELSE out.funcs[f]]

EndBody ==
  /\ pc = "rebuild" /\ pos > Len(Old.body)
  /\ out' = [out EXCEPT !.funcs = WithBody]
  /\ IF at + 1 \in DOMAIN prog.funcs
       THEN at' = at + 1 /\ pos' = 1 /\ pc' = pc
       ELSE at' = None /\ pos' = 0 /\ pc' = "done"
  /\ body' = <<>>
  /\ UNCHANGED <<prog, counter, runs>>

-----------------------------------------------------------------------------
(* Execution under the host's rule *)

GuardCalls(s, id) == {k \in DOMAIN s.trace : s.trace[k][1] = "_g" /\ s.trace[k][2][1] = id}

\* A call of _g beyond its budget ends the hook.
Metered(p, s) ==
  LET t    == Advance(p, s)
      call == t.trace[Len(t.trace)] IN
  IF Len(t.trace) > Len(s.trace) /\ call[1] = "_g"
     /\ Cardinality(GuardCalls(t, call[2][1])) > call[2][2]
  THEN [frames |-> t.frames, trace |-> t.trace, status |-> "violation", result |-> t.result]
  ELSE t

\* The loop of p that the next step of s begins an iteration of.
Lap(p, s) ==
  IF ~Running(s) THEN {}
  ELSE LET f == Active(s)
           b == p.funcs[f.fn].body IN
       {<<f.fn, k>> : k \in {j \in Loops(b) : j + 1 = f.pc}}

\* Iterations so far, ls, with that one; none is counted above the budget.
Counted(p, s, ls) ==
  [l \in DOMAIN ls \cup Lap(p, s) |->
     LET n == IF l \in DOMAIN ls THEN ls[l] ELSE 0 IN
     IF l \in Lap(p, s) /\ n <= MaxIter THEN n + 1 ELSE n]

Instantiate ==
  /\ pc = "done" /\ pre = Idle
  /\ \E a \in Args : pre' = Start(prog, prog.hook, a) /\ post' = Start(out, out.hook, a)
  /\ UNCHANGED <<prog, pc, at, pos, body, counter, out, laps>>

Execute ==
  /\ pc = "done" /\ (Running(pre) \/ Running(post))
  /\ pre' = Metered(prog, pre) /\ post' = Metered(out, post)
  /\ laps' = Counted(prog, pre, laps)
  /\ UNCHANGED <<prog, pc, at, pos, body, counter, out>>

Next ==
  \/ Unchanged \/ Import \/ Copy \/ Insert \/ EndBody
  \/ Instantiate \/ Execute

Spec == Init /\ [][Next]_vars
FairSpec == Spec /\ WF_vars(Next)

-----------------------------------------------------------------------------
(* Properties *)

\* What validate and the upstream checker ask for afterwards: every loop of
\* the result begins with a call of the result's own _g.
ResultGuarded == pc = "done" => AllGuarded(out)

\* Host calls other than those of inserted guards.
Inserted(c) == c[1] = "_g" /\ c[2][1] \in AutoBase .. UserBase-1
Shown(tr)  == {k \in DOMAIN tr : ~Inserted(tr[k])}
NthShown(tr, j) == {k \in Shown(tr) : Cardinality({i \in Shown(tr) : i <= k}) = j}
Visible(s) ==
  [j \in 1 .. Cardinality(Shown(s.trace)) |-> s.trace[CHOOSE k \in NthShown(s.trace, j) : TRUE]]

\* Inserted guards are not observable until one of them ends the hook: the
\* user's own host calls, guards included, come in the same order with the
\* same arguments.
Stopped(s) == s.status \notin {"idle", "run"}
EndedByInserted(s) == s.status = "violation" /\ Inserted(s.trace[Len(s.trace)])
Transparent ==
  /\ IsPrefix(Visible(post), Visible(pre))
  /\ Stopped(pre) /\ Stopped(post) /\ ~EndedByInserted(post) =>
       /\ Visible(post) = Visible(pre)
       /\ post.status = pre.status /\ post.result = pre.result

\* Every inserted guard has a budget of its own: it ends the hook only when
\* one loop has really begun more than default_maxiter iterations.
NoEarlyStop ==
  EndedByInserted(post) =>
    \E l \in DOMAIN laps : l[2] \in Unguarded(prog, l[1]) /\ laps[l] > MaxIter

\* What guards are for: a guarded hook ends, whatever the original does.
GuardedEnds == <>(pc = "done" /\ Stopped(post))

\* guard! makes ids from UserBase on.  A program that calls _g by itself with an
\* id of an inserted guard would share its budget.
UserIdsApart == \A k \in DOMAIN pre.trace : ~Inserted(pre.trace[k])

\* An inserted guard shows in nothing but the end of a loop that has run
\* beyond its own budget.
GuardsInvisible == Transparent /\ NoEarlyStop
=============================================================================
