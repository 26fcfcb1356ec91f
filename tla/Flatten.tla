------------------------------- MODULE Flatten -------------------------------
(***************************************************************************)
(* The flatten pass of rshooks-build (crates/rshooks-build/src/flatten.rs) *)
(* for API version 0: every function but hook and cbak is inlined into its *)
(* callers, callees first; the type section is rebuilt; `_g` is imported.  *)
(*                                                                         *)
(* The finished module is then executed next to the input one, in step, as *)
(* tests/flatten_differential.rs does: same argument, same host.           *)
(***************************************************************************)
EXTENDS Wasm

CONSTANTS
  Programs,   \* the cleaned modules given to the pass
  Args,       \* arguments of an execution
  None,       \* no export, no function
  EntryType,  \* the signature (i32) -> i64
  GType       \* the signature (i32, i32) -> i32 of _g

(* A program: [imports, types, funcs, hook, cbak]; an import is              *)
(* [name, type, params, result, ends], its type an index into types.         *)

Import == [name : STRING, type : Nat, params : Nat, result : 0 .. 1, ends : BOOLEAN]

\* Valid WebAssembly, with an entry point for every export.  An import k is
\* called by the number k-1, a defined function by its index.
ASSUME FlattenInputs ==
  \A p \in Programs :
    /\ p.imports \in Seq(Import)
    /\ IsFiniteSet(DOMAIN p.funcs) /\ None \notin DOMAIN p.funcs
    /\ {p.hook, p.cbak} \subseteq DOMAIN p.funcs \cup {None}
    /\ \A f \in DOMAIN p.funcs :
         /\ p.funcs[f] \in Function
         /\ ValidBody(p.funcs[f], 0 .. Len(p.imports)-1 \cup DOMAIN p.funcs)

VARIABLES
  prog,    \* the input, never written
  pc,      \* where the pass is
  order,   \* what is left of post_order
  funcs,   \* original index -> FlatFunc
  at,      \* the function being rewritten, or None
  cur,     \* its state, taken out of funcs
  rest,    \* the operators of its body still to be copied
  types,   \* new_types
  tymap,   \* old_type_to_new
  out,     \* the finished program
  pre,     \* the execution of prog
  post     \* the execution of out

vars == <<prog, pc, order, funcs, at, cur, rest, types, tymap, out, pre, post>>
result == <<types, tymap, out>>
runs == <<pre, post>>

NImp(p) == Len(p.imports)
Defined == DOMAIN prog.funcs
NoFunc == [params |-> 0, extra |-> 0, result |-> 0, body |-> <<>>]
Idle == [frames |-> <<>>, trace |-> <<>>, status |-> "idle", result |-> <<>>]

\* scan_refs(body).calls
Calls(b) == {b[k].n : k \in {j \in DOMAIN b : b[j].op = "call"}}
DefinedCalls(f) == {c \in Calls(prog.funcs[f].body) : c \in Defined}

Acyclic == \A S \in SUBSET Defined : S # {} => \E f \in S : DefinedCalls(f) \cap S = {}

\* What CallGraph shows of topo_post_order: every defined function once, and
\* after the functions that it calls.
MutPostOrders ==
  {s \in [1 .. Cardinality(Defined) -> Defined] : \A f \in Defined : \E i \in DOMAIN s : s[i] = f}
PostOrders ==
  {s \in [1 .. Cardinality(Defined) -> Defined] :
     /\ \A f \in Defined : \E i \in DOMAIN s : s[i] = f
     /\ \A i, j \in DOMAIN s : s[i] = s[j] => i = j
     /\ \A i \in DOMAIN s : \A c \in DefinedCalls(s[i]) : \E j \in 1 .. i-1 : s[j] = c}

Init ==
  /\ prog \in Programs
  /\ pc = "check" /\ order = <<>> /\ funcs = [f \in {} |-> NoFunc]
  /\ at = None /\ cur = NoFunc /\ rest = <<>>
  /\ types = <<>> /\ tymap = [t \in {} |-> 0] /\ out = [funcs |-> {}]
  /\ pre = Idle /\ post = Idle

Refuse ==
  /\ pc = "check" /\ (prog.hook = None \/ ~Acyclic)
  /\ pc' = "bail"
  /\ UNCHANGED <<prog, order, funcs, at, cur, rest, result, runs>>

Collect ==
  /\ pc = "check" /\ prog.hook # None /\ Acyclic
  /\ funcs' = prog.funcs
  /\ order' \in PostOrders
  /\ pc' = "inline"
  /\ UNCHANGED <<prog, at, cur, rest, result, runs>>

-----------------------------------------------------------------------------
(* Inlining *)

Without(f, x) == [y \in DOMAIN f \ {x} |-> f[y]]
Insert(f, x, v) == [y \in DOMAIN f \cup {x} |-> IF y = x THEN v ELSE f[y]]

\* `let Some(mut cur) = funcs.remove(&f_idx)`
Take ==
  /\ pc = "inline" /\ at = None /\ order # <<>>
  /\ at' = order[1] /\ order' = Tail(order)
  /\ cur' = [funcs[order[1]] EXCEPT !.body = <<>>]
  /\ rest' = funcs[order[1]].body
  /\ funcs' = Without(funcs, order[1])
  /\ UNCHANGED <<prog, pc, result, runs>>

Inlinable(i) == i.op = "call" /\ i.n \in DOMAIN funcs

Copy ==
  /\ pc = "inline" /\ at # None /\ rest # <<>> /\ ~Inlinable(rest[1])
  /\ cur' = [cur EXCEPT !.body = Append(@, rest[1])]
  /\ rest' = Tail(rest)
  /\ UNCHANGED <<prog, pc, order, funcs, at, result, runs>>

\* classify_returns
MutShape(b) ==
  LET rets == {k \in DOMAIN b : b[k].op = "ret"} IN
  IF rets = {} THEN "NoReturn" ELSE IF Len(b)-1 \in rets THEN "TrailingOnly" ELSE "NeedsWrapper"
Shape(b) ==
  LET rets == {k \in DOMAIN b : b[k].op = "ret"} IN
  IF rets = {} THEN "NoReturn"
  ELSE IF rets = {Len(b)-1} /\ Depth(b, Len(b)-1) = 0 THEN "TrailingOnly"
  ELSE "NeedsWrapper"

\* emit_inlined: spill the arguments, splice the body.  args is the caller's
\* local for the first parameter, base the one for the first other local.
RemapLocal(f, args, base, l) == IF l < f.params THEN args + l ELSE base + (l - f.params)

Inlined(f, args, base) ==
  LET b == f.body
      n == Len(b)
      Spill == [k \in 1 .. f.params |-> I("set", args + (f.params - k))]
      Op(k) == IF b[k].op \in LocalOps
                 THEN I(b[k].op, RemapLocal(f, args, base, b[k].n)) ELSE b[k]
      Rewritten == [k \in 1 .. n |-> IF b[k].op = "ret" THEN I("br", Depth(b, k)) ELSE Op(k)]
      Bare(m) == [k \in 1 .. m |-> Op(k)]
  IN  Spill \o (CASE Shape(b) = "NeedsWrapper" -> <<I("block", f.result)>> \o Rewritten
                  [] Shape(b) = "TrailingOnly" -> Bare(n-2)
                  [] Shape(b) = "NoReturn"     -> Bare(n-1))

MutSplice ==
  /\ pc = "inline" /\ at # None /\ rest # <<>> /\ Inlinable(rest[1])
  /\ LET callee == funcs[rest[1].n]
         args   == cur.params + cur.extra
         base   == args + callee.params IN
       cur' = [cur EXCEPT !.extra = @ + callee.extra,
                          !.body  = @ \o Inlined(callee, args, base)]
  /\ rest' = Tail(rest)
  /\ UNCHANGED <<prog, pc, order, funcs, at, result, runs>>
Splice ==
  /\ pc = "inline" /\ at # None /\ rest # <<>> /\ Inlinable(rest[1])
  /\ LET callee == funcs[rest[1].n]
         args   == cur.params + cur.extra
         base   == args + callee.params IN
       cur' = [cur EXCEPT !.extra = @ + callee.params + callee.extra,
                          !.body  = @ \o Inlined(callee, args, base)]
  /\ rest' = Tail(rest)
  /\ UNCHANGED <<prog, pc, order, funcs, at, result, runs>>

PutBack ==
  /\ pc = "inline" /\ at # None /\ rest = <<>>
  /\ funcs' = Insert(funcs, at, cur)
  /\ at' = None /\ cur' = NoFunc
  /\ UNCHANGED <<prog, pc, order, rest, result, runs>>

AllInlined ==
  /\ pc = "inline" /\ at = None /\ order = <<>>
  /\ pc' = "types"
  /\ UNCHANGED <<prog, order, funcs, at, cur, rest, result, runs>>

-----------------------------------------------------------------------------
(* R1 and R2: the imports and the type section *)

\* ir::find_or_insert_type: the section, and the index (from 0) of ty in it.
WithType(ts, ty) == IF \E k \in DOMAIN ts : ts[k] = ty THEN ts ELSE Append(ts, ty)
TypeIndex(ts, ty) ==
  (CHOOSE k \in DOMAIN ts : ts[k] = ty /\ \A j \in 1 .. k-1 : ts[j] # ty) - 1

Unmapped == {k \in DOMAIN prog.imports : prog.imports[k].type \notin DOMAIN tymap}

ImportType ==
  /\ pc = "types" /\ Unmapped # {}
  /\ LET k  == CHOOSE x \in Unmapped : \A y \in Unmapped : x <= y
         ot == prog.imports[k].type
         ty == prog.types[ot+1] IN
       /\ types' = WithType(types, ty)
       /\ tymap' = Insert(tymap, ot, TypeIndex(types', ty))
  /\ UNCHANGED <<prog, pc, order, funcs, at, cur, rest, out, runs>>

HasG == \E k \in DOMAIN prog.imports : prog.imports[k].name = "_g"

\* The new indices follow the imports: hook, then cbak.
Emit ==
  /\ pc = "types" /\ Unmapped = {}
  /\ types' = IF HasG THEN WithType(types, EntryType)
                      ELSE WithType(WithType(types, EntryType), GType)
  /\ LET kept == [k \in DOMAIN prog.imports |->
                    [prog.imports[k] EXCEPT !.type = tymap[@]]]
         g    == [name |-> "_g", type |-> TypeIndex(types', GType),
                  params |-> 2, result |-> 1, ends |-> FALSE]
         imports == IF HasG THEN kept ELSE Append(kept, g)
         n == Len(imports)
         entries == [e \in IF prog.cbak = None THEN {n} ELSE {n, n+1} |->
                       funcs[IF e = n THEN prog.hook ELSE prog.cbak]] IN
       out' = [imports |-> imports, types |-> types', funcs |-> entries,
               hook |-> n, cbak |-> IF prog.cbak = None THEN None ELSE n+1]
  /\ pc' = "done"
  /\ UNCHANGED <<prog, order, funcs, at, cur, rest, tymap, runs>>

-----------------------------------------------------------------------------
(* The differential execution *)

Instantiate ==
  /\ pc = "done" /\ pre = Idle
  /\ \E a \in Args :
       \/ pre' = Start(prog, prog.hook, a) /\ post' = Start(out, out.hook, a)
       \/ /\ prog.cbak # None
          /\ pre' = Start(prog, prog.cbak, a) /\ post' = Start(out, out.cbak, a)
  /\ UNCHANGED <<prog, pc, order, funcs, at, cur, rest, result>>

Execute ==
  /\ pc = "done" /\ (Running(pre) \/ Running(post))
  /\ pre' = Advance(prog, pre) /\ post' = Advance(out, post)
  /\ UNCHANGED <<prog, pc, order, funcs, at, cur, rest, result>>

Next ==
  \/ Refuse \/ Collect
  \/ Take \/ Copy \/ Splice \/ PutBack \/ AllInlined
  \/ ImportType \/ Emit
  \/ Instantiate \/ Execute

Spec == Init /\ [][Next]_vars

-----------------------------------------------------------------------------
(* Properties *)

\* flatten.rs: "by the time a function F is processed (its own call sites
\* inlined), every defined function F calls ... contains no more calls to
\* defined functions itself".  One pass over the order leaves no call behind.
NoCallLeft ==
  pc \in {"inline", "types", "done"} =>
    \A f \in DOMAIN funcs \ ToSet(order) : Calls(funcs[f].body) \cap Defined = {}

\* The finished bodies are still valid: constructs nest, every branch has a
\* target, every local exists, and every call names an import.
OutputValid ==
  pc = "done" =>
    \A e \in DOMAIN out.funcs : ValidBody(out.funcs[e], 0 .. NImp(out)-1)

ImportedType(p, k) == p.types[p.imports[k].type + 1]

\* R1 and R2: every import still has its type, an added _g has its own, and
\* the type section is exactly the types of the imports and of the entry
\* points, each once.
TypesExact ==
  pc = "done" =>
    /\ \A k \in DOMAIN prog.imports : ImportedType(out, k) = ImportedType(prog, k)
    /\ \A k \in DOMAIN out.imports \ DOMAIN prog.imports : ImportedType(out, k) = GType
    /\ \E k \in DOMAIN out.imports : out.imports[k].name = "_g"
    /\ ToSet(out.types) = {EntryType} \cup {ImportedType(out, k) : k \in DOMAIN out.imports}
    /\ \A i, j \in DOMAIN out.types : out.types[i] = out.types[j] => i = j

\* DESIGN.md 6.2b: "identical results and host-call sequences".  At no time
\* has one execution made a host call that the other will not make next.
SameBehaviour ==
  /\ IsPrefix(pre.trace, post.trace) \/ IsPrefix(post.trace, pre.trace)
  /\ ~Running(pre) /\ ~Running(post) => Outcome(pre) = Outcome(post)

\* What flatten returns is a module again, with the type section R2 asks for.
OutputSound == OutputValid /\ TypesExact
=============================================================================
