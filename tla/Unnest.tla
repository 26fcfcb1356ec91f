-------------------------------- MODULE Unnest --------------------------------
(***************************************************************************)
(* The unnest pass of rshooks-build (crates/rshooks-build/src/unnest.rs),  *)
(* which runs after flatten: a block followed by a tail that ends the hook *)
(* ("error ladder") is dissolved by copying the tail to every branch that  *)
(* leads there, again and again until nothing changes.                     *)
(*                                                                         *)
(* The result is executed next to the input one, in step, as               *)
(* tests/unnest_differential.rs does.                                      *)
(***************************************************************************)
EXTENDS Wasm

CONSTANTS
  Programs,   \* the modules given to the pass
  Args        \* arguments of an execution

\* Valid WebAssembly; hook is the entry point.
ASSUME UnnestInputs ==
  \A p \in Programs :
    /\ p.hook \in DOMAIN p.funcs
    /\ \A f \in DOMAIN p.funcs :
         /\ p.funcs[f] \in Function
         /\ ValidBody(p.funcs[f], 0 .. Len(p.imports)-1 \cup DOMAIN p.funcs)

VARIABLES
  prog,     \* the input, never written
  pc,       \* "next" between functions, "rewrite" and "unwrap" within one
  ops,      \* the body being transformed
  iters,    \* iterations left of max_iters
  rewrote,  \* any_rewrite
  bodies,   \* new_bodies: the functions done
  pre,      \* the execution of prog
  post      \* the execution of the result

vars == <<prog, pc, ops, iters, rewrote, bodies, pre, post>>

-----------------------------------------------------------------------------
(* analyze.  A construct is named by the position of its opening operator; 0 *)
(* is the function itself.                                                   *)

\* The constructs open at operator i, outermost first.
Open(b, i) ==
  [l \in 1 .. Depth(b, i-1) |-> Max({k \in 1 .. i-1 : Opens(b[k]) /\ Depth(b, k) = l})]

Frames(b) == {k \in DOMAIN b : Opens(b[k])}
EmptyBlocks(b) == {k \in Frames(b) : b[k].op = "block" /\ b[k].n = 0}
Enclosing(b, i) == ToSet(Open(b, i))
Resolve(b, i, d) == LET open == Open(b, i) IN IF d < Len(open) THEN open[Len(open)-d] ELSE 0
Target(b, i) == Resolve(b, i, b[i].n)

Branches(b) == {i \in DOMAIN b : b[i].op \in {"br", "br_if"}}
Tables(b) == {i \in DOMAIN b : b[i].op = "br_table"}

TableTargets(b) == UNION {{Resolve(b, i, 0), Target(b, i)} : i \in Tables(b)} \ {0}
Referenced(b) == {Target(b, i) : i \in Branches(b)} \cup TableTargets(b)

\* No br_table can be rewritten: what one targets, and what one is in, stays.
MutUnsafe(b) == TableTargets(b)
Unsafe(b) == TableTargets(b) \cup UNION {Enclosing(b, i) : i \in Tables(b)}

-----------------------------------------------------------------------------
(* extract_tail: a self-contained diverging tail *)

Plain(i) == i.op \in {"const", "get", "drop"} \/ (i.op = "call" /\ i.n < Len(prog.imports))
Pops(i) == CASE i.op = "drop" -> 1 [] i.op = "call" -> prog.imports[i.n+1].params [] OTHER -> 0
Pushes(i) == CASE i.op = "drop" -> 0 [] i.op = "call" -> prog.imports[i.n+1].result [] OTHER -> 1

\* Where a tail that starts at from ends, if there is one: no operator of it
\* may touch what was on the stack before.
TailEnds(b, from) ==
  LET height[k \in from .. Len(b)] ==
        IF k = from THEN 0 ELSE height[k-1] - Pops(b[k-1]) + Pushes(b[k-1]) IN
  {j \in from .. Len(b) : /\ b[j].op = "trap"
                          /\ \A k \in from .. j-1 : Plain(b[k]) /\ height[k] >= Pops(b[k])}

TailOf(b, k) ==
  LET from == EndOf(b, k) + 1 IN SubSeq(b, from, CHOOSE j \in TailEnds(b, from) : TRUE)

-----------------------------------------------------------------------------
(* The steps of an iteration of unnest_function *)

\* Step 1: the blocks that a tail follows.
MutQualifying(b) == {k \in EmptyBlocks(b) \ TableTargets(b) : TailEnds(b, EndOf(b, k) + 1) # {}}
Qualifying(b) == {k \in EmptyBlocks(b) \ Unsafe(b) : TailEnds(b, EndOf(b, k) + 1) # {}}

ToRewrite(b) == LET q == Qualifying(b) IN {i \in Branches(b) : Target(b, i) \in q}

\* Step 2: a br becomes the tail, a br_if the tail under an "if".
MutRewritten(b) ==
  LET todo  == {i \in ToRewrite(b) : b[i].op = "br_if"}
      At(i) == IF i \notin todo THEN <<b[i]>>
               ELSE <<I("if", 0)>> \o TailOf(b, Target(b, i)) \o <<I("end", 0)>>
  IN  FlattenSeq([i \in DOMAIN b |-> At(i)])
Rewritten(b) ==
  LET todo  == ToRewrite(b)
      At(i) == IF i \notin todo THEN <<b[i]>>
               ELSE IF b[i].op = "br" THEN TailOf(b, Target(b, i))
               ELSE <<I("if", 0)>> \o TailOf(b, Target(b, i)) \o <<I("end", 0)>>
  IN  FlattenSeq([i \in DOMAIN b |-> At(i)])

\* Step 3: the empty blocks that no branch leads to any more.
Removable(b) == EmptyBlocks(b) \ (Referenced(b) \cup Unsafe(b))

\* remove_frames and adjust_depth: the removed constructs that a branch
\* crosses no longer count in its depth.
WithoutFrames(b, gone) ==
  LET dropped == gone \cup {EndOf(b, k) : k \in gone}
      Crossed(i) == Cardinality({k \in gone \cap Enclosing(b, i) : k > Target(b, i)})
      At(i) == IF i \in dropped THEN <<>>
               ELSE IF i \in Branches(b) THEN <<I(b[i].op, b[i].n - Crossed(i))>>
               ELSE <<b[i]>>
  IN  FlattenSeq([i \in DOMAIN b |-> At(i)])

Left == DOMAIN prog.funcs \ DOMAIN bodies
At == CHOOSE f \in Left : \A g \in Left : f <= g

Idle == [frames |-> <<>>, trace |-> <<>>, status |-> "idle", result |-> <<>>]

Init ==
  /\ prog \in Programs
  /\ pc = "next" /\ ops = <<>> /\ iters = 0 /\ rewrote = FALSE /\ bodies = [f \in {} |-> <<>>]
  /\ pre = Idle /\ post = Idle

NextFunction ==
  /\ pc = "next" /\ Left # {}
  /\ ops' = prog.funcs[At].body
  /\ iters' = 2 * Len(ops') + 16
  /\ pc' = "rewrite"
  /\ UNCHANGED <<prog, rewrote, bodies, pre, post>>

Rewrite ==
  /\ pc = "rewrite" /\ iters > 0
  /\ ops' = Rewritten(ops)
  /\ rewrote' = (ToRewrite(ops) # {})
  /\ iters' = iters - 1
  /\ pc' = "unwrap"
  /\ UNCHANGED <<prog, bodies, pre, post>>

\* Also the `continue` of an iteration that rewrote and removes nothing.
Unwrap ==
  /\ pc = "unwrap" /\ (Removable(ops) # {} \/ rewrote)
  /\ ops' = WithoutFrames(ops, Removable(ops))
  /\ pc' = "rewrite"
  /\ UNCHANGED <<prog, iters, rewrote, bodies, pre, post>>

\* Nothing to remove and nothing rewritten, or no iteration left.
LoopEnds ==
  \/ pc = "unwrap" /\ Removable(ops) = {} /\ ~rewrote
  \/ pc = "rewrite" /\ iters = 0

Finish ==
  /\ LoopEnds
  /\ bodies' = [f \in DOMAIN bodies \cup {At} |-> IF f = At THEN ops ELSE bodies[f]]
  /\ pc' = "next" /\ ops' = <<>>
  /\ UNCHANGED <<prog, iters, rewrote, pre, post>>

Emit ==
  /\ pc = "next" /\ Left = {}
  /\ pc' = "done"
  /\ UNCHANGED <<prog, ops, iters, rewrote, bodies, pre, post>>

-----------------------------------------------------------------------------
(* The differential execution *)

Out == [prog EXCEPT !.funcs = [f \in DOMAIN prog.funcs |->
                                 [prog.funcs[f] EXCEPT !.body = bodies[f]]]]

Instantiate ==
  /\ pc = "done" /\ pre = Idle
  /\ \E a \in Args : pre' = Start(prog, prog.hook, a) /\ post' = Start(Out, prog.hook, a)
  /\ UNCHANGED <<prog, pc, ops, iters, rewrote, bodies>>

Execute ==
  /\ pc = "done" /\ (Running(pre) \/ Running(post))
  /\ pre' = Advance(prog, pre) /\ post' = Advance(Out, post)
  /\ UNCHANGED <<prog, pc, ops, iters, rewrote, bodies>>

Next ==
  \/ NextFunction \/ Rewrite \/ Unwrap \/ Finish \/ Emit
  \/ Instantiate \/ Execute

Spec == Init /\ [][Next]_vars

-----------------------------------------------------------------------------
(* Properties *)

\* unnest.rs: "splices at least one tail (which immediately makes its target
\* block unreferenced, guaranteeing at least one removal in the very same
\* pass)".  The `continue` of an iteration that only rewrites is dead code.
RewritingRemoves == pc = "unwrap" /\ rewrote => Removable(ops) # {}

\* "this can never legitimately be exceeded": the bound on the iterations
\* never ends the loop before its fixpoint, so no ladder is left and every
\* empty block that stays is needed.
LadderGone ==
  pc = "next" => \A f \in DOMAIN bodies :
    Removable(bodies[f]) = {} /\ ToRewrite(bodies[f]) = {}

\* An iteration never nests the body deeper, although it adds an "if" at every
\* conditional branch: the block it belongs to goes away in the same iteration.
MaxDepth(b) == Max({0} \cup {Depth(b, k) : k \in DOMAIN b})
NeverDeeper ==
  /\ pc = "rewrite" => MaxDepth(ops) <= MaxDepth(prog.funcs[At].body)
  /\ \A f \in DOMAIN bodies : MaxDepth(bodies[f]) <= MaxDepth(prog.funcs[f].body)

\* unnest.rs: "splicing it at a different nesting depth than where it
\* originally lived changes nothing about its behavior".
Stopped(s) == s.status \notin {"idle", "run"}
SameBehaviour ==
  /\ IsPrefix(pre.trace, post.trace) \/ IsPrefix(post.trace, pre.trace)
  /\ Stopped(pre) /\ Stopped(post) => Outcome(pre) = Outcome(post)

\* The loop ends at its fixpoint, each iteration having come closer to it.
FixpointReached == RewritingRemoves /\ LadderGone
=============================================================================
