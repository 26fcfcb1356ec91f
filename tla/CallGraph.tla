------------------------------ MODULE CallGraph ------------------------------
(***************************************************************************)
(* The two traversals of the direct-call graph that make the inliner of    *)
(* rshooks-build safe (crates/rshooks-build/src/ir.rs find_call_cycle, and *)
(* flatten.rs topo_post_order), in the order flatten runs them: recursion  *)
(* is refused, and only then are the functions ordered, callees before     *)
(* callers, so that a spliced body never contains a call that would still  *)
(* have to be spliced.                                                     *)
(***************************************************************************)
EXTENDS Integers, Sequences

CONSTANTS
  NImpF,    \* imported functions: indices 0 .. NImpF-1, leaves of the graph
  NFuncs,   \* all functions
  Graphs    \* the call graphs to traverse

Funcs   == 0 .. NFuncs-1
Defined == NImpF .. NFuncs-1

ASSUME CallGraphConstants == NImpF \in Nat /\ NFuncs \in Nat /\ NImpF <= NFuncs
ASSUME CallGraphGraphs ==
  /\ Graphs \subseteq [Funcs -> SUBSET Funcs]
  /\ \A g \in Graphs : \A f \in Funcs : f < NImpF => g[f] = {}

VARIABLES
  calls,   \* the graph: scan_refs(body).calls of every function
  pc,      \* "detect", then "bail" or "order", then "done"
  color,   \* find_call_cycle: White, Gray or Black
  path,    \* find_call_cycle: the functions being explored
  stack,   \* either traversal: a node and the edges it has left
  start,   \* either traversal: the next start of the outer loop
  cycle,   \* the cycle that find_call_cycle returns
  state,   \* topo_post_order: Unvisited, InProgress or Done
  order    \* topo_post_order: its result

vars == <<calls, pc, color, path, stack, start, cycle, state, order>>
detect == <<color, path, cycle>>
ordering == <<state, order>>

Frame == [node : Funcs, edges : SUBSET Funcs]

Top    == stack[Len(stack)]
Popped == SubSeq(stack, 1, Len(stack)-1)

\* `edges.pop()` on the last frame.
Taken(e) == [stack EXCEPT ![Len(stack)].edges = @ \ {e}]

\* The edges topo_post_order follows: calls to defined functions.
DefinedEdges(f) == {c \in calls[f] : c >= NImpF}

FrameOf(f, e) == [node |-> f, edges |-> e]

Init ==
  /\ calls \in Graphs
  /\ pc = "detect" /\ start = 0 /\ stack = <<>>
  /\ color = [f \in Funcs |-> "White"] /\ path = <<>> /\ cycle = <<>>
  /\ state = [f \in Funcs |-> "Unvisited"] /\ order = <<>>

-----------------------------------------------------------------------------
(* find_call_cycle *)

Paint(f, c) == color' = [color EXCEPT ![f] = c]

DetectStart ==
  /\ pc = "detect" /\ stack = <<>> /\ start < NFuncs /\ color[start] = "White"
  /\ stack' = <<FrameOf(start, calls[start])>>
  /\ Paint(start, "Gray") /\ path' = Append(path, start)
  /\ start' = start + 1
  /\ UNCHANGED <<calls, pc, cycle, ordering>>

DetectSkip ==
  /\ pc = "detect" /\ stack = <<>> /\ start < NFuncs /\ color[start] # "White"
  /\ start' = start + 1
  /\ UNCHANGED <<calls, pc, stack, detect, ordering>>

\* A HashSet's edges come in any order.
DetectDescend ==
  /\ pc = "detect" /\ stack # <<>>
  /\ \E next \in Top.edges :
       /\ color[next] = "White"
       /\ Paint(next, "Gray") /\ path' = Append(path, next)
       /\ stack' = Append(Taken(next), FrameOf(next, calls[next]))
  /\ UNCHANGED <<calls, pc, start, cycle, ordering>>

\* The path from the function met again to the top, closed by it.
PathFrom(f) ==
  LET at == CHOOSE i \in DOMAIN path : path[i] = f /\ \A j \in DOMAIN path : path[j] = f => i <= j
  IN  Append(SubSeq(path, at, Len(path)), f)

DetectCycle ==
  /\ pc = "detect" /\ stack # <<>>
  /\ \E next \in Top.edges :
       /\ color[next] = "Gray"
       /\ cycle' = PathFrom(next)
       /\ stack' = Taken(next)
  /\ pc' = "bail"
  /\ UNCHANGED <<calls, start, color, path, ordering>>

MutDetectPass ==
  /\ pc = "detect" /\ stack # <<>>
  /\ \E next \in Top.edges : color[next] # "White" /\ stack' = Taken(next)
  /\ UNCHANGED <<calls, pc, start, detect, ordering>>
DetectPass ==
  /\ pc = "detect" /\ stack # <<>>
  /\ \E next \in Top.edges : color[next] = "Black" /\ stack' = Taken(next)
  /\ UNCHANGED <<calls, pc, start, detect, ordering>>

DetectFinish ==
  /\ pc = "detect" /\ stack # <<>> /\ Top.edges = {}
  /\ Paint(Top.node, "Black")
  /\ path' = SubSeq(path, 1, Len(path)-1)
  /\ stack' = Popped
  /\ UNCHANGED <<calls, pc, start, cycle, ordering>>

DetectDone ==
  /\ pc = "detect" /\ stack = <<>> /\ start = NFuncs
  /\ pc' = "order" /\ start' = NImpF
  /\ UNCHANGED <<calls, stack, detect, ordering>>

-----------------------------------------------------------------------------
(* topo_post_order *)

SetState(f, s) == state' = [state EXCEPT ![f] = s]

OrderStart ==
  /\ pc = "order" /\ stack = <<>> /\ start < NFuncs /\ state[start] = "Unvisited"
  /\ stack' = <<FrameOf(start, DefinedEdges(start))>>
  /\ SetState(start, "InProgress")
  /\ start' = start + 1
  /\ UNCHANGED <<calls, pc, order, detect>>

OrderSkip ==
  /\ pc = "order" /\ stack = <<>> /\ start < NFuncs /\ state[start] # "Unvisited"
  /\ start' = start + 1
  /\ UNCHANGED <<calls, pc, stack, detect, ordering>>

\* A BTreeSet's edges, taken from the end.
NextEdge(e) == e \in Top.edges /\ \A x \in Top.edges : x <= e

OrderDescend ==
  /\ pc = "order" /\ stack # <<>>
  /\ \E next \in Top.edges :
       /\ NextEdge(next) /\ state[next] = "Unvisited"
       /\ SetState(next, "InProgress")
       /\ stack' = Append(Taken(next), FrameOf(next, DefinedEdges(next)))
  /\ UNCHANGED <<calls, pc, start, order, detect>>

MutOrderPass ==
  /\ pc = "order" /\ stack # <<>>
  /\ \E next \in Top.edges : NextEdge(next) /\ stack' = Taken(next)
  /\ UNCHANGED <<calls, pc, start, detect, ordering>>
OrderPass ==
  /\ pc = "order" /\ stack # <<>>
  /\ \E next \in Top.edges :
       NextEdge(next) /\ state[next] # "Unvisited" /\ stack' = Taken(next)
  /\ UNCHANGED <<calls, pc, start, detect, ordering>>

OrderFinish ==
  /\ pc = "order" /\ stack # <<>> /\ Top.edges = {}
  /\ SetState(Top.node, "Done")
  /\ order' = Append(order, Top.node)
  /\ stack' = Popped
  /\ UNCHANGED <<calls, pc, start, detect>>

OrderDone ==
  /\ pc = "order" /\ stack = <<>> /\ start = NFuncs
  /\ pc' = "done"
  /\ UNCHANGED <<calls, stack, start, detect, ordering>>

Detect == \/ DetectStart \/ DetectSkip \/ DetectDescend \/ DetectCycle
          \/ DetectPass \/ DetectFinish \/ DetectDone
Order  == \/ OrderStart \/ OrderSkip \/ OrderDescend \/ OrderPass
          \/ OrderFinish \/ OrderDone
Next == Detect \/ Order

Spec == Init /\ [][Next]_vars

-----------------------------------------------------------------------------
(* Properties *)

TypeOK ==
  /\ calls \in [Funcs -> SUBSET Funcs]
  /\ pc \in {"detect", "bail", "order", "done"}
  /\ color \in [Funcs -> {"White", "Gray", "Black"}]
  /\ path \in Seq(Funcs) /\ cycle \in Seq(Funcs)
  /\ stack \in Seq(Frame) /\ start \in 0 .. NFuncs
  /\ state \in [Funcs -> {"Unvisited", "InProgress", "Done"}]
  /\ order \in Seq(Funcs)

\* A graph has no cycle iff every set of functions has one that calls none
\* of the set.
Acyclic == \A S \in SUBSET Funcs : S # {} => \E u \in S : calls[u] \cap S = {}

\* What flatten prints as a recursive call cycle is one: consecutive functions
\* call each other and the last is the first.
CycleIsReal ==
  pc = "bail" =>
    /\ Len(cycle) >= 2 /\ cycle[1] = cycle[Len(cycle)]
    /\ \A i \in 1 .. Len(cycle)-1 : cycle[i+1] \in calls[cycle[i]]

\* Recursion is never missed: past the check the graph is acyclic, whatever
\* order the edges were taken in and wherever the cycle hangs.
NoCycleMissed == pc \in {"order", "done"} => Acyclic

\* flatten.rs: "by the time a function F is processed ..., every defined
\* function F calls has already been processed".
CalleesFirst ==
  \A i \in DOMAIN order : \A c \in DefinedEdges(order[i]) :
     \E j \in DOMAIN order : j < i /\ order[j] = c

\* The order lists every defined function, and each once (a function listed
\* twice would be spliced into itself; one left out would keep its calls).
OrderComplete ==
  pc = "done" =>
    /\ \A f \in Defined : \E i \in DOMAIN order : order[i] = f
    /\ \A i, j \in DOMAIN order : order[i] = order[j] => i = j

\* The check for recursion says neither too much nor too little.
RecursionExact == CycleIsReal /\ NoCycleMissed

\* The order is one the inliner can work through: complete, without
\* repetition, callees first.
InlineOrder == CalleesFirst /\ OrderComplete
=============================================================================
