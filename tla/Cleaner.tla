------------------------------- MODULE Cleaner -------------------------------
(***************************************************************************)
(* The hook-cleaner pass of rshooks-build (crates/rshooks-build/src/       *)
(* cleaner.rs, fn clean): garbage-collects functions and globals that the  *)
(* entry points do not reach, then re-emits the module with one            *)
(* order-preserving index table per index space.                           *)
(*                                                                         *)
(* A module is abstracted to its references: which functions a body calls, *)
(* which globals it touches, which global an initializer or a data offset  *)
(* reads.  The indices are the program's own (imports first, from 0), so   *)
(* that a table that disagrees with the emitted sections is visible.       *)
(***************************************************************************)
EXTENDS Integers, Sequences, FiniteSets

CONSTANTS
  NImpF,     \* imported functions: indices 0 .. NImpF-1
  NFuncs,    \* all functions, imported and defined
  NImpG,     \* imported globals
  NGlobals,  \* all globals
  None,      \* "no index": the Option::None of the source
  Inputs     \* the parsed modules the pass may be given

Funcs   == 0 .. NFuncs-1
Globals == 0 .. NGlobals-1
Pcs == {"entry", "reach", "globals", "fmap", "gmap", "imports", "code",
        "globalsec", "data", "done", "error"}

\* ir::ParsedModule: the references that the pass reads.
ParsedModule ==
  [calls    : [Funcs -> SUBSET Funcs],          \* scan_refs(body).calls
   gets     : [Funcs -> SUBSET Globals],        \* scan_refs(body).globals
   indirect : SUBSET Funcs,                     \* bodies with a call_indirect
   init     : [Globals -> Globals \cup {None}], \* global.get of an initializer
   datas    : Seq(Globals \cup {None}),         \* global.get of a data offset
   hasMem   : BOOLEAN,
   hook     : Funcs \cup {None},                \* exports
   cbak     : Funcs \cup {None},
   entrySig : SUBSET Funcs]                     \* functions of type (i32)->i64

\* What the pass writes: the source function of each emitted one, and the
\* references as they are after remapping.
CleanModule ==
  [funcs   : Seq(Funcs),
   calls   : Seq(SUBSET Nat),
   gets    : Seq(SUBSET Nat),
   globals : Seq(Globals),
   init    : Seq(Nat \cup {None}),
   datas   : Seq(Nat \cup {None}),
   hook    : Nat \cup {None},
   cbak    : Nat \cup {None}]

ASSUME CleanerConstants ==
  /\ NImpF \in Nat /\ NFuncs \in Nat /\ NImpF <= NFuncs
  /\ NImpG \in Nat /\ NGlobals \in Nat /\ NImpG <= NGlobals
  /\ None \notin Int

\* An import has no body and no initializer.
ASSUME CleanerInputs ==
  /\ \A i \in Inputs : i \in ParsedModule
  /\ \A i \in Inputs : \A f \in Funcs : f < NImpF => i.calls[f] = {} /\ i.gets[f] = {}
  /\ \A i \in Inputs : \A g \in Globals : g < NImpG => i.init[g] = None

VARIABLES
  m,        \* the input, never written
  pc,       \* where the pass is
  stack,    \* the worklist of functions
  reach,    \* reachable_funcs
  used,     \* used_globals
  added,    \* the fixed point's `added` flag
  scan,     \* the index that the current loop is at
  fmap,     \* func_new_index
  gmap,     \* global_new_index
  next,     \* the next new index of the table being built
  out       \* the sections written so far

vars == <<m, pc, stack, reach, used, added, scan, fmap, gmap, next, out>>

-----------------------------------------------------------------------------
(* Helpers *)

Last(s)  == s[Len(s)]
Front(s) == SubSeq(s, 1, Len(s)-1)
Elems(s) == {s[i] : i \in DOMAIN s}

\* The iteration of a BTreeSet, as the vector of its members in order.
Ascending(S) ==
  {s \in [1 .. Cardinality(S) -> S] :
     /\ \A x \in S : \E i \in DOMAIN s : s[i] = x
     /\ \A i, j \in DOMAIN s : i < j => s[i] < s[j]}

Extend(f, k, v) == [x \in DOMAIN f \cup {k} |-> IF x = k THEN v ELSE f[x]]

EmptyMap == [x \in {} |-> 0]

\* `map.get(&old).unwrap_or(&old)`: an index the table lacks is left as it is.
MapIndex(table, old) == IF old \in DOMAIN table THEN table[old] ELSE old

MapSet(table, S) == {MapIndex(table, x) : x \in S}

\* `roots`: hook, then cbak when it is exported.
RootSeq(i) == IF i.cbak = None THEN <<i.hook>> ELSE <<i.hook, i.cbak>>

EntriesOk(i) ==
  /\ i.hook # None /\ i.hook \in i.entrySig
  /\ i.cbak # None => i.cbak \in i.entrySig

\* ir::body_needs_remap: some call or global of the body changes its index.
MutNeedsRemap(f) == \E c \in m.calls[f] : MapIndex(fmap, c) # c
NeedsRemap(f) ==
  \/ \E c \in m.calls[f] : MapIndex(fmap, c) # c
  \/ \E g \in m.gets[f] : MapIndex(gmap, g) # g

\* ir::remap_const_expr of an optional global reference.
MapRef(ref) == IF ref = None THEN None ELSE MapIndex(gmap, ref)

EmptyOut == [funcs |-> <<>>, calls |-> <<>>, gets |-> <<>>,
             globals |-> <<>>, init |-> <<>>, datas |-> <<>>,
             hook |-> None, cbak |-> None]

-----------------------------------------------------------------------------
Start ==
  /\ pc = "entry"
  /\ stack = <<>> /\ reach = {} /\ used = {} /\ added = FALSE
  /\ scan = 0 /\ fmap = EmptyMap /\ gmap = EmptyMap /\ next = 0
  /\ out = EmptyOut

Init == m \in Inputs /\ Start

LocateEntries ==
  /\ pc = "entry" /\ EntriesOk(m)
  /\ pc' = "reach" /\ stack' = RootSeq(m)
  /\ UNCHANGED <<m, reach, used, added, scan, fmap, gmap, next, out>>

RejectEntries ==
  /\ pc = "entry" /\ ~EntriesOk(m)
  /\ pc' = "error"
  /\ UNCHANGED <<m, stack, reach, used, added, scan, fmap, gmap, next, out>>

\* One turn of the worklist: pop; on a first visit push the callees and
\* collect the globals of the body.
VisitSeen ==
  /\ pc = "reach" /\ stack # <<>> /\ Last(stack) \in reach
  /\ stack' = Front(stack)
  /\ UNCHANGED <<m, pc, reach, used, added, scan, fmap, gmap, next, out>>

VisitNew ==
  /\ pc = "reach" /\ stack # <<>> /\ Last(stack) \notin reach
  /\ LET f == Last(stack) IN
       /\ reach' = reach \cup {f}
       /\ \E s \in Ascending(m.calls[f]) : stack' = Front(stack) \o s
       /\ used' = used \cup m.gets[f]
  /\ UNCHANGED <<m, pc, added, scan, fmap, gmap, next, out>>

\* The worklist is empty: data offsets make their globals used, and the
\* fixed point over the initializers starts.
MutReachDone ==
  /\ pc = "reach" /\ stack = <<>>
  /\ pc' = "globals" /\ scan' = NImpG /\ added' = FALSE
  /\ UNCHANGED <<m, stack, reach, used, fmap, gmap, next, out>>
ReachDone ==
  /\ pc = "reach" /\ stack = <<>>
  /\ used' = used \cup (Elems(m.datas) \ {None})
  /\ pc' = "globals" /\ scan' = NImpG /\ added' = FALSE
  /\ UNCHANGED <<m, stack, reach, fmap, gmap, next, out>>

\* One global of a pass of the fixed point.
InitNeeds(g) == g \in used /\ m.init[g] # None /\ m.init[g] \notin used

ScanGlobal ==
  /\ pc = "globals" /\ scan < NGlobals
  /\ IF InitNeeds(scan)
       THEN used' = used \cup {m.init[scan]} /\ added' = TRUE
       ELSE UNCHANGED <<used, added>>
  /\ scan' = scan + 1
  /\ UNCHANGED <<m, pc, stack, reach, fmap, gmap, next, out>>

MutNextPass ==
  /\ pc = "globals" /\ scan = NGlobals /\ added
  /\ scan' = NImpG
  /\ UNCHANGED <<m, pc, stack, reach, used, added, fmap, gmap, next, out>>
NextPass ==
  /\ pc = "globals" /\ scan = NGlobals /\ added
  /\ scan' = NImpG /\ added' = FALSE
  /\ UNCHANGED <<m, pc, stack, reach, used, fmap, gmap, next, out>>

GlobalsDone ==
  /\ pc = "globals" /\ scan = NGlobals /\ ~added
  /\ pc' = "fmap" /\ scan' = 0 /\ next' = 0
  /\ UNCHANGED <<m, stack, reach, used, added, fmap, gmap, out>>

\* The two index tables: kept indices, in order, numbered from 0.
MapFunc ==
  /\ pc = "fmap" /\ scan < NFuncs
  /\ IF scan \in reach
       THEN fmap' = Extend(fmap, scan, next) /\ next' = next + 1
       ELSE UNCHANGED <<fmap, next>>
  /\ scan' = scan + 1
  /\ UNCHANGED <<m, pc, stack, reach, used, added, gmap, out>>

FuncsMapped ==
  /\ pc = "fmap" /\ scan = NFuncs
  /\ pc' = "gmap" /\ scan' = 0 /\ next' = 0
  /\ UNCHANGED <<m, stack, reach, used, added, fmap, gmap, out>>

\* Imported globals are always kept.
KeepGlobal(g) == g < NImpG \/ g \in used

MapGlobal ==
  /\ pc = "gmap" /\ scan < NGlobals
  /\ IF KeepGlobal(scan)
       THEN gmap' = Extend(gmap, scan, next) /\ next' = next + 1
       ELSE UNCHANGED <<gmap, next>>
  /\ scan' = scan + 1
  /\ UNCHANGED <<m, pc, stack, reach, used, added, fmap, out>>

\* Before anything is emitted: data segments need a memory.
NoMemory == m.datas # <<>> /\ ~m.hasMem

GlobalsMapped ==
  /\ pc = "gmap" /\ scan = NGlobals /\ ~NoMemory
  /\ pc' = "imports" /\ scan' = 0
  /\ UNCHANGED <<m, stack, reach, used, added, fmap, gmap, next, out>>

RejectData ==
  /\ pc = "gmap" /\ scan = NGlobals /\ NoMemory
  /\ pc' = "error"
  /\ UNCHANGED <<m, stack, reach, used, added, scan, fmap, gmap, next, out>>

\* The import section: reached function imports, and every global import.
EmitImport ==
  /\ pc = "imports" /\ scan < NImpF
  /\ IF scan \in reach
       THEN out' = [out EXCEPT !.funcs = Append(@, scan),
                               !.calls = Append(@, {}),
                               !.gets  = Append(@, {})]
       ELSE UNCHANGED out
  /\ scan' = scan + 1
  /\ UNCHANGED <<m, pc, stack, reach, used, added, fmap, gmap, next>>

ImportsEmitted ==
  /\ pc = "imports" /\ scan = NImpF
  /\ out' = [out EXCEPT !.globals = [i \in 1 .. NImpG |-> i-1],
                        !.init    = [i \in 1 .. NImpG |-> None]]
  /\ pc' = "code"
  /\ UNCHANGED <<m, stack, reach, used, added, scan, fmap, gmap, next>>

\* A kept defined function: rebuilt through the tables when an index in it
\* moves, copied byte for byte when none does.
EmitFunc ==
  /\ pc = "code" /\ scan < NFuncs
  /\ scan \in reach => ~(NeedsRemap(scan) /\ scan \in m.indirect)
  /\ IF scan \in reach
       THEN out' = [out EXCEPT
              !.funcs = Append(@, scan),
              !.calls = Append(@, IF NeedsRemap(scan) THEN MapSet(fmap, m.calls[scan])
                                                      ELSE m.calls[scan]),
              !.gets  = Append(@, IF NeedsRemap(scan) THEN MapSet(gmap, m.gets[scan])
                                                      ELSE m.gets[scan])]
       ELSE UNCHANGED out
  /\ scan' = scan + 1
  /\ UNCHANGED <<m, pc, stack, reach, used, added, fmap, gmap, next>>

\* rebuild_function_body refuses call_indirect; a raw copy lets it through.
RejectIndirect ==
  /\ pc = "code" /\ scan < NFuncs
  /\ scan \in reach /\ NeedsRemap(scan) /\ scan \in m.indirect
  /\ pc' = "error"
  /\ UNCHANGED <<m, stack, reach, used, added, scan, fmap, gmap, next, out>>

CodeEmitted ==
  /\ pc = "code" /\ scan = NFuncs
  /\ pc' = "globalsec" /\ scan' = NImpG
  /\ UNCHANGED <<m, stack, reach, used, added, fmap, gmap, next, out>>

EmitGlobal ==
  /\ pc = "globalsec" /\ scan < NGlobals
  /\ IF scan \in DOMAIN gmap
       THEN out' = [out EXCEPT !.globals = Append(@, scan),
                               !.init    = Append(@, MapRef(m.init[scan]))]
       ELSE UNCHANGED out
  /\ scan' = scan + 1
  /\ UNCHANGED <<m, pc, stack, reach, used, added, fmap, gmap, next>>

GlobalsEmitted ==
  /\ pc = "globalsec" /\ scan = NGlobals
  /\ pc' = "data"
  /\ UNCHANGED <<m, stack, reach, used, added, scan, fmap, gmap, next, out>>

\* Exports and data offsets; the module is finished.
EmitData ==
  /\ pc = "data"
  /\ out' = [out EXCEPT
       !.datas = [i \in DOMAIN m.datas |-> MapRef(m.datas[i])],
       !.hook  = MapIndex(fmap, m.hook),
       !.cbak  = IF m.cbak = None THEN None ELSE MapIndex(fmap, m.cbak)]
  /\ pc' = "done"
  /\ UNCHANGED <<m, stack, reach, used, added, scan, fmap, gmap, next>>

Next ==
  \/ LocateEntries \/ RejectEntries
  \/ VisitSeen \/ VisitNew \/ ReachDone
  \/ ScanGlobal \/ NextPass \/ GlobalsDone
  \/ MapFunc \/ FuncsMapped \/ MapGlobal \/ GlobalsMapped \/ RejectData
  \/ EmitImport \/ ImportsEmitted
  \/ EmitFunc \/ RejectIndirect \/ CodeEmitted
  \/ EmitGlobal \/ GlobalsEmitted \/ EmitData

Spec == Init /\ [][Next]_vars

\* One sequential call: it keeps running until it returns.
FairSpec == Spec /\ WF_vars(Next)

-----------------------------------------------------------------------------
(* Properties *)

TypeOK ==
  /\ m \in ParsedModule /\ pc \in Pcs
  /\ stack \in Seq(Funcs) /\ reach \subseteq Funcs /\ used \subseteq Globals
  /\ added \in BOOLEAN /\ scan \in Nat /\ next \in Nat
  /\ DOMAIN fmap \subseteq Funcs /\ \A f \in DOMAIN fmap : fmap[f] \in Nat
  /\ DOMAIN gmap \subseteq Globals /\ \A g \in DOMAIN gmap : gmap[g] \in Nat
  /\ out \in CleanModule

Roots == Elems(RootSeq(m))
CallClosed(S) == \A f \in S : m.calls[f] \subseteq S

\* The collector keeps exactly what the entry points reach through direct
\* calls: the kept functions are the least set that has hook and cbak and is
\* closed under calls.  (cleaner.rs: "all reachable-from-those-exports
\* functions ... kept (and everything else ... dropped)".)
AfterReach == pc \notin {"entry", "reach", "error"}
ReachIsLeast ==
  AfterReach =>
    /\ Roots \subseteq reach /\ CallClosed(reach)
    /\ \A S \in SUBSET Funcs : Roots \subseteq S /\ CallClosed(S) => reach \subseteq S

\* The kept globals are the least set that has what the kept bodies and the
\* data offsets read and is closed under initializers, however the chain of
\* initializers is ordered.
BodyReads == UNION {m.gets[f] : f \in reach}
DataReads == Elems(m.datas) \ {None}
GlobalRoots == BodyReads \cup DataReads
InitClosed(S) == \A g \in S : m.init[g] # None => m.init[g] \in S
AfterGlobals == pc \in {"fmap", "gmap", "imports", "code", "globalsec", "data", "done"}
UsedIsLeast ==
  AfterGlobals =>
    /\ GlobalRoots \subseteq used /\ InitClosed(used)
    /\ \A S \in SUBSET Globals : GlobalRoots \subseteq S /\ InitClosed(S) => used \subseteq S

\* The finished module refers to the same functions as the input did: reading
\* a call (or export) of an emitted body in the emitted function space gives
\* the function that the input body called, whether the body was rebuilt
\* or copied byte for byte.
Resolve(sec, i) == IF i+1 \in DOMAIN sec THEN sec[i+1] ELSE None
RefOf(ref) == IF ref = None THEN None ELSE Resolve(out.globals, ref)

CallsPreserved ==
  pc = "done" =>
    /\ Elems(out.funcs) = reach
    /\ \A i \in DOMAIN out.funcs :
         {Resolve(out.funcs, c) : c \in out.calls[i]} = m.calls[out.funcs[i]]
    /\ Resolve(out.funcs, out.hook) = m.hook
    /\ m.cbak # None => Resolve(out.funcs, out.cbak) = m.cbak

\* The same for globals: bodies, initializers and data offsets.
GlobalsPreserved ==
  pc = "done" =>
    /\ \A i \in DOMAIN out.funcs :
         {Resolve(out.globals, g) : g \in out.gets[i]} = m.gets[out.funcs[i]]
    /\ \A i \in DOMAIN out.globals : RefOf(out.init[i]) = m.init[out.globals[i]]
    /\ \A i \in DOMAIN out.datas : RefOf(out.datas[i]) = m.datas[i]

\* The worklist and the fixed point end on every module, cyclic ones
\* included (recursion is rejected by a later pass, not by this one).
Terminates == <>(pc \in {"done", "error"})

\* What is kept is what is needed, of functions and of globals: nothing less
\* (the module would be broken), nothing more (each byte of it costs fee).
KeepsWhatIsNeeded == ReachIsLeast /\ UsedIsLeast

\* Every reference of the finished module names the entity it named.
ReferencesPreserved == CallsPreserved /\ GlobalsPreserved
=============================================================================
