------------------------------- MODULE MCClean -------------------------------
(* Small instances of Clean.  Over one import and three defined functions,  *)
(* one imported and three defined globals: every call graph, cycles and     *)
(* dead functions included, and every chain of initializers.  Over four     *)
(* bytes of memory: sections of up to two segments (ranges that touch,      *)
(* overlap, are empty, lie out of bounds or are not constant), and three    *)
(* segments that can be instantiated.                                       *)
EXTENDS Clean

FlatGlobals == [g \in Globals |-> None]
CallGraphs ==
  {[f \in Funcs |-> IF f = 0 THEN {} ELSE IF f = 1 THEN a ELSE IF f = 2 THEN b ELSE c] :
     a \in SUBSET {1, 2, 3}, b \in SUBSET {1, 2, 3}, c \in SUBSET {0, 1, 2, 3}}

\* Any call graph; the last function reads global 2, whose index moves.
CallInput(c, h, k) ==
  [calls |-> c, gets |-> [f \in Funcs |-> IF f = NFuncs-1 THEN {2} ELSE {}],
   indirect |-> {}, init |-> FlatGlobals, datas |-> <<>>, hasMem |-> TRUE,
   hook |-> h, cbak |-> k, entrySig |-> 0 .. 2]
CallInputs ==
  {CallInput(c, 1, k) : c \in CallGraphs, k \in {None, 2}}
    \cup {CallInput([f \in Funcs |-> {}], h, k) : h \in Funcs \cup {None}, k \in Funcs \cup {None}}

\* Any chain of initializers and any data offset; two bodies are reached.
Inits == {y \in [Globals -> Globals \cup {None}] :
            \A g \in Globals : y[g] # None => g >= NImpG /\ y[g] < g}
GlobalInputs ==
  {[calls |-> [f \in Funcs |-> IF f = 1 THEN {0, 3} ELSE {}],
    gets |-> [f \in Funcs |-> IF f = 1 THEN a ELSE IF f = 3 THEN {3} \cap b ELSE {}],
    indirect |-> x, init |-> ini, datas |-> d, hasMem |-> mem,
    hook |-> 1, cbak |-> None, entrySig |-> {1}] :
     a \in {{}, {0}, {2}}, b \in {{}, {3}}, x \in {{}, {1}, {3}},
     ini \in Inits, d \in {<<>>, <<1, None>>}, mem \in BOOLEAN}

MCInputs == CallInputs \cup GlobalInputs

CONSTANTS MaxData, MaxValue

Payloads == UNION {[1 .. n -> Bytes] : n \in 0 .. MaxData}

MCSegments ==
  [active : {TRUE}, const : {TRUE}, value : 0 .. MaxValue, data : Payloads]
    \cup [active : {TRUE}, const : {FALSE}, value : {0}, data : Payloads]
    \cup [active : {FALSE}, const : {TRUE}, value : {0}, data : {<<0>>, <<1, 0>>}]

InBounds ==
  [active : {TRUE}, const : {TRUE}, value : 0 .. MemSize-2,
   data : {<< >>, <<0>>, <<1>>, <<1, 0>>, <<0, 1>>, <<0, 0>>}]

MCDatas == UNION {[1 .. n -> MCSegments] : n \in 0 .. 2} \cup [1 .. 3 -> InBounds]

-----------------------------------------------------------------------------
(* A call or global input goes with segments of one byte at the offsets its  *)
(* data section names; a data section with the smallest module that has it.  *)

OneByte(refs) ==
  [k \in DOMAIN refs |->
     [active |-> TRUE, const |-> refs[k] = None, value |-> 0, data |-> <<1>>]]

SmallModule(ds) ==
  [calls |-> [f \in Funcs |-> {}], gets |-> [f \in Funcs |-> {}], indirect |-> {},
   init |-> FlatGlobals,
   datas |-> [k \in DOMAIN ds |-> IF ds[k].active /\ ~ds[k].const THEN 1 ELSE None],
   hasMem |-> TRUE, hook |-> 1, cbak |-> None, entrySig |-> {1}]

MCAllDatas == MCDatas \cup {OneByte(x.datas) : x \in MCInputs}
MCAllInputs == MCInputs \cup {SmallModule(ds) : ds \in MCDatas}
MCSections ==
  {<<x, OneByte(x.datas)>> : x \in MCInputs} \cup {<<SmallModule(ds), ds>> : ds \in MCDatas}
=============================================================================
