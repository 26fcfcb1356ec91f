---------------------------- MODULE Clean_proofs ------------------------------
(***************************************************************************)
(* Proofs about the cleaning pass, for every module it may be given: first *)
(* what is kept and how it is renamed (Cleaner), then the data section     *)
(* (DataTrim), then the two together.                                      *)
(***************************************************************************)
EXTENDS Clean, SequenceTheorems, FiniteSetTheorems, WellFoundedInduction, TLAPS

-----------------------------------------------------------------------------
(* Facts about the helpers *)

\* Popping a worklist: it is the rest and its last element.
LEMMA PopElems ==
  ASSUME NEW T, NEW s \in Seq(T), s # <<>>
  PROVE  /\ Front(s) \in Seq(T) /\ Last(s) \in T
         /\ Elems(s) = Elems(Front(s)) \cup {Last(s)}
<1>1. Len(s) \in Nat /\ Len(s) > 0 /\ DOMAIN s = 1 .. Len(s)
  BY EmptySeq, LenProperties
<1>2. Len(Front(s)) = Len(s)-1 /\ \A i \in 1 .. Len(s)-1 : Front(s)[i] = s[i]
  BY <1>1, SubSeqProperties DEF Front
<1>3. Front(s) \in Seq(T) /\ Last(s) \in T
  BY <1>1, SubSeqProperties, ElementOfSeq DEF Front, Last
<1>4. DOMAIN Front(s) = 1 .. Len(s)-1
  BY <1>2, <1>3, LenProperties
<1>5. \A x : x \in Elems(s) <=> x \in Elems(Front(s)) \/ x = Last(s)
  BY <1>1, <1>2, <1>4 DEF Elems, Last
<1> QED
  BY <1>3, <1>5

\* Appending one worklist to another joins their elements.
LEMMA ConcatElems ==
  ASSUME NEW T, NEW s \in Seq(T), NEW t \in Seq(T)
  PROVE  s \o t \in Seq(T) /\ Elems(s \o t) = Elems(s) \cup Elems(t)
<1>1. /\ s \o t \in Seq(T) /\ Len(s \o t) = Len(s) + Len(t)
      /\ \A i \in 1 .. Len(s) + Len(t) :
           (s \o t)[i] = IF i <= Len(s) THEN s[i] ELSE t[i - Len(s)]
  BY ConcatProperties
<1>2. /\ DOMAIN s = 1 .. Len(s) /\ DOMAIN t = 1 .. Len(t)
      /\ DOMAIN (s \o t) = 1 .. Len(s) + Len(t)
      /\ Len(s) \in Nat /\ Len(t) \in Nat
  BY <1>1, LenProperties
<1>3. ASSUME NEW x \in Elems(t) PROVE x \in Elems(s \o t)
  <2>1. PICK i \in 1 .. Len(t) : x = t[i]
    BY <1>2 DEF Elems
  <2>2. i + Len(s) \in 1 .. Len(s) + Len(t) /\ (s \o t)[i + Len(s)] = x
    BY <1>1, <1>2, <2>1
  <2> QED
    BY <1>2, <2>2 DEF Elems
<1>4. ASSUME NEW x \in Elems(s) PROVE x \in Elems(s \o t)
  BY <1>1, <1>2 DEF Elems
<1>5. ASSUME NEW x \in Elems(s \o t) PROVE x \in Elems(s) \cup Elems(t)
  BY <1>1, <1>2 DEF Elems
<1> QED
  BY <1>1, <1>3, <1>4, <1>5

\* The vector that a BTreeSet iterates holds exactly its members.
LEMMA AscendingElems ==
  ASSUME NEW T, NEW S \in SUBSET T, NEW s \in Ascending(S), Cardinality(S) \in Nat
  PROVE  s \in Seq(T) /\ Elems(s) = S
<1>1. s \in [1 .. Cardinality(S) -> S] /\ \A x \in S : \E i \in DOMAIN s : s[i] = x
  BY DEF Ascending
<1>2. s \in Seq(S)
  BY <1>1, SeqDef
<1> QED
  BY <1>1, <1>2, SeqDef DEF Elems

LEMMA CallVectors ==
  ASSUME NEW S \in SUBSET Funcs, NEW s \in Ascending(S)
  PROVE  s \in Seq(Funcs) /\ Elems(s) = S
<1>1. IsFiniteSet(Funcs)
  BY CleanerConstants, FS_Interval DEF Funcs
<1>2. Cardinality(S) \in Nat
  BY <1>1, FS_Subset, FS_CardinalityType
<1> QED
  BY <1>2, AscendingElems

-----------------------------------------------------------------------------
(* Type correctness *)

\* TypeOK, and the input stays one of the inputs.
TypeInv == TypeOK /\ m \in Inputs

LEMMA RootsType ==
  ASSUME NEW i \in ParsedModule, EntriesOk(i)
  PROVE  RootSeq(i) \in Seq(Funcs)
<1>1. i.hook \in Funcs /\ (i.cbak # None => i.cbak \in Funcs)
  BY DEF ParsedModule, EntriesOk
<1>2. CASE i.cbak = None
  BY <1>1, <1>2 DEF RootSeq
<1>3. CASE i.cbak # None
  BY <1>1, <1>3 DEF RootSeq
<1> QED
  BY <1>2, <1>3

LEMMA MapIndexType ==
  ASSUME NEW table, \A x \in DOMAIN table : table[x] \in Nat, NEW old \in Nat
  PROVE  MapIndex(table, old) \in Nat
BY DEF MapIndex

LEMMA MapSetType ==
  ASSUME NEW table, \A x \in DOMAIN table : table[x] \in Nat, NEW S \in SUBSET Nat
  PROVE  MapSet(table, S) \in SUBSET Nat
BY MapIndexType DEF MapSet

\* One more emitted function, or global, keeps the output well formed.
LEMMA OutFunc ==
  ASSUME NEW o \in CleanModule, NEW f \in Funcs, NEW c \in SUBSET Nat, NEW g \in SUBSET Nat
  PROVE  [o EXCEPT !.funcs = Append(@, f), !.calls = Append(@, c), !.gets = Append(@, g)]
           \in CleanModule
<1>1. /\ Append(o.funcs, f) \in Seq(Funcs)
      /\ Append(o.calls, c) \in Seq(SUBSET Nat)
      /\ Append(o.gets, g) \in Seq(SUBSET Nat)
  BY AppendProperties DEF CleanModule
<1> QED
  BY <1>1 DEF CleanModule

LEMMA OutGlobal ==
  ASSUME NEW o \in CleanModule, NEW g \in Globals, NEW r \in Nat \cup {None}
  PROVE  [o EXCEPT !.globals = Append(@, g), !.init = Append(@, r)] \in CleanModule
<1>1. Append(o.globals, g) \in Seq(Globals) /\ Append(o.init, r) \in Seq(Nat \cup {None})
  BY AppendProperties DEF CleanModule
<1> QED
  BY <1>1 DEF CleanModule

LEMMA InitTypeInv == Init => TypeInv
<1> SUFFICES ASSUME Init PROVE TypeInv
  OBVIOUS
<1>1. m \in Inputs /\ m \in ParsedModule
  BY CleanerInputs DEF Init, Start
<1>2. out \in CleanModule
  BY DEF Init, Start, EmptyOut, CleanModule
<1> QED
  BY <1>1, <1>2, EmptySeq DEF Init, Start, TypeInv, TypeOK, Pcs, EmptyMap

LEMMA NextTypeInv == TypeInv /\ [Next]_vars => TypeInv'
<1> SUFFICES ASSUME TypeInv, [Next]_vars PROVE TypeInv'
  OBVIOUS
<1> USE CleanerConstants DEF TypeInv, TypeOK, Pcs
<1>a. /\ m.hook \in Funcs \cup {None} /\ m.cbak \in Funcs \cup {None}
      /\ \A f \in Funcs : m.calls[f] \in SUBSET Funcs /\ m.gets[f] \in SUBSET Globals
      /\ \A g \in Globals : m.init[g] \in Globals \cup {None}
      /\ m.datas \in Seq(Globals \cup {None})
  BY DEF ParsedModule
<1>b. Funcs \subseteq Nat /\ Globals \subseteq Nat
  BY DEF Funcs, Globals
<1>c. /\ scan < NImpF => scan \in Funcs
      /\ scan < NFuncs => scan \in Funcs
      /\ scan < NGlobals => scan \in Globals
  BY DEF Funcs, Globals
<1>1. CASE LocateEntries
  BY <1>1, RootsType DEF LocateEntries
<1>2. CASE RejectEntries
  BY <1>2 DEF RejectEntries
<1>3. CASE VisitSeen
  BY <1>3, PopElems DEF VisitSeen
<1>4. CASE VisitNew
  <2>1. Last(stack) \in Funcs /\ Front(stack) \in Seq(Funcs)
    BY <1>4, PopElems DEF VisitNew
  <2>2. stack' \in Seq(Funcs)
    <3>1. PICK s \in Ascending(m.calls[Last(stack)]) : stack' = Front(stack) \o s
      BY <1>4 DEF VisitNew
    <3>2. s \in Seq(Funcs)
      BY <2>1, <1>a, CallVectors
    <3> QED
      BY <2>1, <3>1, <3>2, ConcatElems
  <2> QED
    BY <1>4, <1>a, <2>1, <2>2 DEF VisitNew
<1>5. CASE ReachDone
  <2>1. Elems(m.datas) \ {None} \subseteq Globals
    BY <1>a, ElementOfSeq DEF Elems
  <2> QED
    BY <1>5, <2>1 DEF ReachDone
<1>6. CASE ScanGlobal
  <2>1. used' \in SUBSET Globals /\ added' \in BOOLEAN
    <3>1. CASE InitNeeds(scan)
      <4>1. m.init[scan] \in Globals
        BY <3>1, <1>a DEF InitNeeds
      <4> QED
        BY <1>6, <3>1, <4>1 DEF ScanGlobal
    <3>2. CASE ~InitNeeds(scan)
      BY <1>6, <3>2 DEF ScanGlobal
    <3> QED
      BY <3>1, <3>2
  <2> QED
    BY <1>6, <2>1 DEF ScanGlobal
<1>7. CASE NextPass
  BY <1>7 DEF NextPass
<1>8. CASE GlobalsDone
  BY <1>8 DEF GlobalsDone
<1>9. CASE MapFunc
  BY <1>9 DEF MapFunc, Extend
<1>10. CASE FuncsMapped
  BY <1>10 DEF FuncsMapped
<1>11. CASE MapGlobal
  <2>1. DOMAIN gmap' \subseteq Globals /\ \A g \in DOMAIN gmap' : gmap'[g] \in Nat
    BY <1>11, <1>c DEF MapGlobal, Extend
  <2> QED
    BY <1>11, <2>1 DEF MapGlobal
<1>12. CASE GlobalsMapped
  BY <1>12 DEF GlobalsMapped
<1>13. CASE RejectData
  BY <1>13 DEF RejectData
<1>14. CASE EmitImport
  <2>1. out' \in CleanModule
    <3>1. CASE scan \in reach
      <4>1. {} \in SUBSET Nat
        OBVIOUS
      <4>2. out' = [out EXCEPT !.funcs = Append(@, scan), !.calls = Append(@, {}),
                               !.gets = Append(@, {})]
        BY <1>14, <3>1 DEF EmitImport
      <4> QED
        BY <3>1, <4>1, <4>2, OutFunc
    <3>2. CASE scan \notin reach
      BY <1>14, <3>2 DEF EmitImport
    <3> QED
      BY <3>1, <3>2
  <2> QED
    BY <1>14, <2>1 DEF EmitImport
<1>15. CASE ImportsEmitted
  <2>1. [i \in 1 .. NImpG |-> i-1] \in Seq(Globals)
    BY SeqDef DEF Globals
  <2>2. [i \in 1 .. NImpG |-> None] \in Seq(Nat \cup {None})
    BY SeqDef
  <2>3. out' \in CleanModule
    BY <1>15, <2>1, <2>2 DEF ImportsEmitted, CleanModule
  <2> QED
    BY <1>15, <2>3 DEF ImportsEmitted
<1>16. CASE EmitFunc
  <2>1. scan \in reach => /\ m.calls[scan] \in SUBSET Nat /\ m.gets[scan] \in SUBSET Nat
                          /\ MapSet(fmap, m.calls[scan]) \in SUBSET Nat
                          /\ MapSet(gmap, m.gets[scan]) \in SUBSET Nat
    BY <1>a, <1>b, MapSetType
  <2>2. out' \in CleanModule
    <3>1. CASE scan \in reach
      <4> DEFINE cs == IF NeedsRemap(scan) THEN MapSet(fmap, m.calls[scan]) ELSE m.calls[scan]
                 gs == IF NeedsRemap(scan) THEN MapSet(gmap, m.gets[scan]) ELSE m.gets[scan]
      <4>1. cs \in SUBSET Nat /\ gs \in SUBSET Nat
        BY <2>1, <3>1
      <4>2. out' = [out EXCEPT !.funcs = Append(@, scan), !.calls = Append(@, cs),
                               !.gets = Append(@, gs)]
        BY <1>16, <3>1 DEF EmitFunc
      <4> HIDE DEF cs, gs
      <4> QED
        BY <3>1, <4>1, <4>2, OutFunc
    <3>2. CASE scan \notin reach
      BY <1>16, <3>2 DEF EmitFunc
    <3> QED
      BY <3>1, <3>2
  <2> QED
    BY <1>16, <2>2 DEF EmitFunc
<1>17. CASE RejectIndirect
  BY <1>17 DEF RejectIndirect
<1>18. CASE CodeEmitted
  BY <1>18 DEF CodeEmitted
<1>19. CASE EmitGlobal
  <2>1. scan \in DOMAIN gmap => scan \in Globals /\ MapRef(m.init[scan]) \in Nat \cup {None}
    BY <1>a, <1>b, MapIndexType DEF MapRef
  <2>2. out' \in CleanModule
    BY <1>19, <2>1, OutGlobal DEF EmitGlobal
  <2> QED
    BY <1>19, <2>2 DEF EmitGlobal
<1>20. CASE GlobalsEmitted
  BY <1>20 DEF GlobalsEmitted
<1>21. CASE EmitData
  <2>1. DOMAIN m.datas = 1 .. Len(m.datas) /\ Len(m.datas) \in Nat
    BY <1>a, LenProperties
  <2>2. \A i \in DOMAIN m.datas : MapRef(m.datas[i]) \in Nat \cup {None}
    <3> SUFFICES ASSUME NEW i \in DOMAIN m.datas PROVE MapRef(m.datas[i]) \in Nat \cup {None}
      OBVIOUS
    <3>1. m.datas[i] \in Globals \cup {None}
      BY <1>a, <2>1, ElementOfSeq
    <3> QED
      BY <1>b, <3>1, MapIndexType DEF MapRef
  <2>3. [i \in DOMAIN m.datas |-> MapRef(m.datas[i])] \in Seq(Nat \cup {None})
    BY <2>1, <2>2, SeqDef
  <2>4. MapIndex(fmap, m.hook) \in Nat \cup {None} /\ (m.cbak # None => MapIndex(fmap, m.cbak) \in Nat)
    BY <1>a, <1>b DEF MapIndex
  <2>5. out' \in CleanModule
    BY <1>21, <2>3, <2>4 DEF EmitData, CleanModule
  <2> QED
    BY <1>21, <2>5 DEF EmitData
<1>22. CASE UNCHANGED vars
  BY <1>22 DEF vars
<1> QED
  BY <1>1, <1>2, <1>3, <1>4, <1>5, <1>6, <1>7, <1>8, <1>9, <1>10, <1>11, <1>12, <1>13,
     <1>14, <1>15, <1>16, <1>17, <1>18, <1>19, <1>20, <1>21, <1>22 DEF Next

\* Every state of the pass is well typed: in particular no index table or
\* emitted section ever holds anything but indices.
THEOREM TypeCorrect == Spec => []TypeOK
<1>1. Spec => []TypeInv
  BY InitTypeInv, NextTypeInv, PTL DEF Spec
<1>2. TypeInv => TypeOK
  BY DEF TypeInv
<1> QED
  BY <1>1, <1>2, PTL

-----------------------------------------------------------------------------
(* Reachability *)

\* While the worklist runs: what has been reached or is still queued holds the
\* roots, covers the calls of every reached function, and is inside every
\* call-closed set that has the roots.
Pending == reach \cup Elems(stack)
ReachLoop ==
  pc = "reach" =>
    /\ Roots \subseteq Pending
    /\ \A f \in reach : m.calls[f] \subseteq Pending
    /\ \A S \in SUBSET Funcs : Roots \subseteq S /\ CallClosed(S) => Pending \subseteq S
    /\ used = UNION {m.gets[f] : f \in reach}

EntryInv == pc = "entry" => reach = {} /\ used = {}

ReachInv == EntryInv /\ ReachLoop /\ ReachIsLeast

LEMMA NextReachInv == TypeInv /\ ReachInv /\ [Next]_vars => ReachInv'
<1> SUFFICES ASSUME TypeInv, ReachInv, [Next]_vars PROVE ReachInv'
  OBVIOUS
<1> USE DEF TypeInv, TypeOK, ReachInv, EntryInv, ReachLoop, ReachIsLeast, AfterReach,
            Pending, Roots, CallClosed, Pcs
<1>1. CASE LocateEntries
  <2>1. /\ pc' = "reach" /\ stack' = RootSeq(m) /\ m' = m
        /\ reach' = {} /\ used' = {}
    BY <1>1 DEF LocateEntries
  <2> QED
    BY <2>1
<1>2. CASE RejectEntries
  BY <1>2 DEF RejectEntries
<1>3. CASE VisitSeen
  <2>1. Elems(stack) = Elems(stack') \cup {Last(stack)}
    BY <1>3, PopElems DEF VisitSeen
  <2>2. Pending' = Pending
    BY <1>3, <2>1 DEF VisitSeen
  <2> QED
    BY <1>3, <2>2 DEF VisitSeen
<1>4. CASE VisitNew
  <2> DEFINE f == Last(stack)
  <2>1. f \in Funcs /\ Front(stack) \in Seq(Funcs) /\ Elems(stack) = Elems(Front(stack)) \cup {f}
    BY <1>4, PopElems DEF VisitNew
  <2>2. m.calls[f] \in SUBSET Funcs
    BY <2>1 DEF ParsedModule
  <2>3. Elems(stack') = Elems(Front(stack)) \cup m.calls[f]
    <3>1. PICK s \in Ascending(m.calls[f]) : stack' = Front(stack) \o s
      BY <1>4 DEF VisitNew
    <3>2. s \in Seq(Funcs) /\ Elems(s) = m.calls[f]
      BY <2>2, CallVectors
    <3> QED
      BY <2>1, <3>1, <3>2, ConcatElems
  <2>4. pc = "reach" /\ pc' = "reach" /\ m' = m /\ reach' = reach \cup {f} /\ used' = used \cup m.gets[f]
    BY <1>4 DEF VisitNew
  <2> HIDE DEF f
  <2>5. Pending' = Pending \cup m.calls[f]
    BY <2>1, <2>3, <2>4
  <2>6. Roots' = Roots
    BY <2>4
  <2>7. \A g \in reach' : m.calls[g] \subseteq Pending'
    BY <2>4, <2>5
  <2>8. \A S \in SUBSET Funcs : Roots \subseteq S /\ CallClosed(S) => Pending' \subseteq S
    BY <2>1, <2>4, <2>5
  <2>9. used' = UNION {m.gets[g] : g \in reach'}
    BY <2>4
  <2> QED
    BY <2>4, <2>5, <2>6, <2>7, <2>8, <2>9
<1>5. CASE ReachDone
  <2>1. Elems(stack) = {}
    BY <1>5 DEF ReachDone, Elems
  <2> QED
    BY <1>5, <2>1 DEF ReachDone
<1>6. ASSUME UNCHANGED <<m, reach>>, pc \notin {"entry", "reach", "error"}, pc' \notin {"entry", "reach"}
      PROVE  ReachInv'
  BY <1>6
<1>7. CASE ScanGlobal \/ NextPass \/ GlobalsDone \/ MapFunc \/ FuncsMapped \/ MapGlobal
             \/ GlobalsMapped \/ RejectData \/ EmitImport \/ ImportsEmitted \/ EmitFunc
             \/ RejectIndirect \/ CodeEmitted \/ EmitGlobal \/ GlobalsEmitted \/ EmitData
  BY <1>6, <1>7 DEF ScanGlobal, NextPass, GlobalsDone, MapFunc, FuncsMapped, MapGlobal,
     GlobalsMapped, RejectData, EmitImport, ImportsEmitted, EmitFunc, RejectIndirect,
     CodeEmitted, EmitGlobal, GlobalsEmitted, EmitData
<1>8. CASE UNCHANGED vars
  BY <1>8 DEF vars
<1> QED
  BY <1>1, <1>2, <1>3, <1>4, <1>5, <1>7, <1>8 DEF Next

\* The functions kept are exactly those that hook and cbak reach.
THEOREM KeepsWhatIsReached == Spec => []ReachIsLeast
<1>1. Init => ReachInv
  BY DEF Init, Start, ReachInv, EntryInv, ReachLoop, ReachIsLeast, AfterReach
<1>2. Spec => []TypeInv
  BY InitTypeInv, NextTypeInv, PTL DEF Spec
<1>3. Spec => []ReachInv
  BY <1>1, <1>2, NextReachInv, PTL DEF Spec
<1>4. ReachInv => ReachIsLeast
  BY DEF ReachInv
<1> QED
  BY <1>3, <1>4, PTL

-----------------------------------------------------------------------------
(* The fixed point over the globals *)

\* While a pass runs: `used` lies between the roots and the least closed set,
\* and a pass that has added nothing so far has left no initializer behind.
GlobalsLoop ==
  pc = "globals" =>
    /\ scan \in NImpG .. NGlobals
    /\ GlobalRoots \subseteq used
    /\ \A S \in SUBSET Globals : GlobalRoots \subseteq S /\ InitClosed(S) => used \subseteq S
    /\ ~added => \A g \in used : g < scan /\ m.init[g] # None => m.init[g] \in used

UsedInv == GlobalsLoop /\ UsedIsLeast

LEMMA NextUsedInv == TypeInv /\ ReachInv /\ UsedInv /\ [Next]_vars => UsedInv'
<1> SUFFICES ASSUME TypeInv, ReachInv, UsedInv, [Next]_vars PROVE UsedInv'
  OBVIOUS
<1> USE CleanerConstants DEF TypeInv, TypeOK, UsedInv, GlobalsLoop, UsedIsLeast, AfterGlobals, Pcs
<1>a. \A g \in Globals : m.init[g] \in Globals \cup {None}
  BY DEF ParsedModule
<1>1. CASE LocateEntries \/ RejectEntries \/ VisitSeen \/ VisitNew
  BY <1>1 DEF LocateEntries, RejectEntries, VisitSeen, VisitNew
<1>2. CASE ReachDone
  <2>1. /\ pc' = "globals" /\ scan' = NImpG /\ m' = m /\ reach' = reach
        /\ used' = used \cup (Elems(m.datas) \ {None})
    BY <1>2 DEF ReachDone
  <2>2. used = UNION {m.gets[f] : f \in reach}
    BY <1>2 DEF ReachDone, ReachInv, ReachLoop
  <2>3. GlobalRoots' = used'
    <3>1. BodyReads' = BodyReads /\ DataReads' = DataReads
      BY <2>1 DEF BodyReads, DataReads
    <3>2. used = BodyReads
      BY <2>2 DEF BodyReads
    <3>3. used' = used \cup DataReads
      BY <2>1 DEF DataReads
    <3> QED
      BY <3>1, <3>2, <3>3 DEF GlobalRoots
  <2>4. \A g \in used' : ~(g < scan' /\ m.init[g] # None)
    <3> SUFFICES ASSUME NEW g \in used', g < scan', m.init[g] # None PROVE FALSE
      OBVIOUS
    <3>1. used' \subseteq Globals
      BY NextTypeInv
    <3> QED
      BY <2>1, <3>1, CleanerInputs
  <2>5. UsedIsLeast'
    BY <2>1
  <2>6. GlobalsLoop'
    BY <2>1, <2>3, <2>4
  <2> QED
    BY <2>5, <2>6
<1>3. CASE ScanGlobal
  <2>1. /\ pc = "globals" /\ pc' = "globals" /\ scan < NGlobals /\ scan' = scan + 1
        /\ m' = m /\ reach' = reach
    BY <1>3 DEF ScanGlobal
  <2>2. GlobalRoots' = GlobalRoots /\ \A S : InitClosed(S)' <=> InitClosed(S)
    BY <2>1 DEF GlobalRoots, BodyReads, DataReads, InitClosed
  <2>3. CASE InitNeeds(scan)
    <3>1. used' = used \cup {m.init[scan]} /\ added' = TRUE
      BY <1>3, <2>3 DEF ScanGlobal
    <3>2. scan \in used /\ m.init[scan] # None
      BY <2>3 DEF InitNeeds
    <3>3. ASSUME NEW S \in SUBSET Globals, GlobalRoots \subseteq S, InitClosed(S)
          PROVE  used' \subseteq S
      <4>1. used \subseteq S
        BY <2>1, <3>3
      <4>2. m.init[scan] \in S
        BY <3>2, <3>3, <4>1 DEF InitClosed
      <4> QED
        BY <3>1, <4>1, <4>2
    <3> QED
      BY <2>1, <2>2, <3>1, <3>3
  <2>4. CASE ~InitNeeds(scan)
    <3>1. used' = used /\ added' = added
      BY <1>3, <2>4 DEF ScanGlobal
    <3>2. scan \in used /\ m.init[scan] # None => m.init[scan] \in used
      BY <2>4 DEF InitNeeds
    <3>3. ~added => \A g \in used : g < scan + 1 /\ m.init[g] # None => m.init[g] \in used
      BY <2>1, <3>2 DEF Globals
    <3> QED
      BY <2>1, <2>2, <3>1, <3>3
  <2> QED
    BY <2>3, <2>4
<1>4. CASE NextPass
  <2>1. /\ pc = "globals" /\ pc' = "globals" /\ scan' = NImpG /\ used' = used
        /\ m' = m /\ reach' = reach
    BY <1>4 DEF NextPass
  <2>2. GlobalRoots' = GlobalRoots /\ \A S : InitClosed(S)' <=> InitClosed(S)
    BY <2>1 DEF GlobalRoots, BodyReads, DataReads, InitClosed
  <2>3. \A g \in used : ~(g < NImpG /\ m.init[g] # None)
    BY CleanerInputs
  <2> QED
    BY <2>1, <2>2, <2>3
<1>5. CASE GlobalsDone
  <2>1. /\ pc = "globals" /\ scan = NGlobals /\ ~added /\ pc' = "fmap" /\ used' = used
        /\ m' = m /\ reach' = reach
    BY <1>5 DEF GlobalsDone
  <2>2. GlobalRoots' = GlobalRoots /\ \A S : InitClosed(S)' <=> InitClosed(S)
    BY <2>1 DEF GlobalRoots, BodyReads, DataReads, InitClosed
  <2>3. InitClosed(used)
    BY <2>1 DEF InitClosed, Globals
  <2> QED
    BY <2>1, <2>2, <2>3
<1>6. ASSUME UNCHANGED <<m, reach, used>>, pc \in {"fmap", "gmap", "imports", "code", "globalsec", "data", "done"},
             pc' # "globals"
      PROVE  UsedInv'
  <2>1. GlobalRoots' = GlobalRoots /\ \A S : InitClosed(S)' <=> InitClosed(S)
    BY <1>6 DEF GlobalRoots, BodyReads, DataReads, InitClosed
  <2> QED
    BY <1>6, <2>1
<1>7. CASE MapFunc \/ FuncsMapped \/ MapGlobal
             \/ GlobalsMapped \/ RejectData \/ EmitImport \/ ImportsEmitted \/ EmitFunc
             \/ RejectIndirect \/ CodeEmitted \/ EmitGlobal \/ GlobalsEmitted \/ EmitData
  BY <1>6, <1>7 DEF MapFunc, FuncsMapped, MapGlobal,
     GlobalsMapped, RejectData, EmitImport, ImportsEmitted, EmitFunc, RejectIndirect,
     CodeEmitted, EmitGlobal, GlobalsEmitted, EmitData
<1>8. CASE UNCHANGED vars
  <2>1. GlobalRoots' = GlobalRoots /\ \A S : InitClosed(S)' <=> InitClosed(S)
    BY <1>8 DEF GlobalRoots, BodyReads, DataReads, InitClosed, vars
  <2> QED
    BY <1>8, <2>1 DEF vars
<1> QED
  BY <1>1, <1>2, <1>3, <1>4, <1>5, <1>7, <1>8 DEF Next

LEMMA Invariants == Spec => [](TypeInv /\ ReachInv /\ UsedInv)
<1>1. Init => ReachInv
  BY DEF Init, Start, ReachInv, EntryInv, ReachLoop, ReachIsLeast, AfterReach
<1>2. Init => UsedInv
  BY DEF Init, Start, UsedInv, GlobalsLoop, UsedIsLeast, AfterGlobals
<1> QED
  BY <1>1, <1>2, InitTypeInv, NextTypeInv, NextReachInv, NextUsedInv, PTL DEF Spec

\* The globals kept are exactly those that the kept bodies and data offsets
\* need, through any chain of initializers.
THEOREM KeepsWhatIsUsed == Spec => []UsedIsLeast
<1>1. UsedInv => UsedIsLeast
  BY DEF UsedInv
<1> QED
  BY <1>1, Invariants, PTL

-----------------------------------------------------------------------------
(* Index tables and the sections they are tables of *)

\* A finished table: the kept indices K, numbered 0, 1, ... in order.
Table(t, K) ==
  /\ DOMAIN t = K /\ \A a \in K : t[a] \in Nat
  /\ \A a, b \in K : a < b => t[a] < t[b]
  /\ \A a \in K : \A k \in Nat : k < t[a] => \E b \in K : t[b] = k

\* A table under construction: numbers below n are taken, by kept indices
\* below lim.
Building(t, K, lim, n) ==
  /\ Table(t, {a \in K : a < lim})
  /\ \A a \in K : a < lim => t[a] < n
  /\ \A k \in Nat : k < n => \E b \in K : b < lim /\ t[b] = k

LEMMA Successor ==
  ASSUME NEW K \in SUBSET Nat, NEW lim \in Nat
  PROVE  \A a \in K : a \in Nat /\ (a < lim + 1 <=> a < lim \/ a = lim)
<1> SUFFICES ASSUME NEW a \in K PROVE a \in Nat /\ (a < lim + 1 <=> a < lim \/ a = lim)
  OBVIOUS
<1>1. a \in Nat
  OBVIOUS
<1> QED
  BY <1>1

\* A section that lists, in table order, the kept indices below lim.
Listed(sec, t, K, lim) ==
  /\ \A i \in 1 .. Len(sec) : sec[i] \in K /\ sec[i] < lim /\ t[sec[i]] = i-1
  /\ \A a \in K : a < lim => t[a] < Len(sec)

LEMMA BuildKept ==
  ASSUME NEW t, NEW K \in SUBSET Nat, NEW lim \in K, NEW n \in Nat, Building(t, K, lim, n)
  PROVE  Building(Extend(t, lim, n), K, lim + 1, n + 1)
<1> DEFINE L == {a \in K : a < lim}
           M == {a \in K : a < lim + 1}
           u == Extend(t, lim, n)
<1>1. M = L \cup {lim} /\ lim \notin L
  <2>1. \A a \in K : a < lim + 1 <=> a < lim \/ a = lim
    BY Successor
  <2>2. ~(lim < lim)
    OBVIOUS
  <2> QED
    BY <2>1, <2>2
<1>2. /\ DOMAIN t = L /\ \A a \in L : t[a] \in Nat /\ t[a] < n
      /\ \A a, b \in L : a < b => t[a] < t[b]
      /\ \A k \in Nat : k < n => \E b \in L : t[b] = k
  BY DEF Building, Table
<1>3. DOMAIN u = M /\ u[lim] = n /\ \A a \in L : u[a] = t[a]
  BY <1>1, <1>2 DEF Extend
<1>4. \A a \in M : u[a] \in Nat /\ u[a] < n + 1
  BY <1>1, <1>2, <1>3
<1>5. \A a, b \in M : a < b => u[a] < u[b]
  BY <1>1, <1>2, <1>3
<1>6. \A k \in Nat : k < n + 1 => \E b \in M : u[b] = k
  BY <1>1, <1>2, <1>3
<1>7. \A a \in M : \A k \in Nat : k < u[a] => \E b \in M : u[b] = k
  BY <1>4, <1>6
<1>8. Table(u, M)
  BY <1>3, <1>4, <1>5, <1>7 DEF Table
<1>9. /\ \A a \in K : a < lim + 1 => u[a] < n + 1
      /\ \A k \in Nat : k < n + 1 => \E b \in K : b < lim + 1 /\ u[b] = k
  BY <1>4, <1>6
<1> QED
  BY <1>8, <1>9 DEF Building

LEMMA BuildDropped ==
  ASSUME NEW t, NEW K \in SUBSET Nat, NEW lim \in Nat \ K, NEW n \in Nat, Building(t, K, lim, n)
  PROVE  Building(t, K, lim + 1, n)
<1>1. \A a \in K : a < lim + 1 <=> a < lim
  BY Successor
<1>2. {a \in K : a < lim + 1} = {a \in K : a < lim}
  BY <1>1
<1> QED
  BY <1>1, <1>2 DEF Building

LEMMA BuildDone ==
  ASSUME NEW t, NEW K \in SUBSET Nat, NEW lim \in Nat, NEW n \in Nat, Building(t, K, lim, n),
         \A a \in K : a < lim
  PROVE  Table(t, K)
<1>1. {a \in K : a < lim} = K
  OBVIOUS
<1> QED
  BY <1>1 DEF Building

\* The next kept index goes exactly where its table entry says.
LEMMA ListKept ==
  ASSUME NEW t, NEW K \in SUBSET Nat, NEW lim \in K, NEW T, NEW sec \in Seq(T), lim \in T,
         Table(t, K), Listed(sec, t, K, lim)
  PROVE  t[lim] = Len(sec) /\ Listed(Append(sec, lim), t, K, lim + 1)
<1> DEFINE n == Len(sec)
<1>1. n \in Nat
  BY LenProperties
<1>2. ~(t[lim] < n)
  <2> SUFFICES ASSUME t[lim] < n PROVE FALSE
    OBVIOUS
  <2>1. t[lim] + 1 \in 1 .. n
    BY <1>1 DEF Table
  <2>2. PICK a \in K : a < lim /\ t[a] = t[lim]
    <3> DEFINE j == t[lim] + 1
    <3>1. sec[j] \in K /\ sec[j] < lim /\ t[sec[j]] = j - 1
      BY <2>1 DEF Listed
    <3>2. t[lim] \in Nat /\ j - 1 = t[lim]
      BY DEF Table
    <3> QED
      BY <3>1, <3>2
  <2> QED
    BY <2>2 DEF Table
<1>3. ~(t[lim] > n)
  <2> SUFFICES ASSUME t[lim] > n PROVE FALSE
    OBVIOUS
  <2>1. PICK b \in K : t[b] = n
    BY <1>1 DEF Table
  <2>2. b < lim
    BY <1>1, <2>1 DEF Table
  <2> QED
    BY <1>1, <2>1, <2>2 DEF Listed
<1>4. t[lim] = n
  BY <1>1, <1>2, <1>3 DEF Table
<1>5. /\ Len(Append(sec, lim)) = n + 1 /\ Append(sec, lim)[n + 1] = lim
      /\ \A i \in 1 .. n : Append(sec, lim)[i] = sec[i]
  BY AppendProperties
<1>6. \A i \in 1 .. n + 1 : LET s == Append(sec, lim) IN s[i] \in K /\ s[i] < lim + 1 /\ t[s[i]] = i-1
  <2> SUFFICES ASSUME NEW i \in 1 .. n + 1
               PROVE  LET s == Append(sec, lim) IN s[i] \in K /\ s[i] < lim + 1 /\ t[s[i]] = i-1
    OBVIOUS
  <2>1. CASE i = n + 1
    BY <1>1, <1>4, <1>5, <2>1
  <2>2. CASE i # n + 1
    <3>1. i \in 1 .. n
      BY <1>1, <2>2
    <3>2. sec[i] \in K /\ sec[i] < lim /\ t[sec[i]] = i-1
      BY <3>1 DEF Listed
    <3> QED
      BY <1>5, <3>1, <3>2, Successor
  <2> QED
    BY <2>1, <2>2
<1>7. \A a \in K : a < lim + 1 => t[a] < n + 1
  BY <1>1, <1>4 DEF Listed, Table
<1> QED
  BY <1>4, <1>5, <1>6, <1>7 DEF Listed

LEMMA ListDropped ==
  ASSUME NEW t, NEW K \in SUBSET Nat, NEW lim \in Nat \ K, NEW sec, Listed(sec, t, K, lim)
  PROVE  Listed(sec, t, K, lim + 1)
BY Successor DEF Listed

\* A complete section read at a table entry gives the index back.
LEMMA ListResolve ==
  ASSUME NEW t, NEW K \in SUBSET Nat, NEW lim \in Nat, NEW T, NEW sec \in Seq(T),
         Table(t, K), Listed(sec, t, K, lim), \A a \in K : a < lim
  PROVE  /\ \A a \in K : t[a] + 1 \in DOMAIN sec /\ sec[t[a] + 1] = a
         /\ Elems(sec) = K
<1>1. DOMAIN sec = 1 .. Len(sec) /\ Len(sec) \in Nat
  BY LenProperties
<1>2. ASSUME NEW a \in K PROVE t[a] + 1 \in DOMAIN sec /\ sec[t[a] + 1] = a
  <2>1. t[a] + 1 \in 1 .. Len(sec)
    BY <1>1 DEF Listed, Table
  <2>2. sec[t[a] + 1] \in K /\ t[sec[t[a] + 1]] = t[a]
    BY <2>1 DEF Listed, Table
  <2> QED
    BY <1>1, <2>1, <2>2 DEF Table
<1>3. Elems(sec) \subseteq K
  BY <1>1 DEF Elems, Listed
<1> QED
  BY <1>2, <1>3 DEF Elems

-----------------------------------------------------------------------------
(* The tables and the sections of a run *)

Kept     == {g \in Globals : KeepGlobal(g)}
Emitting == pc \in {"imports", "code", "globalsec", "data", "done"}

TablesInv ==
  /\ pc \in {"entry", "reach", "globals"} => fmap = EmptyMap
  /\ pc \in {"entry", "reach", "globals", "fmap"} => gmap = EmptyMap
  /\ pc = "fmap" => scan \in 0 .. NFuncs /\ Building(fmap, reach, scan, next)
  /\ pc = "gmap" => scan \in 0 .. NGlobals /\ Building(gmap, Kept, scan, next)
                     /\ (scan <= NImpG => next = scan)
  /\ \A g \in DOMAIN gmap : g < NImpG => gmap[g] = g
  /\ pc = "gmap" \/ Emitting => Table(fmap, reach)
  /\ Emitting => Table(gmap, Kept)

LEMMA EmptyBuilding == ASSUME NEW K \in SUBSET Nat PROVE Building(EmptyMap, K, 0, 0)
<1>3. \A a \in K : ~(a < 0)
  <2> SUFFICES ASSUME NEW a \in K PROVE ~(a < 0)
    OBVIOUS
  <2>1. a \in Nat
    OBVIOUS
  <2> QED
    BY <2>1
<1>1. {a \in K : a < 0} = {}
  BY <1>3
<1>2. DOMAIN EmptyMap = {}
  BY DEF EmptyMap
<1> QED
  BY <1>1, <1>2, <1>3 DEF Building, Table

LEMMA NextTablesInv == TypeInv /\ TablesInv /\ [Next]_vars => TablesInv'
<1> SUFFICES ASSUME TypeInv, TablesInv, [Next]_vars PROVE TablesInv'
  OBVIOUS
<1> USE CleanerConstants DEF TypeInv, TypeOK, TablesInv, Emitting, Pcs
<1>a. reach \in SUBSET Nat /\ Kept \in SUBSET Nat /\ Funcs \subseteq Nat /\ Globals \subseteq Nat
  BY DEF Kept, Funcs, Globals
<1>1. CASE GlobalsDone
  <2>1. Building(EmptyMap, reach, 0, 0)
    BY <1>a, EmptyBuilding
  <2>2. fmap' = EmptyMap /\ gmap' = EmptyMap /\ scan' = 0 /\ next' = 0 /\ pc' = "fmap" /\ reach' = reach
    BY <1>1 DEF GlobalsDone
  <2>3. DOMAIN EmptyMap = {}
    BY DEF EmptyMap
  <2> QED
    BY <2>1, <2>2, <2>3
<1>2. CASE MapFunc
  <2>1. /\ pc = "fmap" /\ pc' = "fmap" /\ scan < NFuncs /\ scan' = scan + 1 /\ gmap' = gmap
        /\ reach' = reach /\ scan' \in 0 .. NFuncs
    BY <1>2 DEF MapFunc
  <2>2. CASE scan \in reach
    <3>1. Building(Extend(fmap, scan, next), reach, scan + 1, next + 1)
      BY <1>a, <2>1, <2>2, BuildKept
    <3> QED
      BY <1>2, <2>1, <2>2, <3>1 DEF MapFunc
  <2>3. CASE scan \notin reach
    <3>1. Building(fmap, reach, scan + 1, next)
      BY <1>a, <2>1, <2>3, BuildDropped
    <3> QED
      BY <1>2, <2>1, <2>3, <3>1 DEF MapFunc
  <2> QED
    BY <2>2, <2>3
<1>3. CASE FuncsMapped
  <2>1. /\ pc = "fmap" /\ pc' = "gmap" /\ scan = NFuncs /\ scan' = 0 /\ next' = 0
        /\ gmap' = gmap /\ fmap' = fmap /\ reach' = reach /\ used' = used
    BY <1>3 DEF FuncsMapped
  <2>2. Table(fmap, reach)
    <3>1. \A a \in reach : a < NFuncs
      BY DEF Funcs
    <3> QED
      BY <1>a, <2>1, <3>1, BuildDone
  <2>3. Building(EmptyMap, Kept, 0, 0) /\ Kept' = Kept
    BY <1>a, <2>1, EmptyBuilding DEF Kept, KeepGlobal
  <2> QED
    BY <2>1, <2>2, <2>3
<1>4. CASE MapGlobal
  <2>1. /\ pc = "gmap" /\ pc' = "gmap" /\ scan < NGlobals /\ scan' = scan + 1 /\ fmap' = fmap
        /\ reach' = reach /\ used' = used /\ scan' \in 0 .. NGlobals
    BY <1>4 DEF MapGlobal
  <2>2. Kept' = Kept
    BY <2>1 DEF Kept, KeepGlobal
  <2>3. scan \in Globals
    BY <2>1 DEF Globals
  <2>4. CASE KeepGlobal(scan)
    <3>1. scan \in Kept
      BY <2>3, <2>4 DEF Kept
    <3>2. gmap' = Extend(gmap, scan, next) /\ next' = next + 1
      BY <1>4, <2>4 DEF MapGlobal
    <3>3. Building(gmap', Kept', scan', next')
      BY <1>a, <2>1, <2>2, <3>1, <3>2, BuildKept
    <3>4. scan' <= NImpG => next' = scan'
      BY <2>1, <3>2
    <3>5. \A g \in DOMAIN gmap' : g < NImpG => gmap'[g] = g
      BY <2>1, <3>2 DEF Extend
    <3> QED
      BY <2>1, <3>3, <3>4, <3>5
  <2>5. CASE ~KeepGlobal(scan)
    <3>1. scan \in Nat \ Kept /\ ~(scan < NImpG)
      BY <2>5 DEF Kept, KeepGlobal
    <3>2. gmap' = gmap /\ next' = next
      BY <1>4, <2>5 DEF MapGlobal
    <3>3. Building(gmap', Kept', scan', next')
      BY <1>a, <2>1, <2>2, <3>1, <3>2, BuildDropped
    <3>4. ~(scan' <= NImpG)
      BY <2>1, <3>1
    <3> QED
      BY <2>1, <3>2, <3>3, <3>4
  <2> QED
    BY <2>4, <2>5
<1>5. CASE GlobalsMapped
  <2>1. /\ pc = "gmap" /\ pc' = "imports" /\ scan = NGlobals
        /\ gmap' = gmap /\ fmap' = fmap /\ reach' = reach /\ used' = used
    BY <1>5 DEF GlobalsMapped
  <2>2. Table(gmap, Kept)
    <3>1. \A a \in Kept : a < NGlobals
      BY DEF Globals, Kept
    <3> QED
      BY <1>a, <2>1, <3>1, BuildDone
  <2>3. Kept' = Kept
    BY <2>1 DEF Kept, KeepGlobal
  <2> QED
    BY <2>1, <2>2, <2>3
<1>6. CASE LocateEntries \/ RejectEntries \/ VisitSeen \/ VisitNew \/ ReachDone \/ ScanGlobal \/ NextPass
  BY <1>6 DEF LocateEntries, RejectEntries, VisitSeen, VisitNew, ReachDone, ScanGlobal, NextPass
<1>7. ASSUME UNCHANGED <<reach, used, fmap, gmap>>, Emitting, pc' \notin {"entry", "reach", "globals", "fmap", "gmap"}
      PROVE  TablesInv'
  <2>1. Kept' = Kept
    BY <1>7 DEF Kept, KeepGlobal
  <2> QED
    BY <1>7, <2>1
<1>8. CASE RejectData
  BY <1>8 DEF RejectData
<1>9. CASE EmitImport \/ ImportsEmitted \/ EmitFunc \/ RejectIndirect \/ CodeEmitted
             \/ EmitGlobal \/ GlobalsEmitted \/ EmitData
  BY <1>7, <1>9 DEF EmitImport, ImportsEmitted, EmitFunc, RejectIndirect, CodeEmitted,
     EmitGlobal, GlobalsEmitted, EmitData
<1>10. CASE UNCHANGED vars
  <2>1. Kept' = Kept
    BY <1>10 DEF Kept, KeepGlobal, vars
  <2> QED
    BY <1>10, <2>1 DEF vars
<1> QED
  BY <1>1, <1>2, <1>3, <1>4, <1>5, <1>6, <1>8, <1>9, <1>10 DEF Next

\* Functions: the section, and next to it the references each body was given.
FuncSection(lim) ==
  /\ Listed(out.funcs, fmap, reach, lim)
  /\ Len(out.calls) = Len(out.funcs) /\ Len(out.gets) = Len(out.funcs)
  /\ \A i \in 1 .. Len(out.funcs) :
       /\ out.calls[i] = MapSet(fmap, m.calls[out.funcs[i]])
       /\ out.gets[i]  = MapSet(gmap, m.gets[out.funcs[i]])

GlobalSection(lim) ==
  /\ Listed(out.globals, gmap, Kept, lim)
  /\ Len(out.init) = Len(out.globals)
  /\ \A i \in 1 .. Len(out.globals) : out.init[i] = MapRef(m.init[out.globals[i]])

SectionsInv ==
  /\ pc \in {"entry", "reach", "globals", "fmap", "gmap"} => out = EmptyOut
  /\ pc = "imports" => scan \in 0 .. NImpF /\ FuncSection(scan) /\ out.globals = <<>>
  /\ pc = "code" => scan \in NImpF .. NFuncs /\ FuncSection(scan) /\ GlobalSection(NImpG)
  /\ pc = "globalsec" => scan \in NImpG .. NGlobals /\ FuncSection(NFuncs) /\ GlobalSection(scan)
  /\ pc \in {"data", "done"} => FuncSection(NFuncs) /\ GlobalSection(NGlobals)
  /\ pc = "done" =>
       /\ out.hook = MapIndex(fmap, m.hook)
       /\ out.cbak = IF m.cbak = None THEN None ELSE MapIndex(fmap, m.cbak)
       /\ out.datas = [i \in DOMAIN m.datas |-> MapRef(m.datas[i])]

\* A body that needs no remapping is its own remapping.
LEMMA RawCopy ==
  ASSUME NEW t, NEW C, \A c \in C : MapIndex(t, c) = c
  PROVE  MapSet(t, C) = C
<1>1. MapSet(t, C) \subseteq C
  BY DEF MapSet
<1>2. C \subseteq MapSet(t, C)
  <2> SUFFICES ASSUME NEW c \in C PROVE c \in MapSet(t, C)
    OBVIOUS
  <2>1. MapIndex(t, c) = c
    OBVIOUS
  <2> QED
    BY <2>1 DEF MapSet
<1> QED
  BY <1>1, <1>2

\* Appending a kept function with its remapped references extends the section.
LEMMA GrowFuncs ==
  ASSUME TypeInv, NEW lim \in reach, FuncSection(lim), Table(fmap, reach),
         UNCHANGED <<m, reach, used, fmap, gmap>>,
         out' = [out EXCEPT !.funcs = Append(@, lim),
                            !.calls = Append(@, MapSet(fmap, m.calls[lim])),
                            !.gets  = Append(@, MapSet(gmap, m.gets[lim]))]
  PROVE  FuncSection(lim + 1)' /\ out'.globals = out.globals /\ out'.init = out.init
<1> DEFINE n == Len(out.funcs)
           cs == MapSet(fmap, m.calls[lim])
           gs == MapSet(gmap, m.gets[lim])
<1>1. /\ out.funcs \in Seq(Funcs) /\ out.calls \in Seq(SUBSET Nat) /\ out.gets \in Seq(SUBSET Nat)
      /\ reach \in SUBSET Nat /\ lim \in Nat /\ lim \in Funcs
  BY DEF TypeInv, TypeOK, CleanModule, Funcs
<1>2. /\ out'.funcs = Append(out.funcs, lim) /\ out'.calls = Append(out.calls, cs)
      /\ out'.gets = Append(out.gets, gs) /\ out'.globals = out.globals /\ out'.init = out.init
  BY DEF TypeInv, TypeOK, CleanModule
<1>9. cs \in SUBSET Nat /\ gs \in SUBSET Nat
  <2>1. m.calls[lim] \in SUBSET Nat /\ m.gets[lim] \in SUBSET Nat
    <3>1. m.calls[lim] \in SUBSET Funcs /\ m.gets[lim] \in SUBSET Globals
      BY <1>1 DEF TypeInv, TypeOK, ParsedModule
    <3> QED
      BY <3>1 DEF Funcs, Globals
  <2> QED
    BY <2>1, MapSetType DEF TypeInv, TypeOK
<1> DEFINE T == SUBSET Nat
<1>10. out.calls \in Seq(T) /\ out.gets \in Seq(T) /\ cs \in T /\ gs \in T
  BY <1>1, <1>9
<1> HIDE DEF cs, gs, T
<1>3. Listed(Append(out.funcs, lim), fmap, reach, lim + 1)
  BY <1>1, ListKept DEF FuncSection
<1>4. n \in Nat /\ Len(out.calls) = n /\ Len(out.gets) = n
  BY <1>1, LenProperties DEF FuncSection
<1>5. /\ Len(out'.funcs) = n + 1 /\ out'.funcs[n + 1] = lim
      /\ \A i \in 1 .. n : out'.funcs[i] = out.funcs[i]
  BY <1>1, <1>2, AppendProperties
<1>6. /\ Len(out'.calls) = n + 1 /\ out'.calls[n + 1] = cs
      /\ \A i \in 1 .. n : out'.calls[i] = out.calls[i]
  BY <1>2, <1>4, <1>10, AppendProperties
<1>7. /\ Len(out'.gets) = n + 1 /\ out'.gets[n + 1] = gs
      /\ \A i \in 1 .. n : out'.gets[i] = out.gets[i]
  BY <1>2, <1>4, <1>10, AppendProperties
<1>8. \A i \in 1 .. n + 1 : /\ out'.calls[i] = MapSet(fmap, m.calls[out'.funcs[i]])
                           /\ out'.gets[i]  = MapSet(gmap, m.gets[out'.funcs[i]])
  <2> SUFFICES ASSUME NEW i \in 1 .. n + 1
               PROVE  /\ out'.calls[i] = MapSet(fmap, m.calls[out'.funcs[i]])
                      /\ out'.gets[i]  = MapSet(gmap, m.gets[out'.funcs[i]])
    OBVIOUS
  <2>1. CASE i = n + 1
    BY <1>5, <1>6, <1>7, <2>1 DEF cs, gs
  <2>2. CASE i # n + 1
    <3>1. i \in 1 .. n
      BY <1>4, <2>2
    <3> QED
      BY <1>5, <1>6, <1>7, <3>1 DEF FuncSection
  <2> QED
    BY <2>1, <2>2
<1> QED
  BY <1>2, <1>3, <1>5, <1>6, <1>7, <1>8 DEF FuncSection

LEMMA GrowGlobals ==
  ASSUME TypeInv, NEW lim \in Kept, GlobalSection(lim), Table(gmap, Kept),
         UNCHANGED <<m, reach, used, fmap, gmap>>,
         out' = [out EXCEPT !.globals = Append(@, lim), !.init = Append(@, MapRef(m.init[lim]))]
  PROVE  /\ GlobalSection(lim + 1)'
         /\ out'.funcs = out.funcs /\ out'.calls = out.calls /\ out'.gets = out.gets
<1> DEFINE n == Len(out.globals)
           r == MapRef(m.init[lim])
<1>0. Kept' = Kept
  BY DEF Kept, KeepGlobal
<1>1. /\ out.globals \in Seq(Globals) /\ out.init \in Seq(Nat \cup {None})
      /\ Kept \in SUBSET Nat /\ lim \in Nat /\ lim \in Globals
  BY DEF TypeInv, TypeOK, CleanModule, Globals, Kept
<1>2. /\ out'.globals = Append(out.globals, lim) /\ out'.init = Append(out.init, r)
      /\ out'.funcs = out.funcs /\ out'.calls = out.calls /\ out'.gets = out.gets
  BY DEF TypeInv, TypeOK, CleanModule
<1>3. Listed(Append(out.globals, lim), gmap, Kept, lim + 1)
  BY <1>1, ListKept DEF GlobalSection
<1>4. n \in Nat /\ Len(out.init) = n
  BY <1>1, LenProperties DEF GlobalSection
<1>5. r \in Nat \cup {None}
  <2>1. m.init[lim] \in Nat \cup {None}
    <3>1. m.init[lim] \in Globals \cup {None}
      BY <1>1 DEF TypeInv, TypeOK, ParsedModule
    <3> QED
      BY <3>1 DEF Globals
  <2> QED
    BY <2>1, MapIndexType DEF MapRef, TypeInv, TypeOK
<1> HIDE DEF r
<1>6. /\ Len(out'.globals) = n + 1 /\ out'.globals[n + 1] = lim
      /\ \A i \in 1 .. n : out'.globals[i] = out.globals[i]
  BY <1>1, <1>2, AppendProperties
<1>7. /\ Len(out'.init) = n + 1 /\ out'.init[n + 1] = r
      /\ \A i \in 1 .. n : out'.init[i] = out.init[i]
  BY <1>1, <1>2, <1>4, <1>5, AppendProperties
<1>8. \A i \in 1 .. n + 1 : out'.init[i] = MapRef(m.init[out'.globals[i]])
  <2> SUFFICES ASSUME NEW i \in 1 .. n + 1 PROVE out'.init[i] = MapRef(m.init[out'.globals[i]])
    OBVIOUS
  <2>1. CASE i = n + 1
    BY <1>6, <1>7, <2>1 DEF r
  <2>2. CASE i # n + 1
    <3>1. i \in 1 .. n
      BY <1>4, <2>2
    <3> QED
      BY <1>6, <1>7, <3>1 DEF GlobalSection
  <2> QED
    BY <2>1, <2>2
<1>9. \A x : MapRef(x)' = MapRef(x)
  BY DEF MapRef
<1> QED
  BY <1>0, <1>2, <1>3, <1>6, <1>7, <1>8, <1>9 DEF GlobalSection

LEMMA NextSectionsInv ==
  TypeInv /\ TablesInv /\ SectionsInv /\ [Next]_vars => SectionsInv'
<1> SUFFICES ASSUME TypeInv, TablesInv, SectionsInv, [Next]_vars PROVE SectionsInv'
  OBVIOUS
<1> USE CleanerConstants DEF SectionsInv, Pcs
<1>a. reach \in SUBSET Nat /\ Kept \in SUBSET Nat /\ scan \in Nat
  BY DEF TypeInv, TypeOK, Kept, Funcs, Globals
<1>b. ASSUME UNCHANGED <<m, reach, used, fmap, gmap>>
      PROVE  Kept' = Kept /\ \A x : MapRef(x)' = MapRef(x)
  BY <1>b DEF Kept, KeepGlobal, MapRef
<1>c. ASSUME UNCHANGED <<m, reach, used, fmap, gmap>>, UNCHANGED <<out.funcs, out.calls, out.gets>>, NEW lim
      PROVE  FuncSection(lim)' <=> FuncSection(lim)
  BY <1>c DEF FuncSection
<1>d. ASSUME UNCHANGED <<m, reach, used, fmap, gmap>>, UNCHANGED <<out.globals, out.init>>, NEW lim
      PROVE  GlobalSection(lim)' <=> GlobalSection(lim)
  BY <1>b, <1>d DEF GlobalSection
<1>1. CASE LocateEntries \/ RejectEntries \/ VisitSeen \/ VisitNew \/ ReachDone \/ ScanGlobal
             \/ NextPass \/ GlobalsDone \/ MapFunc \/ FuncsMapped \/ MapGlobal \/ RejectData
  BY <1>1 DEF LocateEntries, RejectEntries, VisitSeen, VisitNew, ReachDone, ScanGlobal, NextPass,
     GlobalsDone, MapFunc, FuncsMapped, MapGlobal, RejectData
<1>2. CASE GlobalsMapped
  <2>1. /\ pc' = "imports" /\ scan' = 0 /\ out' = EmptyOut /\ out = EmptyOut
        /\ UNCHANGED <<m, reach, used, fmap, gmap>>
    BY <1>2 DEF GlobalsMapped
  <2>2. FuncSection(0)
    <3>1. Len(out.funcs) = 0 /\ Len(out.calls) = 0 /\ Len(out.gets) = 0
      BY <2>1 DEF EmptyOut
    <3>2. \A a \in reach : ~(a < 0)
      BY <1>a
    <3> QED
      BY <3>1, <3>2 DEF FuncSection, Listed
  <2>3. FuncSection(0)'
    BY <1>c, <2>1, <2>2
  <2> QED
    BY <2>1, <2>3 DEF EmptyOut
<1>3. CASE EmitImport
  <2>1. /\ pc = "imports" /\ pc' = "imports" /\ scan < NImpF /\ scan' = scan + 1
        /\ UNCHANGED <<m, reach, used, fmap, gmap>> /\ FuncSection(scan) /\ Table(fmap, reach)
        /\ scan' \in 0 .. NImpF
    BY <1>3 DEF EmitImport, TablesInv, Emitting
  <2>2. CASE scan \in reach
    <3>1. m.calls[scan] = {} /\ m.gets[scan] = {}
      BY <2>1, <2>2, CleanerInputs DEF TypeInv, TypeOK
    <3>2. MapSet(fmap, m.calls[scan]) = {} /\ MapSet(gmap, m.gets[scan]) = {}
      BY <3>1 DEF MapSet
    <3>3. out' = [out EXCEPT !.funcs = Append(@, scan),
                             !.calls = Append(@, MapSet(fmap, m.calls[scan])),
                             !.gets  = Append(@, MapSet(gmap, m.gets[scan]))]
      BY <1>3, <2>2, <3>2 DEF EmitImport
    <3> QED
      BY <2>1, <2>2, <3>3, GrowFuncs
  <2>3. CASE scan \notin reach
    <3>1. out' = out
      BY <1>3, <2>3 DEF EmitImport
    <3>2. FuncSection(scan + 1)
      BY <1>a, <2>1, <2>3, ListDropped DEF FuncSection
    <3> QED
      BY <1>c, <2>1, <3>1, <3>2
  <2> QED
    BY <2>2, <2>3
<1>4. CASE ImportsEmitted
  <2>1. /\ pc = "imports" /\ pc' = "code" /\ scan = NImpF /\ scan' = scan
        /\ UNCHANGED <<m, reach, used, fmap, gmap>> /\ FuncSection(scan) /\ Table(gmap, Kept)
    BY <1>4 DEF ImportsEmitted, TablesInv, Emitting
  <2>2. /\ out'.funcs = out.funcs /\ out'.calls = out.calls /\ out'.gets = out.gets
        /\ out'.globals = [i \in 1 .. NImpG |-> i-1] /\ out'.init = [i \in 1 .. NImpG |-> None]
    BY <1>4 DEF ImportsEmitted, TypeInv, TypeOK, CleanModule
  <2>3. Len(out'.globals) = NImpG /\ Len(out'.init) = NImpG
    BY <2>2
  <2>4. \A i \in 1 .. NImpG : i-1 \in Kept /\ i-1 < NImpG /\ gmap[i-1] = i-1
                             /\ MapRef(m.init[i-1]) = None
    <3> SUFFICES ASSUME NEW i \in 1 .. NImpG
                 PROVE  i-1 \in Kept /\ i-1 < NImpG /\ gmap[i-1] = i-1 /\ MapRef(m.init[i-1]) = None
      OBVIOUS
    <3>1. i-1 \in Kept /\ i-1 < NImpG /\ i-1 \in Globals
      BY DEF Kept, KeepGlobal, Globals
    <3>2. gmap[i-1] = i-1
      BY <2>1, <3>1 DEF TablesInv, Table
    <3>3. m.init[i-1] = None
      BY <3>1, CleanerInputs DEF TypeInv
    <3> QED
      BY <3>1, <3>2, <3>3 DEF MapRef
  <2>5. \A a \in Kept : a < NImpG => gmap[a] < NImpG
    <3> SUFFICES ASSUME NEW a \in Kept, a < NImpG PROVE gmap[a] < NImpG
      OBVIOUS
    <3>1. gmap[a] = a
      BY <2>1 DEF TablesInv, Table
    <3> QED
      BY <3>1
  <2>6. GlobalSection(NImpG)'
    BY <1>b, <2>1, <2>2, <2>3, <2>4, <2>5 DEF GlobalSection, Listed
  <2> QED
    BY <1>c, <2>1, <2>2, <2>6
<1>5. CASE EmitFunc
  <2>1. /\ pc = "code" /\ pc' = "code" /\ scan < NFuncs /\ scan' = scan + 1
        /\ UNCHANGED <<m, reach, used, fmap, gmap>> /\ FuncSection(scan) /\ Table(fmap, reach)
        /\ GlobalSection(NImpG) /\ scan' \in NImpF .. NFuncs
    BY <1>5 DEF EmitFunc, TablesInv, Emitting
  <2>2. CASE scan \in reach
    <3>1. ~NeedsRemap(scan) => /\ MapSet(fmap, m.calls[scan]) = m.calls[scan]
                              /\ MapSet(gmap, m.gets[scan]) = m.gets[scan]
      BY RawCopy DEF NeedsRemap
    <3>2. out' = [out EXCEPT !.funcs = Append(@, scan),
                             !.calls = Append(@, MapSet(fmap, m.calls[scan])),
                             !.gets  = Append(@, MapSet(gmap, m.gets[scan]))]
      BY <1>5, <2>2, <3>1 DEF EmitFunc
    <3>3. FuncSection(scan)' /\ out'.globals = out.globals /\ out'.init = out.init
      BY <2>1, <2>2, <3>2, GrowFuncs
    <3> QED
      BY <1>d, <2>1, <3>3
  <2>3. CASE scan \notin reach
    <3>1. out' = out
      BY <1>5, <2>3 DEF EmitFunc
    <3>2. FuncSection(scan + 1)
      BY <1>a, <2>1, <2>3, ListDropped DEF FuncSection
    <3> QED
      BY <1>c, <1>d, <2>1, <3>1, <3>2
  <2> QED
    BY <2>2, <2>3
<1>6. CASE CodeEmitted
  <2>1. /\ pc = "code" /\ pc' = "globalsec" /\ scan = NFuncs /\ scan' = NImpG
        /\ UNCHANGED <<m, reach, used, fmap, gmap, out>>
    BY <1>6 DEF CodeEmitted
  <2> QED
    BY <1>c, <1>d, <2>1
<1>7. CASE EmitGlobal
  <2>1. /\ pc = "globalsec" /\ pc' = "globalsec" /\ scan < NGlobals /\ scan' = scan + 1
        /\ UNCHANGED <<m, reach, used, fmap, gmap>> /\ FuncSection(NFuncs) /\ Table(gmap, Kept)
        /\ GlobalSection(scan) /\ scan' \in NImpG .. NGlobals
    BY <1>7 DEF EmitGlobal, TablesInv, Emitting
  <2>2. CASE scan \in Kept
    <3>1. out' = [out EXCEPT !.globals = Append(@, scan), !.init = Append(@, MapRef(m.init[scan]))]
      BY <1>7, <2>1, <2>2 DEF EmitGlobal, Table
    <3>2. /\ GlobalSection(scan)'
          /\ out'.funcs = out.funcs /\ out'.calls = out.calls /\ out'.gets = out.gets
      BY <2>1, <2>2, <3>1, GrowGlobals
    <3> QED
      BY <1>c, <2>1, <3>2
  <2>3. CASE scan \notin Kept
    <3>1. out' = out
      BY <1>7, <2>1, <2>3 DEF EmitGlobal, Table
    <3>2. GlobalSection(scan + 1)
      BY <1>a, <2>1, <2>3, ListDropped DEF GlobalSection
    <3> QED
      BY <1>c, <1>d, <2>1, <3>1, <3>2
  <2> QED
    BY <2>2, <2>3
<1>8. CASE GlobalsEmitted
  <2>1. /\ pc = "globalsec" /\ pc' = "data" /\ scan = NGlobals
        /\ UNCHANGED <<m, reach, used, fmap, gmap, out>>
    BY <1>8 DEF GlobalsEmitted
  <2> QED
    BY <1>c, <1>d, <2>1
<1>9. CASE EmitData
  <2>1. /\ pc = "data" /\ pc' = "done" /\ UNCHANGED <<m, reach, used, fmap, gmap>>
    BY <1>9 DEF EmitData
  <2>2. /\ UNCHANGED <<out.funcs, out.calls, out.gets, out.globals, out.init>>
        /\ out'.hook = MapIndex(fmap, m.hook)
        /\ out'.cbak = IF m.cbak = None THEN None ELSE MapIndex(fmap, m.cbak)
        /\ out'.datas = [i \in DOMAIN m.datas |-> MapRef(m.datas[i])]
    BY <1>9 DEF EmitData, TypeInv, TypeOK, CleanModule
  <2>3. [i \in DOMAIN m.datas |-> MapRef(m.datas[i])]' = [i \in DOMAIN m.datas |-> MapRef(m.datas[i])]
    BY <1>b, <2>1
  <2> QED
    BY <1>c, <1>d, <2>1, <2>2, <2>3
<1>10. CASE RejectIndirect
  BY <1>10 DEF RejectIndirect
<1>11. CASE UNCHANGED vars
  <2>1. UNCHANGED <<m, reach, used, fmap, gmap, out, pc, scan>>
    BY <1>11 DEF vars
  <2>2. [i \in DOMAIN m.datas |-> MapRef(m.datas[i])]' = [i \in DOMAIN m.datas |-> MapRef(m.datas[i])]
    BY <1>b, <2>1
  <2> QED
    BY <1>c, <1>d, <2>1, <2>2
<1> QED
  BY <1>1, <1>2, <1>3, <1>4, <1>5, <1>6, <1>7, <1>8, <1>9, <1>10, <1>11 DEF Next

-----------------------------------------------------------------------------
(* What the finished module refers to *)

\* Reading remapped references in the emitted space undoes the remapping.
LEMMA UndoRemap ==
  ASSUME NEW t, NEW K, DOMAIN t = K, NEW C \in SUBSET K, NEW sec,
         \A a \in K : Resolve(sec, t[a]) = a
  PROVE  {Resolve(sec, c) : c \in MapSet(t, C)} = C
<1>1. \A a \in C : MapIndex(t, a) = t[a] /\ Resolve(sec, MapIndex(t, a)) = a
  BY DEF MapIndex
<1>2. \A c \in MapSet(t, C) : Resolve(sec, c) \in C
  BY <1>1 DEF MapSet
<1>3. \A a \in C : \E c \in MapSet(t, C) : Resolve(sec, c) = a
  BY <1>1 DEF MapSet
<1> QED
  BY <1>2, <1>3

LEMMA DoneCalls ==
  ASSUME TypeInv, ReachInv, UsedInv, TablesInv, SectionsInv, pc = "done"
  PROVE  CallsPreserved /\ GlobalsPreserved
<1>1. /\ Table(fmap, reach) /\ Table(gmap, Kept) /\ FuncSection(NFuncs) /\ GlobalSection(NGlobals)
  BY DEF TablesInv, Emitting, SectionsInv
<1>2. /\ Roots \subseteq reach /\ CallClosed(reach) /\ GlobalRoots \subseteq used /\ InitClosed(used)
  BY DEF ReachInv, ReachIsLeast, AfterReach, UsedInv, UsedIsLeast, AfterGlobals
<1>3. /\ reach \in SUBSET Nat /\ Kept \in SUBSET Nat /\ out.funcs \in Seq(Funcs) /\ out.globals \in Seq(Globals)
      /\ NFuncs \in Nat /\ NGlobals \in Nat /\ out.init \in Seq(Nat \cup {None})
      /\ \A f \in reach : f < NFuncs
      /\ \A g \in Kept : g < NGlobals
  BY CleanerConstants DEF TypeInv, TypeOK, CleanModule, Funcs, Globals, Kept
<1>4. /\ \A f \in reach : fmap[f] + 1 \in DOMAIN out.funcs /\ out.funcs[fmap[f] + 1] = f
      /\ Elems(out.funcs) = reach
  BY <1>1, <1>3, ListResolve DEF FuncSection
<1>5. \A g \in Kept : gmap[g] + 1 \in DOMAIN out.globals /\ out.globals[gmap[g] + 1] = g
  BY <1>1, <1>3, ListResolve DEF GlobalSection
<1>6. \A f \in reach : Resolve(out.funcs, fmap[f]) = f
  BY <1>4 DEF Resolve
<1>7. \A g \in Kept : Resolve(out.globals, gmap[g]) = g /\ gmap[g] \in Nat /\ gmap[g] # None
  BY <1>1, <1>5, CleanerConstants DEF Resolve, Table
<1>8. used \subseteq Kept
  BY DEF Kept, KeepGlobal, TypeInv, TypeOK
<1>9. DOMAIN fmap = reach /\ DOMAIN gmap = Kept
  BY <1>1 DEF Table
<1>10. \A i \in DOMAIN out.funcs : i \in 1 .. Len(out.funcs) /\ out.funcs[i] \in reach
  BY <1>1, <1>3, LenProperties DEF FuncSection, Listed
<1>11. CallsPreserved
  <2>1. ASSUME NEW i \in DOMAIN out.funcs
        PROVE  {Resolve(out.funcs, c) : c \in out.calls[i]} = m.calls[out.funcs[i]]
    <3>1. out.calls[i] = MapSet(fmap, m.calls[out.funcs[i]])
      BY <1>1, <1>10 DEF FuncSection
    <3>2. m.calls[out.funcs[i]] \in SUBSET reach
      BY <1>2, <1>10 DEF CallClosed
    <3> QED
      BY <1>6, <1>9, <3>1, <3>2, UndoRemap
  <2>2. m.hook \in reach /\ (m.cbak # None => m.cbak \in reach)
    <3>1. m.hook \in Roots /\ (m.cbak # None => m.cbak \in Roots)
      <4>1. CASE m.cbak = None
        BY <4>1 DEF Roots, RootSeq, Elems
      <4>2. CASE m.cbak # None
        <5>1. RootSeq(m)[1] = m.hook /\ RootSeq(m)[2] = m.cbak /\ 1 \in DOMAIN RootSeq(m) /\ 2 \in DOMAIN RootSeq(m)
          BY <4>2 DEF RootSeq
        <5> QED
          BY <5>1 DEF Roots, Elems
      <4> QED
        BY <4>1, <4>2
    <3> QED
      BY <1>2, <3>1
  <2>3. /\ Resolve(out.funcs, out.hook) = m.hook
        /\ m.cbak # None => Resolve(out.funcs, out.cbak) = m.cbak
    BY <1>6, <1>9, <2>2 DEF SectionsInv, MapIndex
  <2> QED
    BY <1>4, <2>1, <2>3 DEF CallsPreserved
<1>12. \A r \in Kept \cup {None} : RefOf(MapRef(r)) = r
  <2>1. \A r \in Kept : r # None
    BY <1>3, CleanerConstants
  <2> QED
    BY <1>7, <1>9, <2>1 DEF RefOf, MapRef, MapIndex
<1>13. GlobalsPreserved
  <2>1. ASSUME NEW i \in DOMAIN out.funcs
        PROVE  {Resolve(out.globals, g) : g \in out.gets[i]} = m.gets[out.funcs[i]]
    <3>1. out.gets[i] = MapSet(gmap, m.gets[out.funcs[i]])
      BY <1>1, <1>10 DEF FuncSection
    <3>2. m.gets[out.funcs[i]] \in SUBSET Kept
      BY <1>2, <1>8, <1>10 DEF GlobalRoots, BodyReads
    <3> QED
      BY <1>7, <1>9, <3>1, <3>2, UndoRemap
  <2>2. ASSUME NEW i \in DOMAIN out.globals
        PROVE  RefOf(out.init[i]) = m.init[out.globals[i]]
    <3>1. i \in 1 .. Len(out.globals)
      BY <1>3, LenProperties
    <3>2. out.init[i] = MapRef(m.init[out.globals[i]]) /\ out.globals[i] \in Kept
      BY <1>1, <3>1 DEF GlobalSection, Listed
    <3>3. m.init[out.globals[i]] \in Kept \cup {None}
      <4> DEFINE g == out.globals[i]
      <4>1. g \in Globals /\ (g < NImpG \/ g \in used)
        BY <3>2 DEF Kept, KeepGlobal
      <4>2. CASE g < NImpG
        BY <4>1, <4>2, CleanerInputs DEF TypeInv
      <4>3. CASE g \in used
        BY <1>2, <1>8, <4>3 DEF InitClosed
      <4> QED
        BY <4>1, <4>2, <4>3
    <3> QED
      BY <1>12, <3>2, <3>3
  <2>3. ASSUME NEW i \in DOMAIN out.datas
        PROVE  RefOf(out.datas[i]) = m.datas[i]
    <3>1. out.datas[i] = MapRef(m.datas[i]) /\ i \in DOMAIN m.datas
      BY DEF SectionsInv
    <3>2. m.datas[i] \in Kept \cup {None}
      BY <1>2, <1>8, <3>1 DEF GlobalRoots, DataReads, Elems
    <3> QED
      BY <1>12, <3>1, <3>2
  <2> QED
    BY <2>1, <2>2, <2>3 DEF GlobalsPreserved
<1> QED
  BY <1>11, <1>13

LEMMA AllInvariants == Spec => [](TypeInv /\ ReachInv /\ UsedInv /\ TablesInv /\ SectionsInv)
<1>1. Init => TablesInv /\ SectionsInv
  BY DEF Init, Start, TablesInv, SectionsInv, Emitting, EmptyMap
<1> QED
  BY <1>1, Invariants, NextTablesInv, NextSectionsInv, PTL DEF Spec

\* No call, and no export, of the finished module points at another function
\* than it did in the input.
THEOREM CallsKeepTheirTargets == Spec => []CallsPreserved
<1>1. TypeInv /\ ReachInv /\ UsedInv /\ TablesInv /\ SectionsInv => CallsPreserved
  BY DoneCalls DEF CallsPreserved
<1> QED
  BY <1>1, AllInvariants, PTL

\* No global reference, initializer or data offset of the finished module
\* points at another global than it did in the input.
THEOREM GlobalsKeepTheirTargets == Spec => []GlobalsPreserved
<1>1. TypeInv /\ ReachInv /\ UsedInv /\ TablesInv /\ SectionsInv => GlobalsPreserved
  BY DoneCalls DEF GlobalsPreserved
<1> QED
  BY <1>1, AllInvariants, PTL

-----------------------------------------------------------------------------
(* The data section: cutting trailing zeros never changes the memory a hook *)
(* starts with.  Under disjoint ranges a byte that no earlier segment       *)
(* covers is still zero when its own segment is applied, so that leaving a  *)
(* zero out writes the same value.                                          *)

LEMMA LeastElement ==
  ASSUME NEW S \in SUBSET Nat, S # {}
  PROVE  \E lo \in S : \A k \in S : lo <= k
<1> DEFINE Less == OpToRel(<, Nat)
<1>1. IsWellFoundedOn(Less, Nat)
  BY NatLessThanWellFounded DEF OpToRel
<1>2. PICK lo \in S : \A k \in S : ~(<<k, lo>> \in Less)
  BY <1>1, WFMin
<1>3. \A k \in S : ~(k < lo)
  BY <1>2 DEF OpToRel
<1> QED
  BY <1>3

\* trim_trailing_zeros finds its position: what it cuts is zero, what it
\* leaves does not end in a zero.
LEMMA Cut ==
  ASSUME NEW data \in Seq(Bytes)
  PROVE  /\ LastNonzero(data) \in 0 .. Len(data)
         /\ \A k \in LastNonzero(data)+1 .. Len(data) : data[k] = 0
         /\ LastNonzero(data) # 0 => data[LastNonzero(data)] # 0
<1> DEFINE S == {n \in 0 .. Len(data) : \A k \in n+1 .. Len(data) : data[k] = 0}
<1>1. Len(data) \in Nat
  OBVIOUS
<1>2. S \in SUBSET Nat /\ Len(data) \in S
  BY <1>1
<1>3. PICK lo \in S : \A k \in S : lo <= k
  BY <1>2, LeastElement
<1>4. lo # 0 => data[lo] # 0
  <2>1. SUFFICES ASSUME lo # 0, data[lo] = 0 PROVE FALSE
    OBVIOUS
  <2>2. lo-1 \in 0 .. Len(data) /\ lo-1 \in Int /\ lo \in Nat
    BY <1>1, <1>3, <2>1
  <2>3. ASSUME NEW k \in lo .. Len(data) PROVE data[k] = 0
    <3>1. k = lo \/ k \in lo+1 .. Len(data)
      BY <1>1, <2>2
    <3> QED
      BY <1>3, <2>1, <3>1
  <2>4. lo-1 \in S
    BY <2>2, <2>3
  <2>5. lo <= lo-1
    BY <1>3, <2>4
  <2> QED
    BY <2>2, <2>5
<1>5. \E n \in 0 .. Len(data) :
         /\ \A k \in n+1 .. Len(data) : data[k] = 0
         /\ n # 0 => data[n] # 0
  BY <1>3, <1>4
<1> QED
  BY <1>5 DEF LastNonzero

-----------------------------------------------------------------------------
Addresses == 0 .. MemSize-1

Covers(d, a) == d.active /\ d.value <= a /\ a < End(d)

\* What no segment has covered so far is still zero.
Untouched ==
  TrimSafe(datas) /\ before # Trap =>
    \A a \in Addresses : (\A k \in 1 .. at-1 : ~Covers(datas[k], a)) => before[a] = 0

\* The types of the variables that the memories depend on.
Typed ==
  /\ datas \in Datas
  /\ at \in 1 .. Len(datas)+1
  /\ before \in Memory \cup {Trap}
  /\ after \in Memory \cup {Trap}

DataInv == Typed /\ Untouched /\ SameMemory

LEMMA SegmentOf ==
  ASSUME NEW ds \in Datas, NEW k \in 1 .. Len(ds)
  PROVE  /\ ds \in Seq(Segment) /\ Len(ds) \in Nat /\ DOMAIN ds = 1 .. Len(ds)
         /\ ds[k] \in Segment
<1>1. ds \in Seq(Segment)
  BY DataParameters
<1> QED
  BY <1>1

LEMMA SegmentFields ==
  ASSUME NEW d \in Segment
  PROVE  /\ d.active \in BOOLEAN /\ d.const \in BOOLEAN /\ d.value \in Nat
         /\ d.data \in Seq(Bytes) /\ Len(d.data) \in Nat
         /\ \A k \in 1 .. Len(d.data) : d.data[k] \in Bytes
         /\ Offset(d) \in Nat
         /\ End(d) \in Nat
<1>1. /\ d.active \in BOOLEAN /\ d.const \in BOOLEAN /\ d.value \in Nat
      /\ d.data \in Seq(Bytes)
  BY DEF Segment
<1>2. Len(d.data) \in Nat /\ \A k \in 1 .. Len(d.data) : d.data[k] \in Bytes
  BY <1>1
<1> QED
  BY <1>1, <1>2, DataParameters DEF Offset, End

LEMMA TrimmedSegment ==
  ASSUME NEW d \in Segment
  PROVE  /\ Trimmed(d) \in Segment
         /\ Trimmed(d).active = d.active /\ Trimmed(d).value = d.value
         /\ Offset(Trimmed(d)) = Offset(d)
         /\ Len(Trimmed(d).data) = LastNonzero(d.data)
         /\ \A k \in 1 .. LastNonzero(d.data) : Trimmed(d).data[k] = d.data[k]
<1> DEFINE n == LastNonzero(d.data)
           cut == SubSeq(d.data, 1, n)
<1>1. d.data \in Seq(Bytes) /\ Len(d.data) \in Nat
  BY SegmentFields
<1>2. n \in 0 .. Len(d.data)
  BY <1>1, Cut
<1> HIDE DEF n
<1>3. cut \in Seq(Bytes) /\ Len(cut) = n /\ \A k \in 1 .. n : cut[k] = d.data[k]
  BY <1>1, <1>2
<1>4. Trimmed(d) = [active |-> d.active, const |-> d.const, value |-> d.value, data |-> cut]
  <2>1. Trimmed(d) = [d EXCEPT !.data = cut]
    BY DEF Trimmed, n
  <2> HIDE DEF cut
  <2> QED
    BY <2>1 DEF Segment
<1> HIDE DEF cut
<1>5. /\ Trimmed(d) \in Segment /\ Trimmed(d).active = d.active
      /\ Trimmed(d).const = d.const /\ Trimmed(d).value = d.value
      /\ Trimmed(d).data = cut
  BY <1>3, <1>4 DEF Segment
<1>6. Offset(Trimmed(d)) = Offset(d)
  BY <1>5 DEF Offset
<1> QED
  BY <1>3, <1>5, <1>6 DEF n

\* One segment, applied to a memory.
LEMMA Applied ==
  ASSUME NEW mem \in Memory \cup {Trap}, NEW d \in Segment
  PROVE  Apply(mem, d) \in Memory \cup {Trap}
<1>1. CASE mem = Trap \/ ~d.active \/ Offset(d) + Len(d.data) > MemSize
  BY <1>1 DEF Apply
<1>2. CASE mem # Trap /\ d.active /\ ~(Offset(d) + Len(d.data) > MemSize)
  <2>1. ASSUME NEW a \in 0 .. MemSize-1
        PROVE  (IF a >= Offset(d) /\ a < Offset(d) + Len(d.data)
                THEN d.data[a - Offset(d) + 1] ELSE mem[a]) \in Bytes
    <3>1. CASE a >= Offset(d) /\ a < Offset(d) + Len(d.data)
      <4>1. a - Offset(d) + 1 \in 1 .. Len(d.data)
        BY <3>1, SegmentFields, DataParameters
      <4> QED
        BY <3>1, <4>1, SegmentFields
    <3>2. CASE ~(a >= Offset(d) /\ a < Offset(d) + Len(d.data))
      BY <1>2, <3>2 DEF Memory
    <3> QED
      BY <3>1, <3>2
  <2> QED
    BY <1>2, <2>1 DEF Apply, Memory
<1> QED
  BY <1>1, <1>2

-----------------------------------------------------------------------------
(* The step *)

\* Within a safe section no earlier segment covers a byte of segment at.
LEMMA OwnBytes ==
  ASSUME Typed, at <= Len(datas), TrimSafe(datas), datas[at].active,
         NEW a \in Int, datas[at].value <= a, a < End(datas[at]),
         NEW k \in 1 .. at-1
  PROVE  ~Covers(datas[k], a)
<1>1. /\ datas \in Datas /\ Len(datas) \in Nat /\ DOMAIN datas = 1 .. Len(datas)
      /\ at \in 1 .. Len(datas) /\ k \in 1 .. Len(datas) /\ k # at
  <2>1. datas \in Datas /\ at \in 1 .. Len(datas)+1
    BY DEF Typed
  <2>2. Len(datas) \in Nat /\ DOMAIN datas = 1 .. Len(datas)
    BY <2>1, DataParameters
  <2> QED
    BY <2>1, <2>2
<1>2. /\ datas[k].value \in Nat /\ End(datas[k]) \in Nat
      /\ datas[at].value \in Nat /\ End(datas[at]) \in Nat
  BY <1>1, SegmentOf, SegmentFields
<1>3. SUFFICES ASSUME datas[k].active PROVE ~Covers(datas[k], a)
  BY DEF Covers
<1>4. k \in Active(datas) /\ at \in Active(datas)
  BY <1>1, <1>3 DEF Active
<1>5. End(datas[k]) <= datas[at].value \/ End(datas[at]) <= datas[k].value
  BY <1>1, <1>4 DEF TrimSafe
<1> QED
  BY <1>2, <1>5 DEF Covers

LEMMA SegmentStep == ASSUME DataInv, EmitSegment PROVE DataInv'
<1> DEFINE d == datas[at]
           n == LastNonzero(d.data)
<1>1. /\ datas \in Datas /\ Len(datas) \in Nat /\ DOMAIN datas = 1 .. Len(datas)
      /\ at \in 1 .. Len(datas) /\ datas' = datas /\ at' = at+1 /\ d \in Segment
      /\ before \in Memory \cup {Trap} /\ after \in Memory \cup {Trap}
  <2>1. /\ datas \in Datas /\ at \in 1 .. Len(datas)+1 /\ at <= Len(datas)
        /\ datas' = datas /\ at' = at+1
        /\ before \in Memory \cup {Trap} /\ after \in Memory \cup {Trap}
    BY DEF DataInv, Typed, EmitSegment
  <2>2. Len(datas) \in Nat /\ DOMAIN datas = 1 .. Len(datas)
    BY <2>1, DataParameters
  <2>3. at \in 1 .. Len(datas)
    BY <2>1, <2>2
  <2> QED
    BY <2>1, <2>2, <2>3, SegmentOf
<1>2. before' = Apply(before, d) /\ after' = ApplyAll(after, Emitted(datas, d))
  BY DEF EmitSegment
<1>3. /\ d.active \in BOOLEAN /\ d.value \in Nat /\ d.data \in Seq(Bytes)
      /\ Len(d.data) \in Nat /\ Offset(d) \in Nat /\ End(d) = d.value + Len(d.data)
  BY <1>1, SegmentFields DEF End
<1>4. /\ n \in 0 .. Len(d.data)
      /\ \A k \in n+1 .. Len(d.data) : d.data[k] = 0
  BY <1>3, Cut
<1> HIDE DEF d, n
<1>5. before' \in Memory \cup {Trap}
  BY <1>1, <1>2, Applied
<1>6. CASE ~d.active \/ ~TrimSafe(datas)
  <2>1. after' = Apply(after, d)
    BY <1>2, <1>6 DEF Emitted, ApplyAll
  <2>2. after' \in Memory \cup {Trap}
    BY <1>1, <2>1, Applied
  <2>3. SameMemory'
    <3>1. before # Trap => after = before
      BY DEF DataInv, SameMemory
    <3>2. before = Trap => before' = Trap
      BY <1>2 DEF Apply
    <3> QED
      BY <1>2, <2>1, <3>1, <3>2 DEF SameMemory
  <2>4. Untouched'
    <3>1. SUFFICES ASSUME TrimSafe(datas), before' # Trap, NEW a \in Addresses,
                          \A k \in 1 .. at : ~Covers(datas[k], a)
                   PROVE  before'[a] = 0
      BY <1>1 DEF Untouched
    <3>2. before' = before
      BY <1>2, <1>6, <3>1 DEF Apply
    <3>3. \A k \in 1 .. at-1 : ~Covers(datas[k], a)
      BY <1>1, <3>1
    <3> QED
      BY <3>1, <3>2, <3>3 DEF DataInv, Untouched
  <2> QED
    BY <1>1, <1>5, <2>2, <2>3, <2>4 DEF DataInv, Typed
<1>7. CASE d.active /\ TrimSafe(datas)
  <2>1. Offset(d) = d.value
    <3>1. at \in Active(datas)
      BY <1>1, <1>7 DEF Active, d
    <3> QED
      BY <1>7, <3>1 DEF TrimSafe, Offset, d
  \* What the step writes to a memory that has been the same so far.
  <2>2. CASE before' # Trap
    <3>1. before # Trap /\ ~(Offset(d) + Len(d.data) > MemSize)
      BY <1>2, <1>7, <2>2 DEF Apply
    <3>2. after = before /\ before \in Memory
      BY <1>1, <3>1 DEF DataInv, SameMemory
    <3>3. before' = [a \in Addresses |->
                       IF a >= d.value /\ a < d.value + Len(d.data)
                       THEN d.data[a - d.value + 1] ELSE before[a]]
      BY <1>2, <1>7, <2>1, <3>1 DEF Apply, Addresses
    <3>4. ASSUME NEW a \in Addresses, a >= d.value, a < d.value + Len(d.data)
          PROVE  before[a] = 0
      <4>1. a \in Int /\ d.value <= a /\ a < End(d)
        BY <1>3, <3>4, DataParameters DEF Addresses
      <4>2. \A k \in 1 .. at-1 : ~Covers(datas[k], a)
        BY <1>1, <1>7, <4>1, OwnBytes DEF DataInv, d
      <4> QED
        BY <1>7, <3>1, <4>2 DEF DataInv, Untouched
    <3>5. ASSUME NEW a \in Addresses, a >= d.value + n, a < d.value + Len(d.data)
          PROVE  before'[a] = before[a]
      <4>1. a - d.value + 1 \in n+1 .. Len(d.data) /\ a >= d.value
        BY <1>3, <1>4, <3>5, DataParameters DEF Addresses
      <4>2. before'[a] = d.data[a - d.value + 1]
        BY <3>3, <3>5, <4>1
      <4> QED
        BY <1>4, <3>4, <3>5, <4>1, <4>2
    <3>6. SameMemory'
      <4>1. CASE n = 0
        <5>1. after' = after
          BY <1>2, <1>7, <4>1 DEF Emitted, ApplyAll, n
        <5>2. \A a \in Addresses : before'[a] = before[a]
          <6>1. TAKE a \in Addresses
          <6>2. CASE a >= d.value /\ a < d.value + Len(d.data)
            BY <1>3, <3>5, <4>1, <6>2
          <6>3. CASE ~(a >= d.value /\ a < d.value + Len(d.data))
            BY <3>3, <6>3
          <6> QED
            BY <6>2, <6>3
        <5>3. before' = before
          <6>1. before = [a \in Addresses |-> before[a]]
            BY <3>2 DEF Memory, Addresses
          <6>2. before' = [a \in Addresses |-> before'[a]]
            BY <3>3
          <6> QED
            BY <5>2, <6>1, <6>2
        <5> QED
          BY <3>2, <5>1, <5>3 DEF SameMemory
      <4>2. CASE n # 0
        <5>1. after' = Apply(after, Trimmed(d))
          BY <1>2, <1>7, <4>2 DEF Emitted, ApplyAll, n
        <5>2. /\ Trimmed(d).active /\ Offset(Trimmed(d)) = d.value
              /\ Len(Trimmed(d).data) = n
              /\ \A k \in 1 .. n : Trimmed(d).data[k] = d.data[k]
          BY <1>1, <1>7, <2>1, TrimmedSegment DEF n
        <5>3. ~(d.value + n > MemSize)
          BY <1>3, <1>4, <2>1, <3>1, DataParameters
        <5>4. after' = [a \in Addresses |->
                          IF a >= d.value /\ a < d.value + n
                          THEN Trimmed(d).data[a - d.value + 1] ELSE before[a]]
          BY <3>1, <3>2, <5>1, <5>2, <5>3 DEF Apply, Addresses
        <5>5. \A a \in Addresses : before'[a] = after'[a]
          <6>1. TAKE a \in Addresses
          <6>2. a \in Int
            BY DEF Addresses
          <6>3. CASE a >= d.value /\ a < d.value + n
            <7>1. a - d.value + 1 \in 1 .. n /\ a < d.value + Len(d.data)
              BY <1>3, <1>4, <6>2, <6>3
            <7> QED
              BY <3>3, <5>2, <5>4, <6>3, <7>1
          <6>4. CASE ~(a >= d.value /\ a < d.value + n)
            <7>1. after'[a] = before[a]
              BY <5>4, <6>4
            <7>2. CASE a >= d.value /\ a < d.value + Len(d.data)
              <8>1. a >= d.value + n
                BY <1>3, <1>4, <6>2, <6>4, <7>2
              <8> QED
                BY <3>5, <7>1, <7>2, <8>1
            <7>3. CASE ~(a >= d.value /\ a < d.value + Len(d.data))
              BY <3>3, <7>1, <7>3
            <7> QED
              BY <7>2, <7>3
          <6> QED
            BY <6>3, <6>4
        <5>6. before' = after'
          <6>1. after' = [a \in Addresses |-> after'[a]]
            BY <5>4
          <6>2. before' = [a \in Addresses |-> before'[a]]
            BY <3>3
          <6> QED
            BY <5>5, <6>1, <6>2
        <5> QED
          BY <5>6 DEF SameMemory
      <4> QED
        BY <4>1, <4>2
    <3>7. Untouched'
      <4>1. SUFFICES ASSUME NEW a \in Addresses, \A k \in 1 .. at : ~Covers(datas[k], a)
                     PROVE  before'[a] = 0
        BY <1>1 DEF Untouched
      <4>2. ~(a >= d.value /\ a < d.value + Len(d.data))
        BY <1>1, <1>3, <1>7, <4>1 DEF Covers, d
      <4>3. before'[a] = before[a]
        BY <3>3, <4>2
      <4>4. \A k \in 1 .. at-1 : ~Covers(datas[k], a)
        BY <1>1, <4>1
      <4> QED
        BY <1>7, <3>1, <4>3, <4>4 DEF DataInv, Untouched
    <3> QED
      BY <1>1, <1>5, <2>2, <3>6, <3>7 DEF DataInv, Typed, SameMemory
  <2>3. CASE before' = Trap
    <3>1. after' \in Memory \cup {Trap}
      <4>1. CASE n = 0
        BY <1>1, <1>2, <1>7, <4>1 DEF Emitted, ApplyAll, n
      <4>2. CASE n # 0
        <5>1. after' = Apply(after, Trimmed(d))
          BY <1>2, <1>7, <4>2 DEF Emitted, ApplyAll, n
        <5> QED
          BY <1>1, <5>1, TrimmedSegment, Applied
      <4> QED
        BY <4>1, <4>2
    <3>2. SameMemory' /\ Untouched'
      BY <2>3 DEF SameMemory, Untouched
    <3> QED
      BY <1>1, <1>5, <3>1, <3>2 DEF DataInv, Typed
  <2> QED
    BY <2>2, <2>3
<1> QED
  BY <1>3, <1>6, <1>7

(* Cutting trailing zeros off segments (and dropping segments of zeros)    *)
(* never changes the memory a hook is instantiated with: SameMemory for    *)
(* every data section, memory size and set of byte values.                 *)
THEOREM TrimKeepsMemory == DataSpec => []SameMemory
<1>1. DataInit => DataInv
  <2>1. SUFFICES ASSUME DataInit PROVE DataInv
    OBVIOUS
  <2>2. /\ datas \in Datas /\ at = 1 /\ before = Zeroed /\ after = Zeroed
    BY <2>1 DEF DataInit, DataStart
  <2>3. Zeroed \in Memory
    BY DataParameters DEF Zeroed, Memory
  <2>4. Len(datas) \in Nat
    BY <2>2, DataParameters
  <2>5. at \in 1 .. Len(datas)+1
    BY <2>2, <2>4
  <2>6. Untouched
    BY <2>2 DEF Untouched, Zeroed, Addresses
  <2> QED
    BY <2>2, <2>3, <2>5, <2>6 DEF DataInv, Typed, SameMemory
<1>2. DataInv /\ [EmitSegment]_dvars => DataInv'
  <2>1. DataInv /\ UNCHANGED dvars => DataInv'
    BY DEF DataInv, Typed, Untouched, SameMemory, dvars
  <2> QED
    BY <2>1, SegmentStep
<1>3. DataInv => SameMemory
  BY DEF DataInv
<1> QED
  BY <1>1, <1>2, <1>3, PTL DEF DataSpec

-----------------------------------------------------------------------------
(* What is written ends in a byte that matters *)

\* An active segment with something to apply, up to its last byte.
Weighty(d) == d.active => d.data # << >> /\ d.data[Len(d.data)] # 0

WeightInv ==
  /\ datas \in Datas /\ at \in Nat \ {0}
  /\ data_sec \in Seq(Segment)
  /\ NoDeadWeight

LEMMA Appended ==
  ASSUME NEW s \in Seq(Segment), NEW t \in Seq(Segment), Len(t) \in {0, 1},
         \A k \in Active(s) : Weighty(s[k]),
         Len(t) = 1 => Weighty(t[1])
  PROVE  s \o t \in Seq(Segment) /\ \A k \in Active(s \o t) : Weighty((s \o t)[k])
<1> DEFINE u == s \o t
<1>1. u \in Seq(Segment) /\ Len(u) = Len(s) + Len(t) /\ DOMAIN u = 1 .. Len(u) /\ DOMAIN s = 1 .. Len(s)
  OBVIOUS
<1>2. /\ \A k \in 1 .. Len(s) : u[k] = s[k]
      /\ Len(t) = 1 => u[Len(s)+1] = t[1]
  OBVIOUS
<1>3. Len(s) \in Nat /\ (Len(t) = 0 \/ Len(t) = 1)
  OBVIOUS
<1> HIDE DEF u
<1>4. ASSUME NEW k \in Active(u) PROVE Weighty(u[k])
  <2>1. k \in 1 .. Len(u) /\ u[k].active
    BY <1>1, <1>4 DEF Active
  <2>2. CASE k \in 1 .. Len(s)
    <3>1. k \in Active(s)
      BY <1>1, <1>2, <2>1, <2>2 DEF Active
    <3> QED
      BY <1>2, <2>2, <3>1
  <2>3. CASE k \notin 1 .. Len(s)
    <3> DEFINE p == Len(s)
               q == Len(t)
    <3>1. k \in 1 .. p+q /\ p \in Nat /\ (q = 0 \/ q = 1) /\ k \notin 1 .. p
      BY <1>1, <1>3, <2>1, <2>3
    <3> HIDE DEF p, q
    <3>2. q = 1 /\ k = p+1
      BY <3>1
    <3> QED
      BY <1>2, <3>2 DEF p, q
  <2> QED
    BY <2>2, <2>3
<1> QED
  BY <1>1, <1>4 DEF u

\* What the loop writes for a segment of a safe section.
LEMMA EmittedWeighty ==
  ASSUME NEW ds, NEW d \in Segment
  PROVE  /\ Emitted(ds, d) \in Seq(Segment) /\ Len(Emitted(ds, d)) \in {0, 1}
         /\ TrimSafe(ds) /\ Len(Emitted(ds, d)) = 1 => Weighty(Emitted(ds, d)[1])
<1>1. CASE ~d.active \/ ~TrimSafe(ds)
  <2>1. Emitted(ds, d) = <<d>>
    BY <1>1 DEF Emitted
  <2> QED
    BY <1>1, <2>1 DEF Weighty
<1>2. CASE d.active /\ TrimSafe(ds) /\ LastNonzero(d.data) = 0
  <2>1. Emitted(ds, d) = << >>
    BY <1>2 DEF Emitted
  <2> QED
    BY <2>1
<1>3. CASE d.active /\ TrimSafe(ds) /\ LastNonzero(d.data) # 0
  <2> DEFINE n == LastNonzero(d.data)
             t == Trimmed(d)
  <2>1. Emitted(ds, d) = <<t>>
    BY <1>3 DEF Emitted
  <2>2. d.data \in Seq(Bytes) /\ Len(d.data) \in Nat
    BY SegmentFields
  <2>3. n \in 0 .. Len(d.data) /\ n # 0 /\ d.data[n] # 0
    BY <1>3, <2>2, Cut
  <2>4. t \in Segment /\ Len(t.data) = n /\ \A k \in 1 .. n : t.data[k] = d.data[k]
    BY TrimmedSegment
  <2> HIDE DEF n, t
  <2>5. n \in 1 .. n
    BY <2>2, <2>3
  <2>6. t.data # << >> /\ t.data[Len(t.data)] # 0
    BY <2>3, <2>4, <2>5
  <2> QED
    BY <2>1, <2>4, <2>6 DEF Weighty
<1> QED
  BY <1>1, <1>2, <1>3

LEMMA NextWeightInv == WeightInv /\ [EmitSegment]_dvars => WeightInv'
<1>1. SUFFICES ASSUME WeightInv, [EmitSegment]_dvars PROVE WeightInv'
  OBVIOUS
<1>2. CASE UNCHANGED dvars
  BY <1>1, <1>2 DEF WeightInv, NoDeadWeight, Active, dvars
<1>3. CASE EmitSegment
  <2> DEFINE new == Emitted(datas, datas[at])
  <2>1. datas \in Datas /\ at \in 1 .. Len(datas)
    <3>1. datas \in Datas /\ at \in Nat \ {0} /\ at <= Len(datas)
      BY <1>1, <1>3 DEF WeightInv, EmitSegment
    <3>2. Len(datas) \in Nat
      BY <3>1, DataParameters
    <3> QED
      BY <3>1, <3>2
  <2>2. datas[at] \in Segment
    BY <2>1, SegmentOf
  <2>3. /\ new \in Seq(Segment) /\ Len(new) \in {0, 1}
        /\ TrimSafe(datas) /\ Len(new) = 1 => Weighty(new[1])
    BY <2>2, EmittedWeighty
  <2>4. datas' = datas /\ at' = at+1 /\ data_sec' = data_sec \o new
    BY <1>3 DEF EmitSegment
  <2> HIDE DEF new
  <2>5. data_sec \in Seq(Segment) /\ (TrimSafe(datas) => \A k \in Active(data_sec) : Weighty(data_sec[k]))
    BY <1>1 DEF WeightInv, NoDeadWeight, Weighty, Active
  <2>6. data_sec' \in Seq(Segment)
    BY <2>3, <2>4, <2>5
  <2>7. TrimSafe(datas) => \A k \in Active(data_sec') : Weighty(data_sec'[k])
    BY <2>3, <2>4, <2>5, Appended
  <2>8. NoDeadWeight'
    BY <2>4, <2>7 DEF NoDeadWeight, Weighty, Active, TrimSafe
  <2> QED
    BY <1>1, <2>4, <2>6, <2>8 DEF WeightInv
<1> QED
  BY <1>1, <1>2, <1>3

(* When no two ranges can overlap nothing is left to cut: no active        *)
(* segment that is written is empty or ends in a zero, whatever the data.  *)
THEOREM TrimLeavesNoDeadWeight == DataSpec => []NoDeadWeight
<1>1. DataInit => WeightInv
  <2>1. SUFFICES ASSUME DataInit PROVE WeightInv
    OBVIOUS
  <2>2. datas \in Datas /\ at = 1 /\ data_sec = << >>
    BY <2>1 DEF DataInit, DataStart
  <2>3. Active(data_sec) = {} /\ data_sec \in Seq(Segment)
    BY <2>2 DEF Active
  <2> QED
    BY <2>2, <2>3 DEF WeightInv, NoDeadWeight
<1>2. WeightInv => NoDeadWeight
  BY DEF WeightInv
<1> QED
  BY <1>1, <1>2, NextWeightInv, PTL DEF DataSpec

-----------------------------------------------------------------------------
(* The pass as a whole *)

\* The composed pass runs both parts as they are specified alone.
LEMMA Parts == CleanSpec => Spec /\ DataSpec
<1>1. CleanInit => Init /\ DataInit
  BY CleanInputs DEF CleanInit, Init, DataInit
<1>2. [CleanNext]_cleanVars => [Next]_vars /\ [EmitSegment]_dvars
  BY DEF CleanNext, WriteSegment, OtherStep, cleanVars
<1> QED
  BY <1>1, <1>2, PTL DEF CleanSpec, Spec, DataSpec

\* What the entry points reach is kept, and nothing else, for every module.
THEOREM KeepsExactlyWhatIsNeeded == CleanSpec => []KeepsWhatIsNeeded
<1>1. ReachIsLeast /\ UsedIsLeast => KeepsWhatIsNeeded
  BY DEF KeepsWhatIsNeeded
<1> QED
  BY <1>1, Parts, KeepsWhatIsReached, KeepsWhatIsUsed, PTL

\* Names of functions and globals still name what they named.
THEOREM ReferencesKeepTheirTargets == CleanSpec => []ReferencesPreserved
<1>1. CallsPreserved /\ GlobalsPreserved => ReferencesPreserved
  BY DEF ReferencesPreserved
<1> QED
  BY <1>1, Parts, CallsKeepTheirTargets, GlobalsKeepTheirTargets, PTL

\* The hook starts with the same memory, in the pass as in the loop alone.
THEOREM CleanKeepsMemory == CleanSpec => []SameMemory
BY Parts, TrimKeepsMemory, PTL

\* No byte of the cleaned data section costs fee for nothing, in the pass as
\* in the loop alone.
THEOREM CleanLeavesNoDeadWeight == CleanSpec => []NoDeadWeight
BY Parts, TrimLeavesNoDeadWeight, PTL
=============================================================================
