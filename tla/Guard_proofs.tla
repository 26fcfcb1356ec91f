---------------------------- MODULE Guard_proofs ----------------------------
(***************************************************************************)
(* What auto_guard does, for every module it can be given.                 *)
(*                                                                         *)
(* It leaves no unguarded loop, whether the module imports _g or not.      *)
(* Its output is the input with a guard in front of each loop's first      *)
(* operator and nothing else, and so an execution of the output is one of  *)
(* the input, with the operators of guards in between, until a guard whose *)
(* budget a loop has used up ends it.                                      *)
(***************************************************************************)
EXTENDS Guard, SequenceTheorems, FunctionTheorems, FiniteSetTheorems, WellFoundedInduction, TLAPS

Bodies == Seq(Operator)
Base == Len(prog.imports)

LoopsGuarded(b, g) == \A k \in Loops(b) : Guarded(b, k, g)

\* While a body is rebuilt: a loop of the new body that is not guarded yet was
\* copied from a guarded loop j of the old one, at most two operators ago, and
\* what followed it was copied since.
Ahead == Len(body) - (pos - 1)
Pending(k) == \E j \in 1 .. pos-1 :
  /\ j >= pos - 3 /\ k = j + Ahead
  /\ Old.body[j].op = "loop" /\ Guarded(Old.body, j, GIndex(prog))
  /\ \A i \in j .. pos-1 : body[i + Ahead] = Translated(Old.body[i])

GuardTypes ==
  /\ prog \in Programs
  /\ pc \in {"scan", "rebuild", "done"}
  /\ counter \in Nat
  /\ pc = "rebuild" => /\ at \in DOMAIN prog.funcs /\ pos \in 1 .. Len(Old.body) + 1
                       /\ body \in Bodies
                       /\ out = [imports |-> out.imports, funcs |-> out.funcs, hook |-> out.hook]

GuardInv ==
  /\ GuardTypes
  /\ pc = "scan" => DOMAIN out.funcs = {}
  /\ pc = "rebuild" =>
       /\ GIndex(out) = G
       /\ \A k \in Loops(body) : Guarded(body, k, G) \/ Pending(k)
       /\ \A f \in DOMAIN out.funcs : LoopsGuarded(out.funcs[f].body, G)
  /\ pc = "done" => \A f \in DOMAIN out.funcs : LoopsGuarded(out.funcs[f].body, GIndex(out))

-----------------------------------------------------------------------------
(* The index of _g *)

LEMMA Least == ASSUME NEW S \in SUBSET Nat, S # {} PROVE \E m \in S : \A k \in S : m <= k
<1> DEFINE Less == {x \in Nat \X Nat : x[1] < x[2]}
<1>1. IsWellFoundedOn(Less, Nat)
  BY NatLessThanWellFounded DEF OpToRel
<1>2. PICK m \in S : \A k \in S : ~(<<k, m>> \in Less)
  BY <1>1, WFMin
<1>3. \A k \in S : ~(k < m)
  BY <1>2
<1> QED
  BY <1>3

LEMMA ImportsOf == ASSUME NEW p \in Programs
                   PROVE  /\ p.imports \in Seq([name : STRING, params : Nat, result : 0 .. 1, ends : BOOLEAN])
                          /\ Len(p.imports) \in Nat /\ Imports(p) \subseteq Nat
<1>1. p.imports \in Seq([name : STRING, params : Nat, result : 0 .. 1, ends : BOOLEAN])
  BY GuardInputs
<1>2. Len(p.imports) \in Nat
  BY <1>1, LenProperties
<1> QED
  BY <1>1, <1>2 DEF Imports

LEMMA GIndexType == ASSUME NEW p \in Programs
                    PROVE  IF GuardImports(p) = {} THEN GIndex(p) = None ELSE GIndex(p) \in Nat
<1>1. CASE GuardImports(p) = {}
  BY <1>1 DEF GIndex
<1>2. CASE GuardImports(p) # {}
  <2>1. GuardImports(p) \in SUBSET Nat
    BY ImportsOf DEF GuardImports
  <2>2. \E k \in GuardImports(p) : \A j \in GuardImports(p) : k <= j
    BY <1>2, <2>1, Least
  <2>3. GIndex(p) = CHOOSE k \in GuardImports(p) : \A j \in GuardImports(p) : k <= j
    BY <1>2 DEF GIndex
  <2>4. GIndex(p) \in GuardImports(p)
    BY <2>2, <2>3
  <2> QED
    BY <1>2, <2>1, <2>4
<1> QED
  BY <1>1, <1>2

LEMMA SameG == ASSUME NEW p, NEW q, p.imports = q.imports PROVE GIndex(p) = GIndex(q)
<1>1. GuardImports(p) = GuardImports(q)
  BY DEF GuardImports, Imports
<1> QED
  BY <1>1 DEF GIndex

\* Appending the import to a module without it makes it the result's _g.
LEMMA AppendedG ==
  ASSUME NEW p \in Programs, GIndex(p) = None, NEW q, q.imports = Append(p.imports, GImport)
  PROVE  GIndex(q) = Len(p.imports)
<1> DEFINE n == Len(p.imports)
<1>1. n \in Nat /\ p.imports \in Seq([name : STRING, params : Nat, result : 0 .. 1, ends : BOOLEAN])
  BY ImportsOf
<1>2. /\ Len(q.imports) = n + 1
      /\ \A i \in 1 .. n : q.imports[i] = p.imports[i]
      /\ q.imports[n+1] = GImport
  BY <1>1
<1>3. \A k \in 0 .. n-1 : p.imports[k+1].name # "_g"
  BY GIndexType, GuardParameters DEF GuardImports, Imports
<1>4. GImport.name = "_g"
  BY DEF GImport
<1>5. Imports(q) = 0 .. n
  BY <1>1, <1>2 DEF Imports
<1>6. \A k \in 0 .. n-1 : q.imports[k+1].name # "_g"
  BY <1>1, <1>2, <1>3
<1>7. \A k \in 0 .. n : q.imports[k+1].name = "_g" <=> k = n
  BY <1>1, <1>2, <1>4, <1>6
<1> HIDE DEF n
<1>8. GuardImports(q) = {n}
  <2>1. n \in 0 .. n
    BY <1>1
  <2>2. \A k : k \in GuardImports(q) <=> k \in 0 .. n /\ q.imports[k+1].name = "_g"
    BY <1>5 DEF GuardImports
  <2>3. \A k : k \in GuardImports(q) <=> k = n
    BY <1>7, <2>1, <2>2
  <2> QED
    BY <2>3
<1>9. GIndex(q) = CHOOSE k \in {n} : \A j \in {n} : k <= j
  BY <1>8 DEF GIndex
<1>10. GIndex(q) = n
  <2>1. n \in {n} /\ \A j \in {n} : n <= j
    BY <1>1
  <2> QED
    BY <1>9, <2>1
<1> QED
  BY <1>10 DEF n
-----------------------------------------------------------------------------
(* Bodies *)

LEMMA OldBody == ASSUME NEW p \in Programs, NEW f \in DOMAIN p.funcs
                 PROVE  /\ p.funcs[f].body \in Bodies
                        /\ Len(p.funcs[f].body) \in Nat
                        /\ \A k \in 1 .. Len(p.funcs[f].body) : p.funcs[f].body[k] \in Operator
<1>1. p.funcs[f].body \in Bodies
  BY GuardInputs DEF Function, Bodies
<1> QED
  BY <1>1, LenProperties, ElementOfSeq DEF Bodies

LEMMA IndexTypes == ASSUME NEW p \in Programs, prog = p, NEW f \in Nat
                    PROVE  /\ G \in Nat /\ FuncMap(f) \in Nat
                           /\ GIndex(p) # None => G = GIndex(p) /\ FuncMap(f) = f
<1>1. Len(p.imports) \in Nat
  BY ImportsOf
<1>2. GIndex(p) # None => GIndex(p) \in Nat
  BY GIndexType
<1> QED
  BY <1>1, <1>2 DEF G, FuncMap

\* Renumbering keeps the kind of an operator, and a guard a guard.
LEMMA TranslatedOp ==
  ASSUME NEW i \in Operator, prog \in Programs
  PROVE  /\ Translated(i) \in Operator /\ Translated(i).op = i.op
         /\ i.op = "call" /\ GIndex(prog) # None => Translated(i) = I("call", i.n)
<1>1. i.op \in Ops /\ i.n \in Nat
  BY DEF Operator
<1>2. FuncMap(i.n) \in Nat
  BY <1>1, ImportsOf DEF FuncMap
<1>3. "call" \in Ops
  BY DEF Ops
<1> QED
  BY <1>1, <1>2, <1>3 DEF Translated, I, Operator, FuncMap

-----------------------------------------------------------------------------
(* One step *)

LEMMA Copied ==
  ASSUME GuardInv, Copy
  PROVE  \A k \in Loops(body') : Guarded(body', k, G) \/ Pending(k)'
<1> DEFINE n == Len(body)
           x == Translated(Old.body[pos])
           new == Append(body, x)
<1>1. /\ prog \in Programs /\ at \in DOMAIN prog.funcs /\ body \in Bodies
      /\ pos \in 1 .. Len(Old.body)
      /\ Len(Old.body) \in Nat /\ \A j \in 1 .. Len(Old.body) : Old.body[j] \in Operator
  <2>1. pc = "rebuild" /\ pos <= Len(Old.body)
    BY DEF Copy
  <2>2. prog \in Programs /\ at \in DOMAIN prog.funcs /\ body \in Bodies /\ pos \in 1 .. Len(Old.body) + 1
    BY <2>1 DEF GuardInv, GuardTypes
  <2>3. Len(Old.body) \in Nat /\ \A j \in 1 .. Len(Old.body) : Old.body[j] \in Operator
    BY <2>2, OldBody DEF Old
  <2> QED
    BY <2>1, <2>2, <2>3
<1>2. x \in Operator /\ x.op = Old.body[pos].op
  BY <1>1, TranslatedOp
<1>3. /\ n \in Nat /\ DOMAIN body = 1 .. n
      /\ new \in Bodies /\ Len(new) = n + 1 /\ DOMAIN new = 1 .. n+1
      /\ \A i \in 1 .. n : new[i] = body[i]
      /\ new[n+1] = x
  <2>1. n \in Nat /\ DOMAIN body = 1 .. n
    BY <1>1, LenProperties DEF Bodies
  <2>2. new \in Bodies /\ Len(new) = n + 1 /\ (\A i \in 1 .. n : new[i] = body[i]) /\ new[n+1] = x
    BY <1>1, <1>2 DEF Bodies
  <2>3. DOMAIN new = 1 .. n+1
    BY <2>1, <2>2, LenProperties DEF Bodies
  <2> QED
    BY <2>1, <2>2, <2>3
<1>4. body' = new /\ pos' = pos + 1 /\ prog' = prog /\ at' = at /\ Old' = Old /\ G' = G
  BY DEF Copy, Old, G
<1>5. Ahead' = Ahead /\ Ahead = n - (pos - 1) /\ Ahead \in Int
  BY <1>1, <1>3, <1>4 DEF Ahead
<1> HIDE DEF n, x, new
<1>6. ASSUME NEW k \in Loops(new) PROVE Guarded(new, k, G) \/ Pending(k)'
  <2>1. k \in 1 .. n+1 /\ new[k].op = "loop"
    BY <1>3 DEF Loops
  <2>2. CASE k = n + 1
    \* The operator just copied: a loop that has its guard in the old body.
    <3>1. Old.body[pos].op = "loop"
      BY <1>2, <1>3, <2>1, <2>2
    <3>2. Guarded(Old.body, pos, GIndex(prog))
      <4>1. pos \notin Unguarded(prog, at)
        BY DEF Copy
      <4>2. DOMAIN Old.body = 1 .. Len(Old.body)
        BY <1>1, OldBody, LenProperties DEF Bodies, Old
      <4> QED
        BY <1>1, <3>1, <4>1, <4>2 DEF Unguarded, Loops, Old
    <3>3. new[pos + Ahead] = Translated(Old.body[pos])
      BY <1>1, <1>3, <1>5 DEF x
    <3>4. pos \in 1 .. pos' - 1 /\ pos >= pos' - 3 /\ k = pos + Ahead'
      BY <1>1, <1>3, <1>4, <1>5, <2>2
    <3>5. \A i \in pos .. pos' - 1 : body'[i + Ahead'] = Translated(Old.body[i])'
      BY <1>1, <1>4, <1>5, <3>3 DEF Translated, FuncMap
    <3> QED
      BY <1>4, <3>1, <3>2, <3>4, <3>5 DEF Pending
  <2>3. CASE k \in 1 .. n /\ Guarded(body, k, G)
    BY <1>3, <2>3 DEF Guarded
  <2>4. CASE k \in 1 .. n /\ Pending(k)
    <3>1. PICK j \in 1 .. pos-1 :
            /\ j >= pos - 3 /\ k = j + Ahead
            /\ Old.body[j].op = "loop" /\ Guarded(Old.body, j, GIndex(prog))
            /\ \A i \in j .. pos-1 : body[i + Ahead] = Translated(Old.body[i])
      BY <2>4 DEF Pending
    <3>2. ASSUME NEW i \in j .. pos PROVE new[i + Ahead] = Translated(Old.body[i])
      <4>1. CASE i = pos
        BY <1>1, <1>3, <1>5, <4>1 DEF x
      <4>2. CASE i \in j .. pos-1
        <5>1. /\ n \in Nat /\ pos \in Nat /\ i \in Nat /\ j \in Nat /\ Ahead \in Int
              /\ j <= i /\ i <= pos-1 /\ Ahead = n - (pos-1)
          BY <1>1, <1>3, <1>5, <4>2
        <5>2. 1 <= k /\ k = j + Ahead
          BY <2>4, <3>1
        <5>3. i + Ahead \in 1 .. n
          BY <5>1, <5>2
        <5> QED
          BY <1>3, <3>1, <4>2, <5>3
      <4> QED
        BY <1>1, <3>1, <4>1, <4>2
    <3>3. CASE j >= pos - 2
      <4>1. pos \in Nat /\ j \in Nat /\ pos' = pos + 1 /\ Ahead' = Ahead
        BY <1>1, <1>4, <1>5
      <4>2. j \in 1 .. pos' - 1 /\ j >= pos' - 3 /\ k = j + Ahead'
        BY <3>1, <3>3, <4>1
      <4>3. \A i \in j .. pos' - 1 : body'[i + Ahead'] = Translated(Old.body[i])'
        BY <1>1, <1>4, <1>5, <3>2 DEF Translated, FuncMap
      <4> QED
        BY <1>4, <3>1, <4>2, <4>3 DEF Pending
    <3>4. CASE j = pos - 3
      \* Its guard has been copied: none of the three is renumbered.
      <4>1. /\ GIndex(prog) # None /\ Old.body[j+1].op = "const" /\ Old.body[j+2].op = "const"
            /\ Old.body[j+3] = I("call", GIndex(prog))
        BY <3>1 DEF Guarded
      <4>2. /\ j+1 \in 1 .. Len(Old.body) /\ j+2 \in 1 .. Len(Old.body) /\ j+3 \in 1 .. Len(Old.body)
            /\ j+1 \in j .. pos /\ j+2 \in j .. pos /\ j+3 \in j .. pos
        BY <1>1, <3>1, <3>4
      <4>3. /\ new[j+1 + Ahead] = Translated(Old.body[j+1])
            /\ new[j+2 + Ahead] = Translated(Old.body[j+2])
            /\ new[j+3 + Ahead] = Translated(Old.body[j+3])
        BY <3>2, <4>2
      <4>4. /\ k+1 = j+1 + Ahead /\ k+2 = j+2 + Ahead /\ k+3 = j+3 + Ahead /\ k+3 <= n+1
        BY <1>1, <1>3, <1>5, <3>1, <3>4
      <4>5. /\ Translated(Old.body[j+1]).op = "const" /\ Translated(Old.body[j+2]).op = "const"
        BY <1>1, <4>1, <4>2, TranslatedOp
      <4>6. Translated(Old.body[j+3]) = I("call", GIndex(prog))
        BY <1>1, <4>1, <4>2, TranslatedOp DEF I
      <4>7. G = GIndex(prog)
        BY <4>1 DEF G
      <4> QED
        BY <1>3, <4>1, <4>3, <4>4, <4>5, <4>6, <4>7 DEF Guarded
    <3> QED
      BY <1>1, <3>1, <3>3, <3>4
  <2> QED
    <3>1. k \in 1 .. n => k \in Loops(body)
      BY <1>3, <2>1 DEF Loops
    <3>2. pc = "rebuild"
      BY DEF Copy
    <3> QED
      BY <1>3, <2>1, <2>2, <2>3, <2>4, <3>1, <3>2 DEF GuardInv
<1> QED
  BY <1>4, <1>6

LEMMA Spliced ==
  ASSUME GuardInv, Insert
  PROVE  \A k \in Loops(body') : Guarded(body', k, G) \/ Pending(k)'
<1> DEFINE n == Len(body)
           x == Old.body[pos]
           g == Prologue(counter)
           new == body \o <<x>> \o g
<1>1. /\ prog \in Programs /\ at \in DOMAIN prog.funcs /\ body \in Bodies /\ counter \in Nat
      /\ pos \in 1 .. Len(Old.body)
      /\ Len(Old.body) \in Nat /\ \A j \in 1 .. Len(Old.body) : Old.body[j] \in Operator
  <2>1. pc = "rebuild" /\ pos <= Len(Old.body)
    BY DEF Insert
  <2>2. /\ prog \in Programs /\ at \in DOMAIN prog.funcs /\ body \in Bodies /\ pos \in 1 .. Len(Old.body) + 1
        /\ counter \in Nat
    BY <2>1 DEF GuardInv, GuardTypes
  <2>3. Len(Old.body) \in Nat /\ \A j \in 1 .. Len(Old.body) : Old.body[j] \in Operator
    BY <2>2, OldBody DEF Old
  <2> QED
    BY <2>1, <2>2, <2>3
<1>2. /\ g \in Bodies /\ Len(g) = 4
      /\ g[1].op = "const" /\ g[2].op = "const" /\ g[3] = I("call", G) /\ g[4].op = "drop"
  <2>1. G \in Nat /\ AutoBase + counter \in Nat /\ MaxIter \in Nat
    BY <1>1, IndexTypes, GuardParameters
  <2>2. {"const", "call", "drop"} \subseteq Ops
    BY DEF Ops
  <2> QED
    BY <2>1, <2>2 DEF Prologue, I, Bodies, Operator
<1>3. x \in Operator /\ x.op = "loop"
  <2>1. pos \in Unguarded(prog, at)
    BY DEF Insert
  <2> QED
    BY <1>1, <2>1 DEF Unguarded, Loops, Old
<1>4. n \in Nat /\ DOMAIN body = 1 .. n
  BY <1>1, LenProperties DEF Bodies
<1>5. /\ new \in Bodies /\ Len(new) = n + 5 /\ DOMAIN new = 1 .. n+5
      /\ \A i \in 1 .. n : new[i] = body[i]
      /\ new[n+1] = x /\ new[n+2] = g[1] /\ new[n+3] = g[2] /\ new[n+4] = g[3] /\ new[n+5] = g[4]
  <2> HIDE DEF g, x
  <2> DEFINE h == body \o <<x>>
  <2>1. <<x>> \in Bodies /\ Len(<<x>>) = 1 /\ <<x>>[1] = x
    BY <1>3 DEF Bodies
  <2>2. /\ h \in Bodies /\ Len(h) = n + 1
        /\ \A i \in 1 .. n+1 : h[i] = IF i <= n THEN body[i] ELSE <<x>>[i - n]
    BY <1>1, <2>1, ConcatProperties DEF Bodies
  <2>3. h[n+1] = x /\ \A i \in 1 .. n : h[i] = body[i]
    BY <1>4, <2>1, <2>2
  <2> HIDE DEF h, n
  <2>4. /\ h \o g \in Bodies /\ Len(h \o g) = n + 5
        /\ \A i \in 1 .. n+5 : (h \o g)[i] = IF i <= n+1 THEN h[i] ELSE g[i - (n+1)]
    <3>1. /\ h \o g \in Bodies /\ Len(h \o g) = Len(h) + Len(g)
          /\ \A i \in 1 .. Len(h) + Len(g) : (h \o g)[i] = IF i <= Len(h) THEN h[i] ELSE g[i - Len(h)]
      BY <1>2, <2>2, ConcatProperties DEF Bodies
    <3>2. Len(h) = n+1 /\ Len(g) = 4 /\ n+1+4 = n+5
      BY <1>2, <1>4, <2>2
    <3> QED
      BY <3>1, <3>2
  <2>5. DOMAIN (h \o g) = 1 .. n+5
    BY <2>4, LenProperties DEF Bodies
  <2>6. /\ \A i \in 1 .. n : (h \o g)[i] = body[i]
        /\ (h \o g)[n+1] = x
    BY <1>4, <2>3, <2>4
  <2>7. (h \o g)[n+2] = g[1] /\ (h \o g)[n+3] = g[2] /\ (h \o g)[n+4] = g[3] /\ (h \o g)[n+5] = g[4]
    <3>1. ASSUME NEW i \in 1 .. 4 PROVE (h \o g)[n+1+i] = g[i]
      <4> DEFINE m == n+1+i
      <4>1. m \in 1 .. n+5 /\ ~(m <= n+1) /\ m - (n+1) = i
        BY <1>4
      <4> HIDE DEF m
      <4>2. (h \o g)[m] = g[m - (n+1)]
        BY <2>4, <4>1
      <4> QED
        BY <4>1, <4>2 DEF m
    <3>2. n+1+1 = n+2 /\ n+1+2 = n+3 /\ n+1+3 = n+4 /\ n+1+4 = n+5
      BY <1>4
    <3>3. 1 \in 1 .. 4 /\ 2 \in 1 .. 4 /\ 3 \in 1 .. 4 /\ 4 \in 1 .. 4
      OBVIOUS
    <3> HIDE DEF h
    <3>4. (h \o g)[n+1+1] = g[1] /\ (h \o g)[n+1+2] = g[2] /\ (h \o g)[n+1+3] = g[3] /\ (h \o g)[n+1+4] = g[4]
      BY <3>1, <3>3
    <3> QED
      BY <3>2, <3>4
  <2> QED
    BY <2>4, <2>5, <2>6, <2>7 DEF h
<1>6. body' = new /\ pos' = pos + 1
  BY DEF Insert
<1> HIDE DEF n, x, g, new
<1>7. ASSUME NEW k \in Loops(new) PROVE Guarded(new, k, G)
  <2>1. k \in 1 .. n+5 /\ new[k].op = "loop"
    BY <1>5 DEF Loops
  <2>2. CASE k = n + 1
    <3>1. G # None
      BY <1>1, IndexTypes, GuardParameters
    <3> QED
      BY <1>2, <1>4, <1>5, <2>2, <3>1 DEF Guarded
  <2>3. CASE k \in n+2 .. n+5
    BY <1>2, <1>4, <1>5, <2>1, <2>3 DEF I
  <2>4. CASE k \in 1 .. n
    <3>1. k \in Loops(body) /\ pc = "rebuild"
      BY <1>4, <1>5, <2>1, <2>4 DEF Loops, Insert
    <3>2. CASE Guarded(body, k, G)
      BY <1>4, <1>5, <2>4, <3>2 DEF Guarded
    <3>3. CASE Pending(k)
      \* The operators of a guard are no loops: nothing is pending here.
      <4>1. PICK j \in 1 .. pos-1 : j >= pos - 3 /\ Guarded(Old.body, j, GIndex(prog))
        BY <3>3 DEF Pending
      <4>2. pos = j+1 \/ pos = j+2 \/ pos = j+3
        BY <1>1, <4>1
      <4> QED
        BY <1>3, <4>1, <4>2 DEF Guarded, I, x
    <3> QED
      BY <3>1, <3>2, <3>3 DEF GuardInv
  <2> QED
    BY <1>4, <2>1, <2>2, <2>3, <2>4
<1> QED
  BY <1>6, <1>7

-----------------------------------------------------------------------------

LEMMA Initially == Init => GuardInv
<1> SUFFICES ASSUME Init PROVE GuardInv
  OBVIOUS
<1>1. pc = "scan" /\ DOMAIN out.funcs = {}
  BY DEF Init
<1> QED
  BY <1>1 DEF Init, GuardInv, GuardTypes

LEMMA Preserved == GuardInv /\ [Next]_vars => GuardInv'
<1> SUFFICES ASSUME GuardInv, [Next]_vars PROVE GuardInv'
  OBVIOUS
<1>0. prog \in Programs /\ prog' = prog
  BY DEF GuardInv, GuardTypes, Next, vars, Unchanged, Import, Copy, Insert, EndBody, Instantiate, Execute
<1> USE <1>0
<1>1. CASE Unchanged
  <2>1. /\ pc' = "done" /\ out' = prog /\ counter' = counter /\ AllGuarded(prog)
    BY <1>1 DEF Unchanged
  <2>2. ASSUME NEW f \in DOMAIN prog.funcs PROVE LoopsGuarded(prog.funcs[f].body, GIndex(prog))
    BY <2>1 DEF AllGuarded, Unguarded, LoopsGuarded
  <2>4. GuardTypes'
    BY <2>1 DEF GuardInv, GuardTypes
  <2> QED
    BY <2>1, <2>2, <2>4 DEF GuardInv, LoopsGuarded
<1>2. CASE Import
  <2>1. /\ pc' = "rebuild" /\ at' = Base /\ pos' = 1 /\ body' = <<>> /\ counter' = counter
        /\ out' = [imports |-> IF GIndex(prog) = None THEN Append(prog.imports, GImport)
                                                      ELSE prog.imports,
                   funcs |-> out.funcs, hook |-> FuncMap(prog.hook)]
        /\ DOMAIN out.funcs = {}
    BY <1>2 DEF Import, Base, GuardInv
  <2>2. Base \in DOMAIN prog.funcs
    BY GuardInputs DEF Base
  <2>3. GuardTypes'
    <3>1. out' = [imports |-> out'.imports, funcs |-> out'.funcs, hook |-> out'.hook]
      BY <2>1
    <3>2. 1 \in 1 .. Len(Old.body)' + 1 /\ body' \in Bodies
      BY <2>1, <2>2, OldBody DEF Old, Bodies
    <3> QED
      BY <2>1, <2>2, <3>1, <3>2 DEF GuardInv, GuardTypes
  <2>4. GIndex(out') = G
    <3>1. CASE GIndex(prog) = None
      <4> DEFINE q == out'
      <4>1. q.imports = Append(prog.imports, GImport)
        BY <2>1, <3>1
      <4> HIDE DEF q
      <4>2. GIndex(q) = Len(prog.imports)
        BY <3>1, <4>1, AppendedG
      <4> QED
        BY <3>1, <4>2 DEF G, q
    <3>2. CASE GIndex(prog) # None
      <4> DEFINE q == out'
      <4>1. q.imports = prog.imports
        BY <2>1, <3>2
      <4> HIDE DEF q
      <4>2. GIndex(q) = GIndex(prog)
        BY <4>1, SameG
      <4> QED
        BY <3>2, <4>2 DEF G, q
    <3> QED
      BY <3>1, <3>2
  <2>5. G' = G /\ Loops(<<>>) = {} /\ GIndex(out)' = GIndex(out')
    BY DEF G, Loops
  <2> QED
    BY <2>1, <2>3, <2>4, <2>5 DEF GuardInv
<1>3. CASE Copy
  <2>1. /\ pc = "rebuild" /\ pc' = pc /\ at' = at /\ pos' = pos + 1 /\ out' = out /\ counter' = counter
        /\ pos <= Len(Old.body) /\ body' = Append(body, Translated(Old.body[pos]))
    BY <1>3 DEF Copy
  <2>2. G' = G /\ GIndex(out)' = GIndex(out) /\ Old' = Old
    BY <2>1 DEF G, GIndex, GuardImports, Imports, Old
  <2>3. GuardTypes'
    <3>1. /\ at \in DOMAIN prog.funcs /\ pos \in 1 .. Len(Old.body) + 1 /\ body \in Bodies
      BY <2>1 DEF GuardInv, GuardTypes
    <3>2. Len(Old.body) \in Nat /\ \A k \in 1 .. Len(Old.body) : Old.body[k] \in Operator
      BY <3>1, OldBody DEF Old
    <3>3. pos + 1 \in 1 .. Len(Old.body) + 1 /\ Old.body[pos] \in Operator
      BY <2>1, <3>1, <3>2
    <3>4. body' \in Bodies
      BY <2>1, <3>1, <3>3, TranslatedOp DEF Bodies
    <3> QED
      BY <2>1, <2>2, <3>1, <3>3, <3>4 DEF GuardInv, GuardTypes
  <2>4. \A k \in Loops(body') : Guarded(body', k, G) \/ Pending(k)'
    BY <1>3, Copied
  <2> QED
    BY <2>1, <2>2, <2>3, <2>4 DEF GuardInv
<1>4. CASE Insert
  <2>1. /\ pc = "rebuild" /\ pc' = pc /\ at' = at /\ pos' = pos + 1 /\ out' = out /\ counter' = counter + 1
        /\ pos <= Len(Old.body) /\ body' = body \o <<Old.body[pos]>> \o Prologue(counter)
    BY <1>4 DEF Insert
  <2>2. G' = G /\ GIndex(out)' = GIndex(out) /\ Old' = Old
    BY <2>1 DEF G, GIndex, GuardImports, Imports, Old
  <2>3. GuardTypes'
    <3>1. /\ at \in DOMAIN prog.funcs /\ pos \in 1 .. Len(Old.body) + 1 /\ body \in Bodies
          /\ counter \in Nat
      BY <2>1 DEF GuardInv, GuardTypes
    <3>2. Len(Old.body) \in Nat /\ \A k \in 1 .. Len(Old.body) : Old.body[k] \in Operator
      BY <3>1, OldBody DEF Old
    <3>3. pos + 1 \in 1 .. Len(Old.body) + 1 /\ Old.body[pos] \in Operator /\ counter + 1 \in Nat
      BY <2>1, <3>1, <3>2
    <3>4. Prologue(counter) \in Bodies
      <4>1. G \in Nat /\ AutoBase + counter \in Nat /\ MaxIter \in Nat
        BY <3>1, IndexTypes, GuardParameters
      <4>2. {"const", "call", "drop"} \subseteq Ops
        BY DEF Ops
      <4> QED
        BY <4>1, <4>2 DEF Prologue, I, Bodies, Operator
    <3>5. <<Old.body[pos]>> \in Bodies
      BY <3>3 DEF Bodies
    <3>6. body \o <<Old.body[pos]>> \in Bodies
      BY <3>1, <3>5, ConcatProperties DEF Bodies
    <3>7. body' \in Bodies
      BY <2>1, <3>4, <3>6, ConcatProperties DEF Bodies
    <3> QED
      BY <2>1, <2>2, <3>1, <3>3, <3>7 DEF GuardInv, GuardTypes
  <2>4. \A k \in Loops(body') : Guarded(body', k, G) \/ Pending(k)'
    BY <1>4, Spliced
  <2> QED
    BY <2>1, <2>2, <2>3, <2>4 DEF GuardInv
<1>5. CASE EndBody
  <2> DEFINE new == [Old EXCEPT !.body = body]
             fs == [f \in DOMAIN out.funcs \cup {NewIndex(at)} |->
                      IF f = NewIndex(at) THEN new ELSE out.funcs[f]]
  <2>1. /\ pc = "rebuild" /\ pos > Len(Old.body) /\ out' = [out EXCEPT !.funcs = fs]
        /\ IF at + 1 \in DOMAIN prog.funcs THEN at' = at + 1 /\ pos' = 1 /\ pc' = pc
                                           ELSE at' = None /\ pos' = 0 /\ pc' = "done"
        /\ body' = <<>> /\ counter' = counter
    BY <1>5 DEF EndBody, WithBody
  <2>2. /\ at \in DOMAIN prog.funcs /\ pos = Len(Old.body) + 1 /\ body \in Bodies
        /\ Len(Old.body) \in Nat
        /\ out = [imports |-> out.imports, funcs |-> out.funcs, hook |-> out.hook]
    <3>1. at \in DOMAIN prog.funcs
      BY <2>1 DEF GuardInv, GuardTypes
    <3>2. Len(Old.body) \in Nat
      BY <3>1, OldBody DEF Old
    <3> QED
      BY <2>1, <3>1, <3>2 DEF GuardInv, GuardTypes
  <2>3. new.body = body
    BY <2>2, GuardInputs DEF Old, Function
  <2>4. LoopsGuarded(body, G)
    \* A guard of the old body does not run past its end.
    <3>1. ASSUME NEW k \in Loops(body), Pending(k) PROVE FALSE
      BY <2>2, <3>1 DEF Pending, Guarded
    <3> QED
      BY <2>1, <3>1 DEF GuardInv, LoopsGuarded
  <2>5. \A f \in DOMAIN fs : LoopsGuarded(fs[f].body, G)
    <3>1. ASSUME NEW f \in DOMAIN fs PROVE fs[f] = new \/ (f \in DOMAIN out.funcs /\ fs[f] = out.funcs[f])
      OBVIOUS
    <3> HIDE DEF fs, new
    <3> QED
      BY <2>1, <2>3, <2>4, <3>1 DEF GuardInv
  <2> HIDE DEF fs, new
  <2>6. out' = [imports |-> out.imports, funcs |-> fs, hook |-> out.hook]
    BY <2>1, <2>2
  <2>7. out'.funcs = fs /\ out'.imports = out.imports
    BY <2>6
  <2>8. G' = G /\ GIndex(out)' = G
    <3>1. GIndex(out') = GIndex(out) /\ G' = G
      BY <2>7, SameG DEF G
    <3>2. GIndex(out) = G
      BY <2>1 DEF GuardInv
    <3> QED
      BY <3>1, <3>2
  <2>9. \A f \in DOMAIN out'.funcs : LoopsGuarded(out'.funcs[f].body, G)
    BY <2>5, <2>7
  <2>10. GuardTypes'
    <3>1. CASE at + 1 \in DOMAIN prog.funcs
      <4>1. 1 \in 1 .. Len(Old.body)' + 1 /\ body' \in Bodies
        BY <2>1, <3>1, OldBody DEF Old, Bodies
      <4>2. out' = [imports |-> out'.imports, funcs |-> out'.funcs, hook |-> out'.hook]
        BY <2>6
      <4> QED
        BY <2>1, <3>1, <4>1, <4>2 DEF GuardInv, GuardTypes
    <3>2. CASE at + 1 \notin DOMAIN prog.funcs
      BY <2>1, <3>2 DEF GuardInv, GuardTypes
    <3> QED
      BY <3>1, <3>2
  <2>11. Loops(<<>>) = {}
    BY DEF Loops
  <2> QED
    BY <2>1, <2>8, <2>9, <2>10, <2>11 DEF GuardInv, LoopsGuarded
<1>6. CASE UNCHANGED <<prog, pc, at, pos, body, counter, out>>
  <2>1. Old' = Old /\ G' = G /\ GIndex(out)' = GIndex(out)
    BY <1>6 DEF Old, G, GIndex, GuardImports, Imports
  <2>2. \A k : Pending(k)' <=> Pending(k)
    BY <1>6, <2>1 DEF Pending, Ahead, Translated, FuncMap
  <2>3. GuardTypes'
    BY <1>6, <2>1 DEF GuardInv, GuardTypes
  <2> QED
    BY <1>6, <2>1, <2>2, <2>3 DEF GuardInv
<1> QED
  BY <1>1, <1>2, <1>3, <1>4, <1>5, <1>6 DEF Next, vars, Instantiate, Execute

-----------------------------------------------------------------------------

LEMMA Concludes == GuardInv => ResultGuarded
<1> SUFFICES ASSUME GuardInv, pc = "done" PROVE AllGuarded(out)
  BY DEF ResultGuarded
<1>1. \A f \in DOMAIN out.funcs : LoopsGuarded(out.funcs[f].body, GIndex(out))
  BY DEF GuardInv
<1> QED
  BY <1>1 DEF AllGuarded, Unguarded, LoopsGuarded

\* What auto_guard returns has a guard at the head of every loop, and the
\* guard calls the result's own import of _g.
THEOREM AutoGuardCorrect == Spec => []ResultGuarded
<1>1. Spec => []GuardInv
  BY Initially, Preserved, PTL DEF Spec
<1> QED
  BY <1>1, Concludes, PTL

-----------------------------------------------------------------------------
(* The shape of the output *)

\* Where the operators of function f stand in its rebuilt body: the operator
\* at k, and what follows the operator before it, which is the inserted guard
\* if that is a loop without one.
Shift(p, f, k)   == 4 * Cardinality({l \in Unguarded(p, f) : l < k})
Moved(p, f, k)   == k + Shift(p, f, k)
Landing(p, f, k) == k + Shift(p, f, k-1)

\* The loops that got their guard before the one at k of f.
Before(p, f, k) == {s \in Sites(p) : s[1] < f \/ (s[1] = f /\ s[2] < k)}
GuardId(p, f, k) == AutoBase + Cardinality(Before(p, f, k))

Renumber(p, o, k) == IF k < Len(p.imports) THEN k ELSE k + (Len(o.imports) - Len(p.imports))
Image(p, o, i)    == IF i.op = "call" THEN I("call", Renumber(p, o, i.n)) ELSE i

GuardAt(c, x, id, g) ==
  /\ c[x+1] = I("const", id) /\ c[x+2] = I("const", MaxIter)
  /\ c[x+3] = I("call", g)   /\ c[x+4] = I("drop", 0)

\* c is the body of f up to its operator k-1, each of its loops with a guard.
BuiltTo(p, o, f, c, k) ==
  LET b == p.funcs[f].body IN
  /\ c \in Seq(Operator) /\ Len(c) = Moved(p, f, k) - 1
  /\ \A i \in 1 .. k-1 : c[Moved(p, f, i)] = Image(p, o, b[i])
  /\ \A i \in Unguarded(p, f) : i < k => GuardAt(c, Moved(p, f, i), GuardId(p, f, i), GIndex(o))

Built(p, o, f) ==
  /\ Renumber(p, o, f) \in DOMAIN o.funcs
  /\ LET d == p.funcs[f]
         c == o.funcs[Renumber(p, o, f)] IN
     /\ c.params = d.params /\ c.extra = d.extra /\ c.result = d.result
     /\ BuiltTo(p, o, f, c.body, Len(d.body) + 1)

SameImports(p, o) ==
  /\ Len(o.imports) \in Nat /\ Len(p.imports) <= Len(o.imports)
  /\ \A k \in 1 .. Len(p.imports) : o.imports[k] = p.imports[k]
  /\ Sites(p) # {} => GIndex(o) \in Imports(o) /\ o.imports[GIndex(o) + 1] = GImport

Shaped(p, o) ==
  /\ SameImports(p, o)
  /\ o.hook = Renumber(p, o, p.hook)
  /\ \A f \in DOMAIN p.funcs : Built(p, o, f)

\* While and after auto_guard builds it.
ShapeInv ==
  /\ pc = "scan" => counter = 0
  /\ pc = "rebuild" =>
       /\ SameImports(prog, out)
       /\ Len(out.imports) = Len(prog.imports) + (IF GIndex(prog) = None THEN 1 ELSE 0)
       /\ out.hook = FuncMap(prog.hook)
       /\ counter = Cardinality(Before(prog, at, pos))
       /\ BuiltTo(prog, out, at, body, pos)
       /\ \A f \in DOMAIN prog.funcs : f < at => Built(prog, out, f)
  /\ pc = "done" => Shaped(prog, out)

-----------------------------------------------------------------------------
(* Positions *)

LEMMA CountedParts ==
  ASSUME NEW k \in Nat, NEW S \in SUBSET (1 .. k)
  PROVE  IsFiniteSet(S) /\ Cardinality(S) \in Nat
<1>1. IsFiniteSet(1 .. k) BY FS_Interval
<1>2. IsFiniteSet(S) BY <1>1, FS_Subset
<1> QED BY <1>2, FS_CardinalityType

LEMMA UnguardedLoops ==
  ASSUME NEW p \in Programs, NEW f \in DOMAIN p.funcs
  PROVE  /\ Len(p.funcs[f].body) \in Nat
         /\ Unguarded(p, f) \in SUBSET (1 .. Len(p.funcs[f].body))
         /\ \A k \in Unguarded(p, f) : p.funcs[f].body[k].op = "loop"
<1>1. Len(p.funcs[f].body) \in Nat /\ DOMAIN p.funcs[f].body = 1 .. Len(p.funcs[f].body)
  BY OldBody, LenProperties DEF Bodies
<1> QED BY <1>1 DEF Unguarded, Loops

LEMMA ShiftType ==
  ASSUME NEW p \in Programs, NEW f \in DOMAIN p.funcs, NEW k \in Int
  PROVE  /\ Shift(p, f, k) \in Nat /\ Moved(p, f, k) \in Int /\ Landing(p, f, k) \in Int
         /\ k <= 1 => Shift(p, f, k) = 0
<1> DEFINE n == Len(p.funcs[f].body)
           S(j) == {l \in Unguarded(p, f) : l < j}
<1>1. n \in Nat /\ Unguarded(p, f) \in SUBSET (1 .. n) BY UnguardedLoops
<1>2. ASSUME NEW j \in Int PROVE Cardinality(S(j)) \in Nat
  <2>1. S(j) \in SUBSET (1 .. n) BY <1>1
  <2> QED BY <1>1, <2>1, CountedParts
<1>3. Cardinality(S(k)) \in Nat /\ Cardinality(S(k-1)) \in Nat BY <1>2
<1>4. k <= 1 => S(k) = {} BY <1>1
<1>5. k <= 1 => Cardinality(S(k)) = 0 BY <1>4, FS_EmptySet
<1>6. Shift(p, f, k) = 4 * Cardinality(S(k)) /\ Shift(p, f, k-1) = 4 * Cardinality(S(k-1))
  BY DEF Shift
<1> HIDE DEF S
<1>7. Shift(p, f, k) \in Nat /\ Shift(p, f, k-1) \in Nat /\ (k <= 1 => Shift(p, f, k) = 0)
  BY <1>3, <1>5, <1>6
<1> QED BY <1>7 DEF Moved, Landing

LEMMA ShiftStep ==
  ASSUME NEW p \in Programs, NEW f \in DOMAIN p.funcs, NEW k \in Int
  PROVE  Shift(p, f, k+1) = Shift(p, f, k) + (IF k \in Unguarded(p, f) THEN 4 ELSE 0)
<1> DEFINE n == Len(p.funcs[f].body)
           S == {l \in Unguarded(p, f) : l < k}
           T == {l \in Unguarded(p, f) : l < k+1}
<1>1. n \in Nat /\ Unguarded(p, f) \in SUBSET (1 .. n) BY UnguardedLoops
<1>2. S \in SUBSET (1 .. n) /\ k \notin S BY <1>1
<1>3. T = IF k \in Unguarded(p, f) THEN S \cup {k} ELSE S BY <1>1
<1>4. Shift(p, f, k+1) = 4 * Cardinality(T) /\ Shift(p, f, k) = 4 * Cardinality(S) BY DEF Shift
<1> HIDE DEF S, T
<1>5. IsFiniteSet(S) /\ Cardinality(S) \in Nat BY <1>1, <1>2, CountedParts
<1>6. Cardinality(S \cup {k}) = Cardinality(S) + 1 BY <1>2, <1>5, FS_AddElement
<1> QED BY <1>3, <1>4, <1>5, <1>6

\* The place behind an operator is where control lands; the next operator is
\* there too, or four further.
LEMMA NextPlace ==
  ASSUME NEW p \in Programs, NEW f \in DOMAIN p.funcs, NEW k \in Int
  PROVE  /\ Landing(p, f, k+1) = Moved(p, f, k) + 1
         /\ Moved(p, f, k+1) = Landing(p, f, k+1) + (IF k \in Unguarded(p, f) THEN 4 ELSE 0)
         /\ k <= 1 => Moved(p, f, k) = k
<1>1. Shift(p, f, k) \in Nat /\ Shift(p, f, k+1) \in Nat /\ (k <= 1 => Shift(p, f, k) = 0) BY ShiftType
<1>2. Shift(p, f, k+1) = Shift(p, f, k) + (IF k \in Unguarded(p, f) THEN 4 ELSE 0) BY ShiftStep
<1>3. (k+1)-1 = k OBVIOUS
<1> QED BY <1>1, <1>2, <1>3 DEF Landing, Moved

LEMMA ShiftGrows ==
  ASSUME NEW p \in Programs, NEW f \in DOMAIN p.funcs, NEW i \in Int, NEW k \in Int, i <= k
  PROVE  Shift(p, f, i) <= Shift(p, f, k)
<1> DEFINE n == Len(p.funcs[f].body)
           S == {l \in Unguarded(p, f) : l < i}
           T == {l \in Unguarded(p, f) : l < k}
<1>1. n \in Nat /\ Unguarded(p, f) \in SUBSET (1 .. n) BY UnguardedLoops
<1>2. S \in SUBSET T /\ T \in SUBSET (1 .. n) /\ S \in SUBSET (1 .. n) BY <1>1
<1>3. Shift(p, f, i) = 4 * Cardinality(S) /\ Shift(p, f, k) = 4 * Cardinality(T) BY DEF Shift
<1> HIDE DEF S, T
<1>4. IsFiniteSet(T) /\ Cardinality(T) \in Nat /\ Cardinality(S) \in Nat BY <1>1, <1>2, CountedParts
<1>5. Cardinality(S) <= Cardinality(T) BY <1>2, <1>4, FS_Subset
<1> QED BY <1>3, <1>4, <1>5

LEMMA PlacesGrow ==
  ASSUME NEW p \in Programs, NEW f \in DOMAIN p.funcs, NEW i \in Int, NEW k \in Int, i < k
  PROVE  /\ Moved(p, f, i) < Moved(p, f, k)
         /\ i \in Unguarded(p, f) => Moved(p, f, i) + 4 < Moved(p, f, k)
<1>1. Shift(p, f, i+1) <= Shift(p, f, k) BY ShiftGrows
<1>2. Shift(p, f, i+1) = Shift(p, f, i) + (IF i \in Unguarded(p, f) THEN 4 ELSE 0) BY ShiftStep
<1>3. Shift(p, f, i) \in Nat /\ Shift(p, f, i+1) \in Nat /\ Shift(p, f, k) \in Nat BY ShiftType
<1> QED BY <1>1, <1>2, <1>3 DEF Moved

-----------------------------------------------------------------------------
(* Ids *)

LEMMA FiniteSites ==
  ASSUME NEW p \in Programs
  PROVE  /\ IsFiniteSet(Sites(p)) /\ Cardinality(Sites(p)) \in Nat
         /\ \A T \in SUBSET Sites(p) : IsFiniteSet(T) /\ Cardinality(T) \in Nat
<1> DEFINE D == DOMAIN p.funcs
           g == [f \in D |-> {f} \X Unguarded(p, f)]
           T == {g[f] : f \in D}
<1>1. IsFiniteSet(D) BY GuardInputs
<1>2. IsFiniteSet(T)
  <2>1. g \in [D -> T] /\ \A t \in T : \E f \in D : g[f] = t OBVIOUS
  <2>2. g \in Surjection(D, T) BY <2>1, Fun_IsSurj
  <2> HIDE DEF g, T
  <2> QED BY <1>1, <2>2, FS_Surjection
<1>3. ASSUME NEW t \in T PROVE IsFiniteSet(t)
  <2>1. PICK f \in D : t = {f} \X Unguarded(p, f) OBVIOUS
  <2>2. IsFiniteSet({f}) BY FS_Singleton
  <2>3. IsFiniteSet(Unguarded(p, f)) BY UnguardedLoops, CountedParts
  <2> QED BY <2>1, <2>2, <2>3, FS_Product
<1>4. Sites(p) = UNION T BY DEF Sites
<1> HIDE DEF T
<1>5. IsFiniteSet(Sites(p)) BY <1>2, <1>3, <1>4, FS_UNION
<1>6. ASSUME NEW R \in SUBSET Sites(p) PROVE IsFiniteSet(R) /\ Cardinality(R) \in Nat
  <2>1. IsFiniteSet(R) BY <1>5, FS_Subset
  <2> QED BY <2>1, FS_CardinalityType
<1> QED BY <1>5, <1>6, FS_CardinalityType

LEMMA SiteOf ==
  ASSUME NEW p, NEW s
  PROVE  s \in Sites(p) <=> \E f \in DOMAIN p.funcs : \E k \in Unguarded(p, f) : s = <<f, k>>
BY DEF Sites

LEMMA SiteParts ==
  ASSUME NEW p \in Programs, NEW s \in Sites(p)
  PROVE  s = <<s[1], s[2]>> /\ s[1] \in DOMAIN p.funcs /\ s[1] \in Nat
         /\ s[2] \in Unguarded(p, s[1]) /\ s[2] \in Nat
<1>1. PICK f \in DOMAIN p.funcs : \E k \in Unguarded(p, f) : s = <<f, k>> BY SiteOf
<1>2. PICK k \in Unguarded(p, f) : s = <<f, k>> BY <1>1
<1>3. s[1] = f /\ s[2] = k BY <1>2
<1>4. Unguarded(p, f) \subseteq Nat BY UnguardedLoops
<1>5. f \in Nat
  <2>1. DOMAIN p.funcs = Len(p.imports) .. Len(p.imports) + Cardinality(DOMAIN p.funcs) - 1
        /\ IsFiniteSet(DOMAIN p.funcs)
    BY GuardInputs
  <2>2. Len(p.imports) \in Nat BY ImportsOf
  <2>3. Cardinality(DOMAIN p.funcs) \in Nat BY <2>1, FS_CardinalityType
  <2> QED BY <2>1, <2>2, <2>3
<1> QED BY <1>2, <1>3, <1>4, <1>5

\* The loop at k is before those behind it.
LEMMA BeforeStep ==
  ASSUME NEW p \in Programs, NEW f \in DOMAIN p.funcs, NEW k \in Int
  PROVE  /\ k \in Unguarded(p, f) => Cardinality(Before(p, f, k+1)) = Cardinality(Before(p, f, k)) + 1
         /\ k \notin Unguarded(p, f) => Before(p, f, k+1) = Before(p, f, k)
<1>1. Before(p, f, k) \in SUBSET Sites(p) /\ Before(p, f, k+1) \in SUBSET Sites(p) BY DEF Before
<1>2. IsFiniteSet(Before(p, f, k)) BY <1>1, FiniteSites
<1>3. ASSUME NEW s \in Before(p, f, k+1), s # <<f, k>> PROVE s \in Before(p, f, k)
  <2>1. s \in Sites(p) /\ s[1] \in Nat /\ s[2] \in Nat /\ s = <<s[1], s[2]>> BY <1>1, SiteParts
  <2>2. s[1] < f \/ (s[1] = f /\ s[2] < k+1) BY DEF Before
  <2>3. s[1] = f => s[2] # k BY <1>3, <2>1
  <2>4. s[1] < f \/ (s[1] = f /\ s[2] < k) BY <2>1, <2>2, <2>3
  <2> QED BY <2>1, <2>4 DEF Before
<1>4. Before(p, f, k) \subseteq Before(p, f, k+1)
  <2>1. ASSUME NEW s \in Before(p, f, k) PROVE s \in Before(p, f, k+1)
    <3>1. s \in Sites(p) /\ s[2] \in Nat BY <1>1, SiteParts
    <3> QED BY <3>1 DEF Before
  <2> QED BY <2>1
<1>5. CASE k \in Unguarded(p, f)
  <2> DEFINE x == <<f, k>>
  <2>1. x \in Sites(p) /\ x[1] = f /\ x[2] = k BY <1>5, SiteOf
  <2>1a. f \in Nat BY <2>1, SiteParts
  <2>2. x \in Before(p, f, k+1) /\ x \notin Before(p, f, k) BY <2>1, <2>1a DEF Before
  <2>3. Before(p, f, k+1) = Before(p, f, k) \cup {x} BY <1>3, <1>4, <2>2
  <2> HIDE DEF x
  <2>4. Cardinality(Before(p, f, k) \cup {x}) = Cardinality(Before(p, f, k)) + 1
    BY <1>2, <2>2, FS_AddElement
  <2> QED BY <1>5, <2>3, <2>4
<1>6. CASE k \notin Unguarded(p, f)
  <2>1. <<f, k>> \notin Before(p, f, k+1)
    <3>1. <<f, k>> \in Sites(p) => <<f, k>>[2] \in Unguarded(p, <<f, k>>[1]) BY SiteParts
    <3> QED BY <1>1, <1>6, <3>1
  <2> QED BY <1>3, <1>4, <1>6, <2>1
<1> QED BY <1>5, <1>6

LEMMA BeforeNext ==
  ASSUME NEW p \in Programs, NEW f \in DOMAIN p.funcs
  PROVE  /\ Before(p, f + 1, 1) = Before(p, f, Len(p.funcs[f].body) + 1)
         /\ Before(p, Len(p.imports), 1) = {}
<1>0. f \in Nat /\ Len(p.imports) \in Nat /\ \A g \in DOMAIN p.funcs : g \in Nat /\ g >= Len(p.imports)
  <2>1. DOMAIN p.funcs = Len(p.imports) .. Len(p.imports) + Cardinality(DOMAIN p.funcs) - 1
        /\ IsFiniteSet(DOMAIN p.funcs)
    BY GuardInputs
  <2>2. Len(p.imports) \in Nat BY ImportsOf
  <2>3. Cardinality(DOMAIN p.funcs) \in Nat BY <2>1, FS_CardinalityType
  <2> QED BY <2>1, <2>2, <2>3
<1>1. ASSUME NEW s \in Sites(p)
      PROVE  /\ (s[1] < f + 1 \/ (s[1] = f + 1 /\ s[2] < 1))
                <=> (s[1] < f \/ (s[1] = f /\ s[2] < Len(p.funcs[f].body) + 1))
             /\ ~(s[1] < Len(p.imports) \/ (s[1] = Len(p.imports) /\ s[2] < 1))
  <2>1. s[1] \in DOMAIN p.funcs /\ s[1] \in Nat /\ s[2] \in Unguarded(p, s[1]) BY SiteParts
  <2>2. s[2] \in 1 .. Len(p.funcs[s[1]].body) /\ Len(p.funcs[s[1]].body) \in Nat BY <2>1, UnguardedLoops
  <2> DEFINE n == Len(p.funcs[s[1]].body)
             k == s[2]
  <2>2a. k \in 1 .. n /\ n \in Nat BY <2>2
  <2> HIDE DEF n, k
  <2>2b. k \in Nat /\ k >= 1 /\ k < n + 1 BY <2>2a
  <2>3. s[2] \in Nat /\ s[2] >= 1 /\ s[2] < Len(p.funcs[s[1]].body) + 1 BY <2>2b DEF n, k
  <2> QED BY <1>0, <2>1, <2>3
<1>2. Before(p, f + 1, 1) = Before(p, f, Len(p.funcs[f].body) + 1) BY <1>1 DEF Before
<1>3. Before(p, Len(p.imports), 1) = {} BY <1>1 DEF Before
<1> QED BY <1>2, <1>3

LEMMA GuardIdsApart ==
  ASSUME NEW p \in Programs, NEW s \in Sites(p)
  PROVE  /\ GuardId(p, s[1], s[2]) \in AutoBase .. UserBase-1
         /\ \A t \in Sites(p) : GuardId(p, s[1], s[2]) = GuardId(p, t[1], t[2]) => s = t
<1> DEFINE B(t) == Before(p, t[1], t[2])
<1>1. ASSUME NEW t \in Sites(p)
      PROVE  B(t) \in SUBSET Sites(p) /\ t \notin B(t) /\ IsFiniteSet(B(t)) /\ Cardinality(B(t)) \in Nat
  <2>1. B(t) \in SUBSET Sites(p) BY DEF Before
  <2>2. t[1] \in Nat /\ t[2] \in Nat BY SiteParts
  <2>3. t \notin B(t) BY <2>2 DEF Before
  <2> QED BY <2>1, <2>3, FiniteSites
<1>2. ASSUME NEW t \in Sites(p), NEW u \in Sites(p), t # u,
             t[1] < u[1] \/ (t[1] = u[1] /\ t[2] < u[2])
      PROVE  Cardinality(B(t)) < Cardinality(B(u))
  <2>1. t \in B(u) BY <1>2 DEF Before
  <2>2. \A v \in Sites(p) : v[1] \in Nat /\ v[2] \in Nat BY SiteParts
  <2>3. ASSUME NEW v \in B(t) PROVE v \in B(u)
    <3>1. v \in Sites(p) /\ (v[1] < t[1] \/ (v[1] = t[1] /\ v[2] < t[2])) BY DEF Before
    <3>2. v[1] < u[1] \/ (v[1] = u[1] /\ v[2] < u[2])
      <4>1. v[1] \in Nat /\ v[2] \in Nat /\ t[1] \in Nat /\ t[2] \in Nat /\ u[1] \in Nat /\ u[2] \in Nat
        BY <2>2, <3>1
      <4> QED BY <1>2, <3>1, <4>1
    <3> QED BY <3>1, <3>2 DEF Before
  <2>4. B(t) \cup {t} \in SUBSET B(u) BY <2>1, <2>3
  <2> HIDE DEF B
  <2>5. Cardinality(B(t) \cup {t}) = Cardinality(B(t)) + 1 BY <1>1, FS_AddElement
  <2>6. Cardinality(B(t) \cup {t}) <= Cardinality(B(u)) BY <1>1, <2>4, FS_Subset
  <2> QED BY <1>1, <2>5, <2>6
<1>3. Cardinality(B(s)) < Cardinality(Sites(p))
  <2>1. B(s) \cup {s} \in SUBSET Sites(p) BY <1>1
  <2> HIDE DEF B
  <2>2. Cardinality(B(s) \cup {s}) = Cardinality(B(s)) + 1 BY <1>1, FS_AddElement
  <2>3. Cardinality(B(s) \cup {s}) <= Cardinality(Sites(p)) BY <2>1, FiniteSites, FS_Subset
  <2> QED BY <1>1, <2>2, <2>3, FiniteSites
<1>4. GuardId(p, s[1], s[2]) \in AutoBase .. UserBase-1
  <2>1. Cardinality(Sites(p)) <= UserBase - AutoBase BY GuardRoom
  <2>2. GuardId(p, s[1], s[2]) = AutoBase + Cardinality(B(s)) BY DEF GuardId
  <2> HIDE DEF B
  <2>3. Cardinality(B(s)) \in Nat /\ Cardinality(Sites(p)) \in Nat BY <1>1, FiniteSites
  <2> QED BY <1>3, <2>1, <2>2, <2>3, GuardParameters
<1>5. ASSUME NEW t \in Sites(p), GuardId(p, s[1], s[2]) = GuardId(p, t[1], t[2]) PROVE s = t
  <2>1. GuardId(p, s[1], s[2]) = AutoBase + Cardinality(B(s))
        /\ GuardId(p, t[1], t[2]) = AutoBase + Cardinality(B(t))
    BY DEF GuardId
  <2> HIDE DEF B
  <2>1a. Cardinality(B(s)) \in Nat /\ Cardinality(B(t)) \in Nat BY <1>1
  <2>1b. AutoBase + Cardinality(B(s)) = AutoBase + Cardinality(B(t)) BY <1>5, <2>1
  <2>1c. AutoBase \in Int BY GuardParameters
  <2>2. Cardinality(B(s)) = Cardinality(B(t)) BY <2>1a, <2>1b, <2>1c
  <2>3. ~(Cardinality(B(s)) < Cardinality(B(t))) /\ ~(Cardinality(B(t)) < Cardinality(B(s)))
    BY <2>1a, <2>2
  <2>4. s[1] \in Nat /\ s[2] \in Nat /\ t[1] \in Nat /\ t[2] \in Nat
        /\ s = <<s[1], s[2]>> /\ t = <<t[1], t[2]>>
    BY SiteParts
  <2>5. ~(s[1] < t[1] \/ (s[1] = t[1] /\ s[2] < t[2])) /\ ~(t[1] < s[1] \/ (t[1] = s[1] /\ t[2] < s[2]))
    BY <1>2, <2>3, <2>4
  <2>6. s[1] = t[1] /\ s[2] = t[2] BY <2>4, <2>5
  <2> QED BY <2>4, <2>6
<1> QED BY <1>4, <1>5

-----------------------------------------------------------------------------
(* The invariant of the transformation *)

\* One operator with the four of its guard.
LEMMA SplicedBody ==
  ASSUME NEW c \in Bodies, NEW x \in Operator, NEW g \in Bodies, Len(g) = 4
  PROVE  LET n == Len(c)
             u == c \o <<x>> \o g
         IN
         /\ u \in Bodies /\ Len(u) = n + 5 /\ n \in Nat /\ DOMAIN c = 1 .. n /\ DOMAIN u = 1 .. n + 5
         /\ \A i \in 1 .. n : u[i] = c[i]
         /\ u[n+1] = x /\ u[n+2] = g[1] /\ u[n+3] = g[2] /\ u[n+4] = g[3] /\ u[n+5] = g[4]
<1> DEFINE n == Len(c)
           h == c \o <<x>>
<1>0. n \in Nat /\ DOMAIN c = 1 .. n BY LenProperties DEF Bodies
<1>1. <<x>> \in Bodies /\ Len(<<x>>) = 1 /\ <<x>>[1] = x BY DEF Bodies
<1>2. /\ h \in Bodies /\ Len(h) = n + 1
      /\ \A i \in 1 .. n+1 : h[i] = IF i <= n THEN c[i] ELSE <<x>>[i - n]
  BY <1>1, ConcatProperties DEF Bodies
<1>3. h[n+1] = x /\ \A i \in 1 .. n : h[i] = c[i] BY <1>0, <1>1, <1>2
<1> HIDE DEF h, n
<1>4. /\ h \o g \in Bodies /\ Len(h \o g) = n + 5
      /\ \A i \in 1 .. n+5 : (h \o g)[i] = IF i <= n+1 THEN h[i] ELSE g[i - (n+1)]
  <2>1. /\ h \o g \in Bodies /\ Len(h \o g) = Len(h) + Len(g)
        /\ \A i \in 1 .. Len(h) + Len(g) : (h \o g)[i] = IF i <= Len(h) THEN h[i] ELSE g[i - Len(h)]
    BY <1>2, ConcatProperties DEF Bodies
  <2>2. Len(h) = n+1 /\ n+1+4 = n+5 BY <1>0, <1>2
  <2> QED BY <2>1, <2>2
<1>5. DOMAIN (h \o g) = 1 .. n+5 BY <1>4, LenProperties DEF Bodies
<1>6. (\A i \in 1 .. n : (h \o g)[i] = c[i]) /\ (h \o g)[n+1] = x BY <1>0, <1>3, <1>4
<1>7. (h \o g)[n+2] = g[1] /\ (h \o g)[n+3] = g[2] /\ (h \o g)[n+4] = g[3] /\ (h \o g)[n+5] = g[4]
  <2>1. ASSUME NEW i \in 1 .. 4 PROVE (h \o g)[n+1+i] = g[i]
    <3> DEFINE m == n+1+i
    <3>1. m \in 1 .. n+5 /\ ~(m <= n+1) /\ m - (n+1) = i BY <1>0
    <3> HIDE DEF m
    <3>2. (h \o g)[m] = g[m - (n+1)] BY <1>4, <3>1
    <3> QED BY <3>1, <3>2 DEF m
  <2>2. n+1+1 = n+2 /\ n+1+2 = n+3 /\ n+1+3 = n+4 /\ n+1+4 = n+5 BY <1>0
  <2>3. 1 \in 1 .. 4 /\ 2 \in 1 .. 4 /\ 3 \in 1 .. 4 /\ 4 \in 1 .. 4 OBVIOUS
  <2>4. (h \o g)[n+1+1] = g[1] /\ (h \o g)[n+1+2] = g[2] /\ (h \o g)[n+1+3] = g[3] /\ (h \o g)[n+1+4] = g[4]
    BY <2>1, <2>3
  <2> QED BY <2>2, <2>4
<1> QED BY <1>0, <1>4, <1>5, <1>6, <1>7 DEF h, n

LEMMA ImportsDecide ==
  ASSUME NEW p, NEW o, NEW q, o.imports = q.imports
  PROVE  /\ GIndex(o) = GIndex(q) /\ Imports(o) = Imports(q)
         /\ \A k : Renumber(p, o, k) = Renumber(p, q, k)
         /\ \A f, c, k : BuiltTo(p, o, f, c, k) <=> BuiltTo(p, q, f, c, k)
<1>1. GIndex(o) = GIndex(q) BY SameG
<1>2. \A k : Renumber(p, o, k) = Renumber(p, q, k) BY DEF Renumber
<1>3. \A i : Image(p, o, i) = Image(p, q, i) BY <1>2 DEF Image
<1>4. ASSUME NEW f, NEW c, NEW k PROVE BuiltTo(p, o, f, c, k) <=> BuiltTo(p, q, f, c, k)
  BY <1>1, <1>3 DEF BuiltTo
<1> QED BY <1>1, <1>2, <1>4 DEF Imports

LEMMA FunctionIndex ==
  ASSUME NEW p \in Programs
  PROVE  /\ Len(p.imports) \in Nat /\ Cardinality(DOMAIN p.funcs) \in Nat
         /\ DOMAIN p.funcs = Len(p.imports) .. Len(p.imports) + Cardinality(DOMAIN p.funcs) - 1
         /\ \A f \in DOMAIN p.funcs : f \in Nat /\ f >= Len(p.imports)
         /\ p.hook \in DOMAIN p.funcs
<1>1. DOMAIN p.funcs = Len(p.imports) .. Len(p.imports) + Cardinality(DOMAIN p.funcs) - 1
      /\ IsFiniteSet(DOMAIN p.funcs) /\ p.hook \in DOMAIN p.funcs
  BY GuardInputs
<1>2. Len(p.imports) \in Nat BY ImportsOf
<1>3. Cardinality(DOMAIN p.funcs) \in Nat BY <1>1, FS_CardinalityType
<1> DEFINE n == Len(p.imports)
           c == Cardinality(DOMAIN p.funcs)
<1> HIDE DEF n, c
<1>4. \A f \in n .. n + c - 1 : f \in Nat /\ f >= n BY <1>2, <1>3 DEF n, c
<1>5. \A f \in DOMAIN p.funcs : f \in Nat /\ f >= n BY <1>1, <1>4 DEF n, c
<1> QED BY <1>1, <1>2, <1>3, <1>5 DEF n

\* A module that is returned as it is has the shape too.
LEMMA UnchangedShape == ASSUME NEW p \in Programs, AllGuarded(p) PROVE Shaped(p, p)
<1>0. Len(p.imports) \in Nat BY ImportsOf
<1>1. \A f \in DOMAIN p.funcs : Unguarded(p, f) = {} BY DEF AllGuarded
<1>2. Sites(p) = {} BY <1>1 DEF Sites
<1>3. \A k \in Int : Renumber(p, p, k) = k BY <1>0 DEF Renumber
<1>4. ASSUME NEW i \in Operator PROVE Image(p, p, i) = i
  <2>1. i.n \in Int /\ i = [op |-> i.op, n |-> i.n] BY DEF Operator
  <2>2. Renumber(p, p, i.n) = i.n BY <1>3, <2>1
  <2> QED BY <2>1, <2>2 DEF Image, I
<1>5. ASSUME NEW f \in DOMAIN p.funcs PROVE Built(p, p, f)
  <2> DEFINE b == p.funcs[f].body
             n == Len(b)
  <2>1. f \in Int BY FunctionIndex
  <2>2. Renumber(p, p, f) = f BY <1>3, <2>1
  <2>3. n \in Nat /\ b \in Seq(Operator) /\ \A k \in 1 .. n : b[k] \in Operator BY OldBody DEF Bodies
  <2>4. ASSUME NEW k \in Int PROVE Moved(p, f, k) = k
    <3>1. {l \in Unguarded(p, f) : l < k} = {} BY <1>1
    <3>2. Cardinality({l \in Unguarded(p, f) : l < k}) = 0 BY <3>1, FS_EmptySet
    <3>3. Shift(p, f, k) = 0 BY <3>2 DEF Shift
    <3> QED BY <3>3 DEF Moved
  <2> HIDE DEF b, n
  <2>5. n + 1 \in Int /\ \A i \in 1 .. (n + 1) - 1 : i \in 1 .. n /\ i \in Int BY <2>3
  <2>6. n = Moved(p, f, n + 1) - 1 BY <2>3, <2>4, <2>5
  <2>7. \A i \in 1 .. (n + 1) - 1 : b[Moved(p, f, i)] = Image(p, p, b[i]) BY <1>4, <2>3, <2>4, <2>5
  <2>8. BuiltTo(p, p, f, b, n + 1) BY <1>1, <2>3, <2>6, <2>7 DEF BuiltTo, b, n
  <2> QED BY <2>2, <2>8 DEF Built, b, n
<1>6. p.hook \in Int BY FunctionIndex
<1>7. p.hook = Renumber(p, p, p.hook) BY <1>3, <1>6
<1>8. SameImports(p, p) BY <1>0, <1>2 DEF SameImports
<1> QED BY <1>5, <1>7, <1>8 DEF Shaped

\* The imports of the output.
LEMMA ImportedShape ==
  ASSUME prog \in Programs, Import, GIndex(out') = G
  PROVE  /\ SameImports(prog, out')
         /\ Len(out'.imports) = Len(prog.imports) + (IF GIndex(prog) = None THEN 1 ELSE 0)
<1> DEFINE m == prog.imports
           n == Len(m)
           x == IF GIndex(prog) = None THEN Append(m, GImport) ELSE m
<1>1. out'.imports = x BY DEF Import
<1>2. m \in Seq([name : STRING, params : Nat, result : 0 .. 1, ends : BOOLEAN]) /\ n \in Nat BY ImportsOf
<1>3. CASE GIndex(prog) = None
  <2>1. x = Append(m, GImport) BY <1>3
  <2>2. Len(x) = n + 1 /\ x[n+1] = GImport /\ \A k \in 1 .. n : x[k] = m[k] BY <1>2, <2>1
  <2>3. G = n BY <1>3 DEF G
  <2> HIDE DEF x, n
  <2>4. G \in Imports(out') /\ out'.imports[G + 1] = GImport BY <1>1, <1>2, <2>2, <2>3 DEF Imports
  <2> QED BY <1>1, <1>2, <1>3, <2>2, <2>4 DEF SameImports, n
<1>4. CASE GIndex(prog) # None
  <2>1. x = m /\ G = GIndex(prog) BY <1>4 DEF G
  <2>2. GIndex(prog) \in GuardImports(prog)
    <3>1. GuardImports(prog) # {} BY <1>4 DEF GIndex
    <3>2. GuardImports(prog) \in SUBSET Nat BY ImportsOf DEF GuardImports
    <3>3. \E k \in GuardImports(prog) : \A j \in GuardImports(prog) : k <= j BY <3>1, <3>2, Least
    <3> QED BY <3>1, <3>3 DEF GIndex
  <2>3. GIndex(prog) \in Imports(prog) /\ m[GIndex(prog) + 1] = GImport
    BY <2>2, HostGuard DEF GuardImports
  <2> HIDE DEF x
  <2>4. SameImports(prog, out') BY <1>1, <1>2, <2>1, <2>3 DEF SameImports, Imports
  <2> QED BY <1>1, <1>2, <1>4, <2>1, <2>4
<1> QED BY <1>3, <1>4

\* Renumbering, as auto_guard knows it.
LEMMA RenumberIs ==
  ASSUME NEW p \in Programs, prog = p, NEW o,
         Len(o.imports) = Len(p.imports) + (IF GIndex(p) = None THEN 1 ELSE 0)
  PROVE  /\ \A k \in Int : FuncMap(k) = Renumber(p, o, k)
         /\ \A i \in Operator : Translated(i) = Image(p, o, i)
         /\ \A f \in DOMAIN p.funcs : f - Len(p.imports) + Len(o.imports) = Renumber(p, o, f)
<1> DEFINE n == Len(p.imports)
           m == Len(o.imports)
<1>1. n \in Nat /\ \A f \in DOMAIN p.funcs : f \in Nat /\ f >= n BY FunctionIndex
<1>2. m = n + (IF GIndex(p) = None THEN 1 ELSE 0) OBVIOUS
<1>3. \A k : Renumber(p, o, k) = IF k < n THEN k ELSE k + (m - n) BY DEF Renumber
<1>4. \A k : FuncMap(k) = IF GIndex(p) = None /\ k >= n THEN k + 1 ELSE k BY DEF FuncMap
<1> HIDE DEF n, m
<1>5. ASSUME NEW k \in Int PROVE FuncMap(k) = Renumber(p, o, k) BY <1>1, <1>2, <1>3, <1>4
<1>6. ASSUME NEW i \in Operator PROVE Translated(i) = Image(p, o, i)
  <2>1. i.n \in Int BY DEF Operator
  <2>2. FuncMap(i.n) = Renumber(p, o, i.n) BY <1>5, <2>1
  <2> QED BY <2>2 DEF Translated, Image
<1>7. ASSUME NEW f \in DOMAIN p.funcs PROVE f - n + m = Renumber(p, o, f)
  <2>1. f \in Nat /\ ~(f < n) BY <1>1
  <2>2. Renumber(p, o, f) = f + (m - n) BY <1>3, <2>1
  <2>3. m \in Int BY <1>1, <1>2
  <2> QED BY <1>1, <2>1, <2>2, <2>3
<1> QED BY <1>5, <1>6, <1>7 DEF n, m

\* One operator more, and the guard of a loop that needs one.
LEMMA BuiltStep ==
  ASSUME NEW p \in Programs, NEW f \in DOMAIN p.funcs, NEW k \in 1 .. Len(p.funcs[f].body),
         NEW o, NEW c \in Bodies, NEW u \in Bodies, BuiltTo(p, o, f, c, k),
         Len(u) = Len(c) + (IF k \in Unguarded(p, f) THEN 5 ELSE 1),
         \A i \in 1 .. Len(c) : u[i] = c[i],
         u[Len(c) + 1] = Image(p, o, p.funcs[f].body[k]),
         k \in Unguarded(p, f) => GuardAt(u, Len(c) + 1, GuardId(p, f, k), GIndex(o))
  PROVE  BuiltTo(p, o, f, u, k + 1)
<1> DEFINE b == p.funcs[f].body
           n == Len(c)
           U == Unguarded(p, f)
           M(i) == Moved(p, f, i)
<1>1. k \in Int /\ k \in Nat BY OldBody
<1>2. n \in Nat BY LenProperties DEF Bodies
<1>3. n = M(k) - 1 /\ (\A i \in 1 .. k-1 : c[M(i)] = Image(p, o, b[i]))
      /\ \A i \in U : i < k => GuardAt(c, M(i), GuardId(p, f, i), GIndex(o))
  BY DEF BuiltTo
<1>4. U \in SUBSET Nat BY UnguardedLoops
<1>5. \A i \in Int : M(i) \in Int BY ShiftType
<1>6. \A i \in Nat : 1 <= i => M(i) >= 1
  <2>1. ASSUME NEW i \in Nat, 1 <= i PROVE M(i) >= 1
    <3>1. i \in Int OBVIOUS
    <3>2. Shift(p, f, i) \in Nat BY <3>1, ShiftType
    <3> QED BY <2>1, <3>2 DEF Moved
  <2> HIDE DEF M
  <2> QED BY <2>1
<1>7. M(k+1) = M(k) + (IF k \in U THEN 5 ELSE 1)
  <2>1. M(k+1) = M(k) + 1 + (IF k \in U THEN 4 ELSE 0) BY <1>1, NextPlace
  <2>2. M(k) \in Int BY <1>1, <1>5
  <2> HIDE DEF M, U
  <2> QED BY <2>1, <2>2
<1>8. \A i \in Int : i < k => M(i) < M(k) /\ (i \in U => M(i) + 4 < M(k)) BY <1>1, PlacesGrow
<1>9. n + 1 = M(k)
  <2>1. M(k) \in Int BY <1>1, <1>5
  <2> HIDE DEF M, n
  <2> QED BY <1>2, <1>3, <2>1
<1>10. Len(u) = M(k+1) - 1
  <2>1. M(k) \in Int BY <1>1, <1>5
  <2>2. Len(u) = n + (IF k \in U THEN 5 ELSE 1) OBVIOUS
  <2> HIDE DEF M, n, U
  <2> QED BY <1>2, <1>3, <1>7, <2>1, <2>2
<1> HIDE DEF M, n, U
<1>11. \A i \in 1 .. n : u[i] = c[i] BY DEF n
<1>12. ASSUME NEW i \in 1 .. (k+1)-1 PROVE u[M(i)] = Image(p, o, b[i])
  <2>1. i \in Nat /\ i \in Int /\ i >= 1 BY <1>1
  <2>2. CASE i = k BY <1>9, <2>2 DEF n
  <2>3. CASE i # k
    <3>1. i \in 1 .. k-1 /\ i < k BY <1>1, <2>1, <2>3
    <3>2. M(i) \in 1 .. n
      <4>1. M(i) \in Int /\ M(i) >= 1 /\ M(i) < M(k) BY <1>5, <1>6, <1>8, <2>1, <3>1
      <4>2. M(k) \in Int BY <1>1, <1>5
      <4> QED BY <1>2, <1>9, <4>1, <4>2
    <3> QED BY <1>3, <1>11, <3>1, <3>2
  <2> QED BY <2>2, <2>3
<1>13. ASSUME NEW i \in U, i < k+1 PROVE GuardAt(u, M(i), GuardId(p, f, i), GIndex(o))
  <2>1. i \in Int /\ i \in Nat BY <1>4
  <2>2. CASE i = k BY <1>9, <2>2 DEF n, U
  <2>3. CASE i # k
    <3>1. i < k BY <1>1, <1>13, <2>1, <2>3
    <3>2. M(i) \in Int /\ M(k) \in Int /\ M(i) + 4 < M(k) BY <1>1, <1>5, <1>8, <2>1, <3>1
    <3>3. i >= 1 BY UnguardedLoops DEF U
    <3>4. M(i) >= 1 BY <1>6, <2>1, <3>3
    <3>5. M(i)+1 \in 1 .. n /\ M(i)+2 \in 1 .. n /\ M(i)+3 \in 1 .. n /\ M(i)+4 \in 1 .. n
      BY <1>2, <1>9, <3>2, <3>4
    <3>6. GuardAt(c, M(i), GuardId(p, f, i), GIndex(o)) BY <1>3, <3>1
    <3> QED BY <1>11, <3>5, <3>6 DEF GuardAt
  <2> QED BY <2>2, <2>3
<1> QED BY <1>10, <1>12, <1>13 DEF BuiltTo, Bodies, M, U

\* ShapeInv of the next state, in parts.
LEMMA PrimedShape ==
  ASSUME prog' = prog,
         pc' = "scan" => counter' = 0,
         pc' = "rebuild" =>
           /\ SameImports(prog, out')
           /\ Len(out'.imports) = Len(prog.imports) + (IF GIndex(prog) = None THEN 1 ELSE 0)
           /\ out'.hook = FuncMap(prog.hook)
           /\ counter' = Cardinality(Before(prog, at', pos'))
           /\ BuiltTo(prog, out', at', body', pos')
           /\ \A f \in DOMAIN prog.funcs : f < at' => Built(prog, out', f),
         pc' = "done" => Shaped(prog, out')
  PROVE  ShapeInv'
<1>1. FuncMap(prog.hook)' = FuncMap(prog.hook) BY DEF FuncMap
<1> QED BY <1>1 DEF ShapeInv

LEMMA ShapeUnchanged == ASSUME GuardInv, Unchanged PROVE ShapeInv'
<1>1. prog \in Programs BY DEF GuardInv, GuardTypes
<1>2. AllGuarded(prog) /\ out' = prog /\ pc' = "done" /\ prog' = prog BY DEF Unchanged
<1>3. Shaped(prog, prog) BY <1>1, <1>2, UnchangedShape
<1> QED BY <1>2, <1>3, PrimedShape

LEMMA ShapeImport == ASSUME GuardInv, GuardInv', ShapeInv, Import PROVE ShapeInv'
<1>1. prog \in Programs BY DEF GuardInv, GuardTypes
<1>2. /\ pc = "scan" /\ pc' = "rebuild" /\ prog' = prog /\ counter' = counter
      /\ at' = Len(prog.imports) /\ pos' = 1 /\ body' = <<>> /\ out'.hook = FuncMap(prog.hook)
  BY DEF Import
<1>3. GIndex(out') = G
  <2>1. G' = G BY <1>2 DEF G
  <2>2. GIndex(out)' = G' BY <1>2 DEF GuardInv
  <2> QED BY <2>1, <2>2
<1>4. /\ SameImports(prog, out')
      /\ Len(out'.imports) = Len(prog.imports) + (IF GIndex(prog) = None THEN 1 ELSE 0)
  BY <1>1, <1>3, ImportedShape
<1>5. counter' = Cardinality(Before(prog, at', pos'))
  <2>1. Before(prog, Len(prog.imports), 1) = {} BY <1>1, FunctionIndex, BeforeNext
  <2>2. counter = 0 BY <1>2 DEF ShapeInv
  <2> QED BY <1>2, <2>1, <2>2, FS_EmptySet
<1>6. BuiltTo(prog, out', at', body', pos')
  <2>1. at' \in DOMAIN prog.funcs
    <3>1. Len(prog.imports) \in DOMAIN prog.funcs BY <1>1, GuardInputs
    <3> QED BY <1>2, <3>1
  <2>2. Moved(prog, at', 1) = 1 BY <1>1, <2>1, NextPlace
  <2>3. \A i \in Unguarded(prog, at') : ~(i < 1) BY <1>1, <2>1, UnguardedLoops
  <2>4. <<>> \in Seq(Operator) /\ Len(<<>>) = 0 OBVIOUS
  <2> QED BY <1>2, <2>2, <2>3, <2>4 DEF BuiltTo
<1>7. \A f \in DOMAIN prog.funcs : ~(f < at')
  <2>1. \A f \in DOMAIN prog.funcs : f \in Nat /\ f >= Len(prog.imports) BY <1>1, FunctionIndex
  <2>2. Len(prog.imports) \in Nat BY <1>1, FunctionIndex
  <2> QED BY <1>2, <2>1, <2>2
<1> QED BY <1>2, <1>4, <1>5, <1>6, <1>7, PrimedShape

\* What the steps of a rebuild rely on.
LEMMA Rebuilding ==
  ASSUME GuardInv, ShapeInv, pc = "rebuild"
  PROVE  /\ prog \in Programs /\ at \in DOMAIN prog.funcs /\ pos \in 1 .. Len(Old.body) + 1
         /\ body \in Bodies /\ counter \in Nat /\ GIndex(out) = G /\ pos \in Int
         /\ SameImports(prog, out)
         /\ Len(out.imports) = Len(prog.imports) + (IF GIndex(prog) = None THEN 1 ELSE 0)
         /\ out.hook = FuncMap(prog.hook)
         /\ counter = Cardinality(Before(prog, at, pos))
         /\ BuiltTo(prog, out, at, body, pos)
         /\ \A f \in DOMAIN prog.funcs : f < at => Built(prog, out, f)
         /\ Len(Old.body) \in Nat /\ \A k \in 1 .. Len(Old.body) : Old.body[k] \in Operator
<1>1. /\ prog \in Programs /\ at \in DOMAIN prog.funcs /\ pos \in 1 .. Len(Old.body) + 1
      /\ body \in Bodies /\ counter \in Nat /\ GIndex(out) = G
  BY DEF GuardInv, GuardTypes
<1>2. Len(Old.body) \in Nat /\ \A k \in 1 .. Len(Old.body) : Old.body[k] \in Operator
  BY <1>1, OldBody DEF Old
<1>3. pos \in Int BY <1>1, <1>2
<1> QED BY <1>1, <1>2, <1>3 DEF ShapeInv

LEMMA ShapeCopy == ASSUME GuardInv, ShapeInv, Copy PROVE ShapeInv'
<1> DEFINE x == Translated(Old.body[pos])
           u == Append(body, x)
<1>1. /\ pc = "rebuild" /\ pc' = pc /\ prog' = prog /\ at' = at /\ out' = out /\ counter' = counter
      /\ pos' = pos + 1 /\ body' = u /\ pos <= Len(Old.body) /\ pos \notin Unguarded(prog, at)
  BY DEF Copy
<1> USE Rebuilding
<1>2. pos \in 1 .. Len(Old.body) BY <1>1
<1>3. Old.body[pos] \in Operator /\ x = Image(prog, out, Old.body[pos]) BY <1>1, <1>2, RenumberIs
<1>4. x \in Operator BY <1>1, <1>3, TranslatedOp
<1>5. Len(body) \in Nat /\ DOMAIN body = 1 .. Len(body) BY <1>1, LenProperties DEF Bodies
<1> HIDE DEF x
<1>6. u \in Bodies /\ Len(u) = Len(body) + 1 /\ u[Len(body) + 1] = x /\ \A i \in 1 .. Len(body) : u[i] = body[i]
  BY <1>1, <1>4, <1>5, AppendProperties DEF Bodies
<1> HIDE DEF u
<1>7. BuiltTo(prog, out, at, u, pos + 1)
  <2>1. pos \in 1 .. Len(prog.funcs[at].body) BY <1>2 DEF Old
  <2>2. u[Len(body) + 1] = Image(prog, out, prog.funcs[at].body[pos]) BY <1>3, <1>6 DEF Old
  <2> QED BY <1>1, <1>6, <2>1, <2>2, BuiltStep
<1>8. Before(prog, at, pos + 1) = Before(prog, at, pos) BY <1>1, BeforeStep
<1> QED BY <1>1, <1>7, <1>8, PrimedShape

LEMMA ShapeInsert == ASSUME GuardInv, ShapeInv, Insert PROVE ShapeInv'
<1> DEFINE x == Old.body[pos]
           g == Prologue(counter)
           u == body \o <<x>> \o g
<1>1. /\ pc = "rebuild" /\ pc' = pc /\ prog' = prog /\ at' = at /\ out' = out /\ counter' = counter + 1
      /\ pos' = pos + 1 /\ body' = u /\ pos <= Len(Old.body) /\ pos \in Unguarded(prog, at)
  BY DEF Insert
<1>0. prog \in Programs /\ body \in Bodies /\ counter \in Nat /\ at \in DOMAIN prog.funcs BY <1>1, Rebuilding
<1> USE Rebuilding
<1>2. pos \in 1 .. Len(Old.body) BY <1>1
<1>3. x \in Operator /\ x.op = "loop"
  <2>1. x \in Operator BY <1>1, <1>2
  <2>2. prog.funcs[at].body[pos].op = "loop" BY <1>1, UnguardedLoops
  <2> QED BY <2>1, <2>2 DEF Old
<1>4. x = Image(prog, out, x) BY <1>3 DEF Image
<1>5. counter = Cardinality(Before(prog, at, pos)) BY <1>1
<1>6. /\ g \in Bodies /\ Len(g) = 4
      /\ g[1] = I("const", GuardId(prog, at, pos)) /\ g[2] = I("const", MaxIter)
      /\ g[3] = I("call", GIndex(out)) /\ g[4] = I("drop", 0)
  <2>0. 0 \in Nat OBVIOUS
  <2>1a. G \in Nat BY <1>0, <2>0, IndexTypes
  <2>1. G \in Nat /\ AutoBase + counter \in Nat /\ MaxIter \in Nat BY <1>0, <2>1a, GuardParameters
  <2>2. {"const", "call", "drop"} \subseteq Ops BY DEF Ops
  <2>3. GIndex(out) = G BY <1>1
  <2>4. g \in Bodies BY <2>1, <2>2 DEF Prologue, I, Bodies, Operator
  <2> QED BY <1>5, <2>3, <2>4 DEF Prologue, GuardId
<1> HIDE DEF x, g
<1>7. LET n == Len(body) IN
         /\ u \in Bodies /\ Len(u) = n + 5 /\ n \in Nat
         /\ \A i \in 1 .. n : u[i] = body[i]
         /\ u[n+1] = x /\ u[n+2] = g[1] /\ u[n+3] = g[2] /\ u[n+4] = g[3] /\ u[n+5] = g[4]
  <2> DEFINE Lm(c, y, h) ==
        LET n == Len(c)
            v == c \o <<y>> \o h
        IN
         /\ v \in Bodies /\ Len(v) = n + 5 /\ n \in Nat /\ DOMAIN c = 1 .. n /\ DOMAIN v = 1 .. n + 5
         /\ \A i \in 1 .. n : v[i] = c[i]
         /\ v[n+1] = y /\ v[n+2] = h[1] /\ v[n+3] = h[2] /\ v[n+4] = h[3] /\ v[n+5] = h[4]
  <2>1. \A c \in Bodies : \A y \in Operator : \A h \in Bodies : Len(h) = 4 => Lm(c, y, h)
    BY SplicedBody
  <2> HIDE DEF Lm
  <2>2. Lm(body, x, g) BY <1>0, <1>3, <1>6, <2>1
  <2> QED BY <2>2 DEF Lm
<1> HIDE DEF u
<1>8. BuiltTo(prog, out, at, u, pos + 1)
  <2>1. pos \in 1 .. Len(prog.funcs[at].body) BY <1>2 DEF Old
  <2>2. u[Len(body) + 1] = Image(prog, out, prog.funcs[at].body[pos]) BY <1>4, <1>7 DEF Old, x
  <2>3. GuardAt(u, Len(body) + 1, GuardId(prog, at, pos), GIndex(out))
    <3> DEFINE n == Len(body)
    <3>1. n \in Nat BY <1>7
    <3> HIDE DEF n
    <3>2. (n+1)+1 = n+2 /\ (n+1)+2 = n+3 /\ (n+1)+3 = n+4 /\ (n+1)+4 = n+5 BY <3>1
    <3> QED BY <1>6, <1>7, <3>2 DEF GuardAt, n
  <2> QED BY <1>1, <1>7, <2>1, <2>2, <2>3, BuiltStep
<1>9. Cardinality(Before(prog, at, pos + 1)) = Cardinality(Before(prog, at, pos)) + 1 BY <1>1, BeforeStep
<1> QED BY <1>1, <1>8, <1>9, PrimedShape

LEMMA ShapeEnd == ASSUME GuardInv, ShapeInv, EndBody PROVE ShapeInv'
<1> DEFINE old == Old
           new == [old EXCEPT !.body = body]
           j == NewIndex(at)
           fs == [f \in DOMAIN out.funcs \cup {j} |-> IF f = j THEN new ELSE out.funcs[f]]
<1>1. /\ pc = "rebuild" /\ prog' = prog /\ counter' = counter /\ body' = <<>> /\ pos > Len(old.body)
      /\ out' = [out EXCEPT !.funcs = fs]
      /\ IF at + 1 \in DOMAIN prog.funcs THEN at' = at + 1 /\ pos' = 1 /\ pc' = pc
                                         ELSE pc' = "done"
  BY DEF EndBody, WithBody
<1> USE Rebuilding
<1>2. pos = Len(old.body) + 1 /\ old = prog.funcs[at] BY <1>1 DEF Old
<1>3. out = [imports |-> out.imports, funcs |-> out.funcs, hook |-> out.hook]
  BY <1>1 DEF GuardInv, GuardTypes
<1>4. old \in Function BY <1>1, GuardInputs DEF Old
<1>5. new.params = old.params /\ new.extra = old.extra /\ new.result = old.result /\ new.body = body
  BY <1>4 DEF Function
<1>6. fs[j] = new /\ j \in DOMAIN fs /\ DOMAIN out.funcs \subseteq DOMAIN fs
      /\ \A f \in DOMAIN out.funcs : f # j => fs[f] = out.funcs[f]
  OBVIOUS
<1>7. \A f \in DOMAIN prog.funcs : f - Len(prog.imports) + Len(out.imports) = Renumber(prog, out, f)
  BY <1>1, RenumberIs
<1>8. j = Renumber(prog, out, at) BY <1>1, <1>7 DEF NewIndex
<1> HIDE DEF fs, new, old
<1>9. out'.imports = out.imports /\ out'.funcs = fs /\ out'.hook = out.hook BY <1>1, <1>3
<1> DEFINE o == out'
<1>10. /\ GIndex(o) = GIndex(out) /\ Imports(o) = Imports(out)
       /\ \A k : Renumber(prog, o, k) = Renumber(prog, out, k)
       /\ \A f, c, k : BuiltTo(prog, o, f, c, k) <=> BuiltTo(prog, out, f, c, k)
  <2> HIDE DEF o
  <2>1. o.imports = out.imports BY <1>9 DEF o
  <2> QED BY <2>1, ImportsDecide
<1>11. SameImports(prog, o)
  <2>1. SameImports(prog, out) BY <1>1
  <2> QED BY <1>9, <1>10, <2>1 DEF SameImports
<1>12. Built(prog, o, at)
  <2>1. Renumber(prog, o, at) = j /\ o.funcs = fs BY <1>8, <1>9, <1>10
  <2>2. BuiltTo(prog, o, at, body, Len(old.body) + 1) BY <1>1, <1>2, <1>10
  <2> HIDE DEF o, j
  <2> QED BY <1>2, <1>5, <1>6, <2>1, <2>2 DEF Built
<1>13. ASSUME NEW f \in DOMAIN prog.funcs, f < at PROVE Built(prog, o, f)
  <2>1. Built(prog, out, f) BY <1>1, <1>13
  <2> DEFINE y == Renumber(prog, out, f)
  <2>2. y # j
    <3> DEFINE m == Len(prog.imports)
               n == Len(out.imports)
    <3>1. y = f - m + n /\ j = at - m + n BY <1>1, <1>7, <1>8
    <3>2. m \in Nat /\ n \in Nat BY <1>1, FunctionIndex DEF SameImports
    <3>3. f \in Nat /\ at \in Nat BY <1>1, FunctionIndex
    <3> HIDE DEF y, j, m, n
    <3> QED BY <1>13, <3>1, <3>2, <3>3
  <2>3. Renumber(prog, o, f) = y /\ o.funcs = fs BY <1>9, <1>10
  <2>4. y \in DOMAIN out.funcs BY <2>1 DEF Built
  <2>5. fs[y] = out.funcs[y] /\ y \in DOMAIN fs BY <1>6, <2>2, <2>4
  <2> HIDE DEF o, j, y
  <2>6. /\ out.funcs[y].params = prog.funcs[f].params /\ out.funcs[y].extra = prog.funcs[f].extra
        /\ out.funcs[y].result = prog.funcs[f].result
        /\ BuiltTo(prog, out, f, out.funcs[y].body, Len(prog.funcs[f].body) + 1)
    BY <2>1 DEF Built, y
  <2>7. BuiltTo(prog, o, f, out.funcs[y].body, Len(prog.funcs[f].body) + 1) BY <1>10, <2>6
  <2> QED BY <2>3, <2>5, <2>6, <2>7 DEF Built
<1>14. at \in Nat /\ \A f \in DOMAIN prog.funcs : f \in Nat BY <1>1, FunctionIndex
<1>15. CASE at + 1 \in DOMAIN prog.funcs
  <2>1. at' = at + 1 /\ pos' = 1 /\ pc' = "rebuild" BY <1>1, <1>15
  <2>2. counter' = Cardinality(Before(prog, at', pos'))
    <3>1. Before(prog, at + 1, 1) = Before(prog, at, pos) BY <1>1, <1>2, BeforeNext
    <3> QED BY <1>1, <2>1, <3>1
  <2>3. BuiltTo(prog, o, at', body', pos')
    <3>1. prog \in Programs /\ 1 \in Int BY <1>1
    <3>2. Moved(prog, at + 1, 1) = 1 BY <1>15, <3>1, NextPlace
    <3>3. \A i \in Unguarded(prog, at + 1) : ~(i < 1) BY <1>15, <3>1, UnguardedLoops
    <3>4. <<>> \in Seq(Operator) /\ Len(<<>>) = 0 OBVIOUS
    <3> HIDE DEF o
    <3> QED BY <1>1, <2>1, <3>2, <3>3, <3>4 DEF BuiltTo
  <2>4. \A f \in DOMAIN prog.funcs : f < at' => Built(prog, o, f)
    <3>1. ASSUME NEW f \in DOMAIN prog.funcs, f < at + 1 PROVE f = at \/ f < at
      BY <1>14, <3>1
    <3> QED BY <1>12, <1>13, <2>1, <3>1
  <2>5. /\ Len(o.imports) = Len(prog.imports) + (IF GIndex(prog) = None THEN 1 ELSE 0)
        /\ o.hook = FuncMap(prog.hook)
    BY <1>1, <1>9
  <2> QED BY <1>1, <1>11, <2>1, <2>2, <2>3, <2>4, <2>5, PrimedShape
<1>16. CASE at + 1 \notin DOMAIN prog.funcs
  <2>1. pc' = "done" BY <1>1, <1>16
  <2>2. ASSUME NEW f \in DOMAIN prog.funcs PROVE f = at \/ f < at
    <3> DEFINE n == Len(prog.imports)
               c == Cardinality(DOMAIN prog.funcs)
    <3>1. n \in Nat /\ c \in Nat /\ DOMAIN prog.funcs = n .. n + c - 1 BY <1>1, FunctionIndex
    <3> HIDE DEF n, c
    <3>2. at \in n .. n + c - 1 /\ f \in n .. n + c - 1 /\ at + 1 \notin n .. n + c - 1 BY <1>1, <1>16, <3>1
    <3> QED BY <3>1, <3>2
  <2>3. o.hook = Renumber(prog, o, prog.hook)
    <3>1. prog.hook \in Int BY <1>1, FunctionIndex
    <3>2. FuncMap(prog.hook) = Renumber(prog, out, prog.hook) BY <1>1, <3>1, RenumberIs
    <3> QED BY <1>1, <1>9, <1>10, <3>2
  <2>4. Shaped(prog, o) BY <1>11, <1>12, <1>13, <2>2, <2>3 DEF Shaped
  <2> QED BY <1>1, <2>1, <2>4, PrimedShape
<1> QED BY <1>15, <1>16

LEMMA ShapePreserved == ASSUME GuardInv, GuardInv', ShapeInv, [Next]_vars PROVE ShapeInv'
<1>1. CASE UNCHANGED <<prog, pc, at, pos, body, counter, out>>
  <2>1. FuncMap(prog.hook)' = FuncMap(prog.hook) BY <1>1 DEF FuncMap
  <2> QED BY <1>1, <2>1 DEF ShapeInv
<1>2. CASE Unchanged BY <1>2, ShapeUnchanged
<1>3. CASE Import BY <1>3, ShapeImport
<1>4. CASE Copy BY <1>4, ShapeCopy
<1>5. CASE Insert BY <1>5, ShapeInsert
<1>6. CASE EndBody BY <1>6, ShapeEnd
<1> QED BY <1>1, <1>2, <1>3, <1>4, <1>5, <1>6 DEF Next, vars, Instantiate, Execute

\* While and after auto_guard works, each of its functions is the original with
\* a guard of its own inserted at each loop that had none, and with calls
\* renumbered; nothing else is changed.
THEOREM OutputIsGuardedInput == Spec => []ShapeInv
<1>1. Init => ShapeInv BY DEF Init, ShapeInv
<1>2. Spec => []GuardInv BY Initially, Preserved, PTL DEF Spec
<1>3. GuardInv /\ GuardInv' /\ ShapeInv /\ [Next]_vars => ShapeInv' BY ShapePreserved
<1> QED BY <1>1, <1>2, <1>3, PTL DEF Spec

-----------------------------------------------------------------------------
(* Nesting: the inserted operators neither open nor close a construct *)

Change(i) == (IF Opens(i) THEN 1 ELSE 0) - (IF i.op = "end" THEN 1 ELSE 0)

LEMMA ChangeIs == ASSUME NEW i PROVE Change(i) \in {-1, 0, 1} /\ (Change(i) = -1 <=> i.op = "end")
BY DEF Change, Opens

LEMMA DepthSteps ==
  ASSUME NEW b, NEW k \in Nat
  PROVE  /\ Depth(b, 0) = 0 /\ Depth(b, k) \in Int
         /\ k # 0 => Depth(b, k) = Depth(b, k-1) + Change(b[k])
<1> DEFINE A(n) == {j \in 1 .. n : Opens(b[j])}
           E(n) == {j \in 1 .. n : b[j].op = "end"}
<1>1. \A n : Depth(b, n) = Cardinality(A(n)) - Cardinality(E(n)) BY DEF Depth
<1>2. ASSUME NEW n \in Nat
      PROVE  /\ IsFiniteSet(A(n)) /\ IsFiniteSet(E(n)) /\ Cardinality(A(n)) \in Nat /\ Cardinality(E(n)) \in Nat
             /\ n+1 \notin A(n) /\ n+1 \notin E(n)
             /\ A(n+1) = IF Opens(b[n+1]) THEN A(n) \cup {n+1} ELSE A(n)
             /\ E(n+1) = IF b[n+1].op = "end" THEN E(n) \cup {n+1} ELSE E(n)
  <2>1. A(n) \in SUBSET (1 .. n) /\ E(n) \in SUBSET (1 .. n) OBVIOUS
  <2>2. 1 .. n+1 = (1 .. n) \cup {n+1} OBVIOUS
  <2>3. A(n+1) = IF Opens(b[n+1]) THEN A(n) \cup {n+1} ELSE A(n) BY <2>2
  <2>4. E(n+1) = IF b[n+1].op = "end" THEN E(n) \cup {n+1} ELSE E(n) BY <2>2
  <2> HIDE DEF A, E
  <2>5. n+1 \notin A(n) /\ n+1 \notin E(n) BY <2>1
  <2> QED BY <2>1, <2>3, <2>4, <2>5, CountedParts
<1>3. A(0) = {} /\ E(0) = {} OBVIOUS
<1> HIDE DEF A, E
<1>4. Cardinality(A(0)) = 0 /\ Cardinality(E(0)) = 0 BY <1>3, FS_EmptySet
<1>5. ASSUME NEW n \in Nat PROVE Depth(b, n+1) = Depth(b, n) + Change(b[n+1])
  <2>1. Cardinality(A(n) \cup {n+1}) = Cardinality(A(n)) + 1 /\ Cardinality(E(n) \cup {n+1}) = Cardinality(E(n)) + 1
    BY <1>2, FS_AddElement
  <2>2. Depth(b, n+1) = Cardinality(A(n+1)) - Cardinality(E(n+1)) /\ Depth(b, n) = Cardinality(A(n)) - Cardinality(E(n))
    BY <1>1
  <2> DEFINE a == Cardinality(A(n))
             e == Cardinality(E(n))
  <2>3. a \in Nat /\ e \in Nat BY <1>2
  <2>4. /\ Cardinality(A(n+1)) = a + (IF Opens(b[n+1]) THEN 1 ELSE 0)
        /\ Cardinality(E(n+1)) = e + (IF b[n+1].op = "end" THEN 1 ELSE 0)
    <3>1. A(n+1) = (IF Opens(b[n+1]) THEN A(n) \cup {n+1} ELSE A(n)) BY <1>2
    <3>2. E(n+1) = (IF b[n+1].op = "end" THEN E(n) \cup {n+1} ELSE E(n)) BY <1>2
    <3>3. CASE Opens(b[n+1]) /\ b[n+1].op = "end" BY <3>3 DEF Opens
    <3>4. CASE Opens(b[n+1]) /\ b[n+1].op # "end"
      <4>1. A(n+1) = A(n) \cup {n+1} /\ E(n+1) = E(n) BY <3>1, <3>2, <3>4
      <4>2a. Cardinality(A(n+1)) = a + 1 BY <2>1, <4>1
      <4>2b. Cardinality(E(n+1)) = e + 0 BY <2>3, <4>1
      <4>2. Cardinality(A(n+1)) = a + 1 /\ Cardinality(E(n+1)) = e + 0 BY <4>2a, <4>2b
      <4>3. (IF Opens(b[n+1]) THEN 1 ELSE 0) = 1 /\ (IF b[n+1].op = "end" THEN 1 ELSE 0) = 0 BY <3>4
      <4> QED BY <4>2, <4>3
    <3>5. CASE ~Opens(b[n+1]) /\ b[n+1].op = "end"
      <4>1. A(n+1) = A(n) /\ E(n+1) = E(n) \cup {n+1} BY <3>1, <3>2, <3>5
      <4>2. Cardinality(A(n+1)) = a + 0 /\ Cardinality(E(n+1)) = e + 1 BY <2>1, <2>3, <4>1
      <4>3. (IF Opens(b[n+1]) THEN 1 ELSE 0) = 0 /\ (IF b[n+1].op = "end" THEN 1 ELSE 0) = 1 BY <3>5
      <4> QED BY <4>2, <4>3
    <3>6. CASE ~Opens(b[n+1]) /\ b[n+1].op # "end"
      <4>1. A(n+1) = A(n) /\ E(n+1) = E(n) BY <3>1, <3>2, <3>6
      <4>2. Cardinality(A(n+1)) = a + 0 /\ Cardinality(E(n+1)) = e + 0 BY <2>1, <2>3, <4>1
      <4>3. (IF Opens(b[n+1]) THEN 1 ELSE 0) = 0 /\ (IF b[n+1].op = "end" THEN 1 ELSE 0) = 0 BY <3>6
      <4> QED BY <4>2, <4>3
    <3> QED BY <3>3, <3>4, <3>5, <3>6
  <2>5. Depth(b, n) = a - e BY <2>2
  <2> HIDE DEF a, e
  <2> QED BY <2>2, <2>3, <2>4, <2>5 DEF Change
<1>6. k # 0 => Depth(b, k) = Depth(b, k-1) + Change(b[k])
  <2>1. ASSUME k # 0 PROVE Depth(b, k) = Depth(b, k-1) + Change(b[k])
    <3>1. k-1 \in Nat /\ (k-1)+1 = k BY <2>1
    <3> QED BY <1>5, <3>1
  <2> QED BY <2>1
<1>7. Depth(b, 0) = 0 BY <1>1, <1>4
<1>8. Depth(b, k) \in Int
  <2>1. Cardinality(A(k)) \in Nat /\ Cardinality(E(k)) \in Nat BY <1>2
  <2>2. Depth(b, k) = Cardinality(A(k)) - Cardinality(E(k)) BY <1>1
  <2> QED BY <2>1, <2>2
<1> QED BY <1>6, <1>7, <1>8

\* What EndOf chooses.
Ends(b, k, j) ==
  /\ j \in k+1 .. Len(b) /\ b[j].op = "end" /\ Depth(b, j) = Depth(b, k) - 1
  /\ \A i \in k+1 .. j-1 : Depth(b, i) >= Depth(b, k)

LEMMA EndIs ==
  ASSUME NEW b \in Bodies, NEW k \in 1 .. Len(b), NEW j, Ends(b, k, j)
  PROVE  EndOf(b, k) = j /\ j \in k+1 .. Len(b)
<1>1. Len(b) \in Nat /\ k \in Nat BY LenProperties DEF Bodies
<1>2. ASSUME NEW x, NEW y, Ends(b, k, x), Ends(b, k, y), x < y PROVE FALSE
  <2>1. x \in k+1 .. y-1 /\ x \in Nat BY <1>1, <1>2 DEF Ends
  <2>2. Depth(b, x) >= Depth(b, k) /\ Depth(b, x) = Depth(b, k) - 1 BY <1>2, <2>1 DEF Ends
  <2>3. Depth(b, k) \in Int BY <1>1, DepthSteps
  <2> QED BY <2>2, <2>3
<1>3. ASSUME NEW x, Ends(b, k, x) PROVE x = j
  <2>1. x \in Nat /\ j \in Nat BY <1>1, <1>3 DEF Ends
  <2>2. ~(x < j) /\ ~(j < x) BY <1>2, <1>3
  <2> QED BY <2>1, <2>2
<1>4. EndOf(b, k) = CHOOSE x \in k+1 .. Len(b) : Ends(b, k, x) BY DEF EndOf, Ends
<1>5. j \in k+1 .. Len(b) BY DEF Ends
<1> QED BY <1>3, <1>4, <1>5

\* A body: nesting is closed by its last operator only.
Closed(b) == b \in Bodies /\ Len(b) # 0 /\ Depth(b, Len(b)) = -1 /\ \A k \in 1 .. Len(b)-1 : Depth(b, k) >= 0

LEMMA ValidClosed == ASSUME NEW p \in Programs, NEW f \in DOMAIN p.funcs PROVE Closed(p.funcs[f].body)
<1> DEFINE b == p.funcs[f].body
<1>1. b \in Bodies /\ Len(b) \in Nat BY OldBody
<1>2. ValidBody(p.funcs[f], Imports(p) \cup DOMAIN p.funcs) BY GuardInputs
<1>3. b # <<>> /\ Depth(b, Len(b)) = -1 /\ \A k \in 1 .. Len(b)-1 : Depth(b, k) >= 0 BY <1>2 DEF ValidBody
<1> HIDE DEF b
<1>4. Len(b) # 0 BY <1>1, <1>3, EmptySeq DEF Bodies
<1> QED BY <1>1, <1>3, <1>4 DEF Closed, b

LEMMA LastIsEnd ==
  ASSUME NEW b, Closed(b), NEW k \in 1 .. Len(b), b[k].op # "end"
  PROVE  k \in 1 .. Len(b)-1 /\ Depth(b, k) >= 0
<1>1. Len(b) \in Nat /\ Len(b) # 0 /\ k \in Nat BY LenProperties DEF Bodies, Closed
<1>2. CASE k = Len(b)
  <2> DEFINE n == Len(b)
  <2>1. n - 1 \in Nat /\ n - 1 <= n /\ n \in Nat /\ n # 0 BY <1>1
  <2>2. Depth(b, n-1) \in Int /\ Depth(b, 0) = 0 /\ Depth(b, n) = Depth(b, n-1) + Change(b[n])
    BY <2>1, DepthSteps
  <2>3. Depth(b, n) = -1 /\ \A i \in 1 .. n-1 : Depth(b, i) >= 0 BY DEF Closed
  <2> HIDE DEF n
  <2>4. Depth(b, n-1) >= 0
    <3>1. CASE n - 1 = 0 BY <2>2, <3>1
    <3>2. CASE n - 1 # 0 BY <2>1, <2>3, <3>2
    <3> QED BY <3>1, <3>2
  <2>5. Change(b[n]) \in {-1, 0, 1} /\ (Change(b[n]) = -1 <=> b[n].op = "end") BY ChangeIs
  <2>6. Change(b[n]) = -1 BY <2>2, <2>3, <2>4, <2>5
  <2> QED BY <1>2, <2>5, <2>6 DEF n
<1>3. CASE k # Len(b) BY <1>1, <1>3 DEF Closed
<1> QED BY <1>2, <1>3

LEMMA EndExists ==
  ASSUME NEW b, Closed(b), NEW k \in 1 .. Len(b)-1
  PROVE  /\ Ends(b, k, EndOf(b, k)) /\ EndOf(b, k) \in k+1 .. Len(b)
         /\ b[k].op # "loop" => b[EndOf(b, k) - 1].op # "loop"
<1> DEFINE n == Len(b)
           D(j) == Depth(b, j)
           S == {j \in Nat : j > k /\ j <= n /\ D(j) < D(k)}
<1>1. n \in Nat /\ n # 0 /\ k \in Nat /\ k >= 1 /\ k < n /\ b \in Bodies BY LenProperties DEF Bodies, Closed
<1>2. \A j \in Nat : D(j) \in Int /\ (j # 0 => D(j) = D(j-1) + Change(b[j])) BY DepthSteps
<1>3. D(n) = -1 /\ D(k) >= 0
  <2>1. k \in 1 .. n-1 /\ \A i \in 1 .. n-1 : Depth(b, i) >= 0 BY DEF Closed
  <2> QED BY <2>1 DEF Closed
<1>4. \A i : Change(i) \in {-1, 0, 1} /\ (Change(i) = -1 <=> i.op = "end") BY ChangeIs
<1> HIDE DEF D, n
<1>5. n \in S BY <1>1, <1>2, <1>3
<1>6. PICK j \in S : \A i \in S : j <= i
  <2>1. S \in SUBSET Nat /\ S # {} BY <1>5
  <2> HIDE DEF S
  <2> QED BY <2>1, Least
<1>7. \A i \in k .. j-1 : D(i) >= D(k)
  <2>1. ASSUME NEW i \in k .. j-1, i # k PROVE D(i) >= D(k)
    <3>1. i \in Nat /\ i > k /\ i < j /\ i <= n BY <1>1, <1>6, <2>1
    <3>2. i \notin S BY <1>6, <3>1
    <3> QED BY <1>1, <1>2, <3>1, <3>2
  <2>2. D(k) >= D(k) BY <1>1, <1>2
  <2> QED BY <2>1, <2>2
<1>8. j \in Nat /\ j > k /\ j <= n /\ D(j) < D(k) /\ j-1 \in k .. j-1 /\ j-1 \in Nat BY <1>1
<1>9. D(j) = D(j-1) + Change(b[j]) /\ D(j-1) >= D(k) /\ D(j-1) \in Int /\ D(k) \in Int /\ D(j) \in Int
  BY <1>1, <1>2, <1>7, <1>8
<1>10. Change(b[j]) = -1 /\ D(j) = D(k) - 1 /\ D(j-1) = D(k) /\ b[j].op = "end" BY <1>4, <1>8, <1>9
<1>11. Ends(b, k, j)
  <2>1. j \in k+1 .. n BY <1>1, <1>8
  <2>2. \A i \in k+1 .. j-1 : D(i) >= D(k) BY <1>1, <1>7, <1>8
  <2> QED BY <1>10, <2>1, <2>2 DEF Ends, D, n
<1>12. EndOf(b, k) = j /\ j \in k+1 .. Len(b)
  <2>1. k \in 1 .. Len(b) BY <1>1 DEF n
  <2> QED BY <1>1, <1>11, <2>1, EndIs
<1>13. ASSUME b[k].op # "loop", b[j-1].op = "loop" PROVE FALSE
  <2>1. j-1 # k /\ j-1 > k /\ j-2 \in k .. j-1 /\ j-2 \in Nat /\ j-1 # 0 /\ (j-1)-1 = j-2
    BY <1>1, <1>8, <1>13
  <2>2. D(j-1) = D(j-2) + Change(b[j-1]) /\ D(j-2) >= D(k) /\ D(j-2) \in Int BY <1>2, <1>7, <1>8, <2>1
  <2>3. Change(b[j-1]) = 1 BY <1>13 DEF Change, Opens
  <2> QED BY <1>9, <1>10, <2>2, <2>3
<1> QED BY <1>11, <1>12, <1>13

\* Where the operators of a rebuilt body come from.
LEMMA Places ==
  ASSUME NEW p \in Programs, NEW f \in DOMAIN p.funcs, NEW o, NEW c,
         BuiltTo(p, o, f, c, Len(p.funcs[f].body) + 1), NEW k \in 1 .. Len(p.funcs[f].body)
  PROVE  /\ c \in Bodies /\ Len(c) \in Nat /\ Moved(p, f, k) \in 1 .. Len(c)
         /\ c[Moved(p, f, k)] = Image(p, o, p.funcs[f].body[k])
         /\ k \in Unguarded(p, f) =>
              /\ GuardAt(c, Moved(p, f, k), GuardId(p, f, k), GIndex(o))
              /\ \A r \in 1 .. 4 : Moved(p, f, k) + r \in 1 .. Len(c)
<1> DEFINE b == p.funcs[f].body
           n == Len(b)
           M(i) == Moved(p, f, i)
           U == Unguarded(p, f)
<1>1. n \in Nat /\ k \in Int /\ k <= n /\ k >= 1 BY OldBody
<1>2. /\ c \in Bodies /\ Len(c) = M(n+1) - 1 /\ \A i \in 1 .. (n+1)-1 : c[M(i)] = Image(p, o, b[i])
      /\ \A i \in U : i < n+1 => GuardAt(c, M(i), GuardId(p, f, i), GIndex(o))
  BY DEF BuiltTo, Bodies
<1>3. Len(c) \in Nat BY <1>2, LenProperties DEF Bodies
<1>4. M(k) < M(n+1) /\ (k \in U => M(k) + 4 < M(n+1)) BY <1>1, PlacesGrow
<1>5. M(k) \in Int /\ M(n+1) \in Int /\ M(k) >= 1
  <2>1. Shift(p, f, k) \in Nat BY <1>1, ShiftType
  <2>2. M(k) \in Int /\ M(n+1) \in Int BY <1>1, ShiftType
  <2>3. M(k) = k + Shift(p, f, k) BY DEF Moved
  <2> HIDE DEF M
  <2> QED BY <1>1, <2>1, <2>2, <2>3
<1> HIDE DEF M, n, U, b
<1>6. M(k) \in 1 .. Len(c) BY <1>2, <1>3, <1>4, <1>5
<1>7. k \in U => \A r \in 1 .. 4 : M(k) + r \in 1 .. Len(c) BY <1>2, <1>3, <1>4, <1>5
<1>8. k \in 1 .. (n+1)-1 /\ k < n+1 BY <1>1
<1> QED BY <1>2, <1>3, <1>6, <1>7, <1>8 DEF M, n, U, b

\* There are no others.
OfPlace(p, f, k, x) ==
  \/ x = Moved(p, f, k)
  \/ k \in Unguarded(p, f) /\ \E r \in 1 .. 4 : x = Moved(p, f, k) + r

LEMMA Placed ==
  ASSUME NEW p \in Programs, NEW f \in DOMAIN p.funcs, NEW o, NEW c,
         BuiltTo(p, o, f, c, Len(p.funcs[f].body) + 1), NEW x \in 1 .. Len(c)
  PROVE  \E k \in 1 .. Len(p.funcs[f].body) : OfPlace(p, f, k, x)
<1> DEFINE n == Len(p.funcs[f].body)
           M(i) == Moved(p, f, i)
           U == Unguarded(p, f)
           S == {i \in Nat : i >= 1 /\ x < M(i+1)}
<1>1. n \in Nat /\ n # 0
  <2>1. Closed(p.funcs[f].body) BY ValidClosed
  <2> QED BY <2>1, OldBody DEF Closed
<1>2. Len(c) = M(n+1) - 1 /\ Len(c) \in Nat
  <2>1. c \in Seq(Operator) /\ Len(c) = M(n+1) - 1 BY DEF BuiltTo
  <2> QED BY <2>1, LenProperties
<1>3. x \in Nat /\ x >= 1 /\ x < M(n+1)
  <2>1. n+1 \in Int BY <1>1
  <2>2. M(n+1) \in Int BY <2>1, ShiftType
  <2> HIDE DEF M, n
  <2> QED BY <1>2, <2>2
<1>4. n \in S BY <1>1, <1>3
<1>5. PICK k \in S : \A i \in S : k <= i
  <2>1. S \in SUBSET Nat /\ S # {} BY <1>4
  <2> HIDE DEF S
  <2> QED BY <2>1, Least
<1>6. k \in Nat /\ k >= 1 /\ k <= n /\ x < M(k+1) BY <1>4, <1>5
<1>7. M(k) <= x
  <2>1. CASE k = 1
    <3>1. k <= 1 /\ k \in Int BY <2>1
    <3>2. M(k) = k BY <3>1, NextPlace
    <3> QED BY <1>3, <2>1, <3>2
  <2>2. CASE k # 1
    <3>1. k-1 \in Nat /\ k-1 >= 1 /\ (k-1)+1 = k BY <1>6, <2>2
    <3>2. k-1 \notin S BY <1>5, <1>6, <3>1
    <3>3. ~(x < M(k)) BY <3>1, <3>2
    <3>4. k \in Int BY <1>6
    <3>5. M(k) \in Int BY <3>4, ShiftType
    <3> HIDE DEF M
    <3> QED BY <1>3, <3>3, <3>5
  <2> QED BY <2>1, <2>2
<1>8. M(k+1) = M(k) + 1 + (IF k \in U THEN 4 ELSE 0)
  <2>1. k \in Int BY <1>6
  <2> QED BY <2>1, NextPlace
<1>9. M(k) \in Int
  <2>1. k \in Int BY <1>6
  <2> QED BY <2>1, ShiftType
<1> HIDE DEF M, S, U
<1>10. k \in 1 .. n BY <1>1, <1>6
<1>11. CASE k \in U
  <2> DEFINE r == x - M(k)
  <2>1. r \in 0 .. 4 /\ x = M(k) + r BY <1>3, <1>6, <1>7, <1>8, <1>9, <1>11
  <2>2. r = 0 \/ r \in 1 .. 4 BY <2>1
  <2> HIDE DEF r
  <2>3. x = M(k) \/ \E j \in 1 .. 4 : x = M(k) + j BY <1>9, <2>1, <2>2
  <2> QED BY <1>10, <1>11, <2>3 DEF M, U, OfPlace
<1>12. CASE k \notin U
  <2>1. x = M(k) BY <1>3, <1>6, <1>7, <1>8, <1>9, <1>12
  <2> QED BY <1>10, <2>1 DEF M, OfPlace
<1> QED BY <1>11, <1>12

LEMMA ImageOp ==
  ASSUME NEW p, NEW o, NEW i
  PROVE  /\ Image(p, o, i).op = i.op /\ (i.op # "call" => Image(p, o, i) = i)
         /\ Change(Image(p, o, i)) = Change(i)
<1>1. I("call", Renumber(p, o, i.n)).op = "call" BY DEF I
<1>2. Image(p, o, i).op = i.op BY <1>1 DEF Image
<1> QED BY <1>2 DEF Change, Opens, Image

\* The operators of a guard.
LEMMA GuardOps ==
  ASSUME NEW c, NEW x, NEW id, NEW g, GuardAt(c, x, id, g), NEW r \in 1 .. 4
  PROVE  c[x+r].op \in {"const", "call", "drop"} /\ Change(c[x+r]) = 0
<1>1. c[x+1].op = "const" /\ c[x+2].op = "const" /\ c[x+3].op = "call" /\ c[x+4].op = "drop"
  BY DEF GuardAt, I
<1>2. r = 1 \/ r = 2 \/ r = 3 \/ r = 4 OBVIOUS
<1>3. c[x+r].op \in {"const", "call", "drop"} BY <1>1, <1>2
<1> QED BY <1>3 DEF Change, Opens

FlatFrom(c, x) == \A r \in 1 .. 4 : Depth(c, x + r) = Depth(c, x)

LEMMA DepthMoved ==
  ASSUME NEW p \in Programs, NEW f \in DOMAIN p.funcs, NEW o, NEW c,
         BuiltTo(p, o, f, c, Len(p.funcs[f].body) + 1), NEW k \in 1 .. Len(p.funcs[f].body)
  PROVE  /\ Depth(c, Moved(p, f, k)) = Depth(p.funcs[f].body, k)
         /\ k \in Unguarded(p, f) => FlatFrom(c, Moved(p, f, k))
<1> DEFINE b == p.funcs[f].body
           n == Len(b)
           M(i) == Moved(p, f, i)
           U == Unguarded(p, f)
           At(i) == /\ Depth(c, M(i)) = Depth(b, i)
                    /\ i \in U => \A r \in 1 .. 4 : Depth(c, M(i) + r) = Depth(b, i)
           Upto(i) == Depth(c, M(i+1) - 1) = Depth(b, i)
<1>1. n \in Nat /\ k \in Nat BY OldBody
<1>2. \A i \in Int : M(i+1) = M(i) + 1 + (IF i \in U THEN 4 ELSE 0)
  <2>1. ASSUME NEW i \in Int PROVE M(i+1) = M(i) + 1 + (IF i \in U THEN 4 ELSE 0)
    <3>1. Moved(p, f, i+1) = Landing(p, f, i+1) + (IF i \in Unguarded(p, f) THEN 4 ELSE 0)
          /\ Landing(p, f, i+1) = Moved(p, f, i) + 1
      BY NextPlace
    <3> QED BY <3>1
  <2> HIDE DEF M, U
  <2> QED BY <2>1
<1>3. \A i \in 1 .. n : /\ M(i) \in Nat \ {0} /\ c[M(i)] = Image(p, o, b[i])
                        /\ i \in U => GuardAt(c, M(i), GuardId(p, f, i), GIndex(o))
  <2>1. ASSUME NEW i \in 1 .. n PROVE M(i) \in 1 .. Len(c) /\ Len(c) \in Nat /\ c[M(i)] = Image(p, o, b[i])
                        /\ (i \in U => GuardAt(c, M(i), GuardId(p, f, i), GIndex(o)))
    BY Places, Zenon
  <2> HIDE DEF M, U
  <2> QED BY <2>1
<1>4. ASSUME NEW i \in 1 .. n, Upto(i-1) PROVE At(i) /\ Upto(i)
  <2>1. M(i) \in Nat /\ M(i) # 0 /\ c[M(i)] = Image(p, o, b[i]) BY <1>3
  <2>2. i \in Nat /\ i # 0 /\ (i-1)+1 = i BY <1>1
  <2>3. Depth(c, M(i)) = Depth(c, M(i)-1) + Change(c[M(i)]) BY <2>1, DepthSteps
  <2>4. Depth(b, i) = Depth(b, i-1) + Change(b[i]) /\ Depth(b, i) \in Int BY <2>2, DepthSteps
  <2>5. Change(c[M(i)]) = Change(b[i]) BY <2>1, ImageOp
  <2>6. Depth(c, M(i)-1) = Depth(b, i-1) BY <1>4, <2>2
  <2>7. Depth(c, M(i)) = Depth(b, i) BY <2>3, <2>4, <2>5, <2>6
  <2>8. CASE i \in U
    <3>1. GuardAt(c, M(i), GuardId(p, f, i), GIndex(o)) BY <1>3, <2>8
    <3> DEFINE m == M(i)
    <3> HIDE DEF m
    <3>2. m \in Nat BY <2>1 DEF m
    <3>3. ASSUME NEW r \in 1 .. 4 PROVE Depth(c, m+r) = Depth(c, (m+r)-1) + Change(c[m+r]) /\ Change(c[m+r]) = 0
                                        /\ Depth(c, m+r) \in Int /\ Depth(c, (m+r)-1) \in Int
      <4>1. m+r \in Nat /\ m+r # 0 /\ (m+r)-1 \in Nat BY <3>2
      <4>2. Change(c[m+r]) = 0 BY <3>1, GuardOps DEF m
      <4> QED BY <4>1, <4>2, DepthSteps
    <3>4. \A r \in 1 .. 4 : Depth(c, m+r) = Depth(c, (m+r)-1) BY <3>3
    <3>5. (m+1)-1 = m /\ (m+2)-1 = m+1 /\ (m+3)-1 = m+2 /\ (m+4)-1 = m+3 /\ 1 .. 4 = {1, 2, 3, 4} BY <3>2
    <3>6. Depth(c, m+1) = Depth(c, m) /\ Depth(c, m+2) = Depth(c, m+1) /\ Depth(c, m+3) = Depth(c, m+2)
          /\ Depth(c, m+4) = Depth(c, m+3)
      BY <3>4, <3>5
    <3>7. Depth(c, m) = Depth(b, i) BY <2>7 DEF m
    <3>8. \A r \in 1 .. 4 : Depth(c, m+r) = Depth(b, i) BY <3>5, <3>6, <3>7
    <3>9. M(i+1) - 1 = m + 4
      <4>1. i \in Int BY <2>2
      <4>2. M(i+1) = m + 1 + 4 BY <1>2, <2>8, <4>1 DEF m
      <4> HIDE DEF M
      <4> QED BY <3>2, <4>2
    <3> HIDE DEF M
    <3>10. Upto(i) BY <3>5, <3>8, <3>9
    <3> QED BY <2>7, <3>8, <3>10 DEF m
  <2>9. CASE i \notin U
    <3>1. i \in Int BY <2>2
    <3>2. M(i+1) = M(i) + 1 + 0 BY <1>2, <2>9, <3>1
    <3> HIDE DEF M
    <3>3. M(i+1) - 1 = M(i) BY <2>1, <3>2
    <3> QED BY <2>7, <2>9, <3>3
  <2> QED BY <2>8, <2>9
<1>5. Upto(0)
  <2>1. M(1) = 1 BY NextPlace
  <2>2. Depth(c, 0) = 0 /\ Depth(b, 0) = 0 BY DepthSteps
  <2>3. 0+1 = 1 /\ 1-1 = 0 OBVIOUS
  <2> HIDE DEF M
  <2> QED BY <2>1, <2>2, <2>3
<1>6. \A i \in 0 .. n : Upto(i)
  <2> DEFINE S == {i \in Nat : i <= n /\ ~Upto(i)}
  <2>1. CASE S = {} BY <1>1, <2>1
  <2>2. CASE S # {}
    <3>1. S \in SUBSET Nat OBVIOUS
    <3> HIDE DEF S
    <3>2. PICK i \in S : \A j \in S : i <= j BY <2>2, <3>1, Least
    <3>3. i \in Nat /\ i <= n /\ ~Upto(i) BY DEF S
    <3>4. i # 0 BY <1>5, <3>3
    <3>5. i-1 \in Nat /\ i-1 <= n /\ i \in 1 .. n /\ ~(i <= i-1) BY <1>1, <3>3, <3>4
    <3>6. i-1 \notin S BY <3>2, <3>5
    <3> HIDE DEF Upto
    <3>7. Upto(i-1) BY <3>5, <3>6 DEF S
    <3> QED BY <1>4, <3>3, <3>5, <3>7
  <2> QED BY <2>1, <2>2
<1> HIDE DEF Upto
<1>7. k \in 1 .. n /\ k-1 \in 0 .. n BY <1>1
<1>8. At(k) BY <1>4, <1>6, <1>7
<1>9. k \in U => FlatFrom(c, M(k)) BY <1>8 DEF FlatFrom
<1> QED BY <1>8, <1>9

\* Between the places of two operators are those between them and guards.
LEMMA Between ==
  ASSUME NEW p \in Programs, NEW f \in DOMAIN p.funcs, NEW o, NEW c,
         BuiltTo(p, o, f, c, Len(p.funcs[f].body) + 1),
         NEW k \in 1 .. Len(p.funcs[f].body), NEW e \in 1 .. Len(p.funcs[f].body),
         NEW x \in Moved(p, f, k)+1 .. Moved(p, f, e)-1
  PROVE  \E i \in 1 .. Len(p.funcs[f].body) :
           /\ k <= i /\ i < e /\ Depth(c, x) = Depth(p.funcs[f].body, i)
           /\ (k < i /\ x = Moved(p, f, i)) \/ c[x].op \in {"const", "call", "drop"}
<1> DEFINE b == p.funcs[f].body
           n == Len(b)
           M(i) == Moved(p, f, i)
           U == Unguarded(p, f)
<1>0. n \in Nat BY OldBody
<1>1. M(k) \in 1 .. Len(c) /\ M(e) \in 1 .. Len(c) /\ Len(c) \in Nat BY Places
<1>2. \A i \in 1 .. n : \A j \in 1 .. n : i < j => M(i) < M(j) /\ (i \in U => M(i) + 4 < M(j))
  <2>1. ASSUME NEW i \in 1 .. n, NEW j \in 1 .. n, i < j PROVE M(i) < M(j) /\ (i \in U => M(i) + 4 < M(j))
    <3>1. i \in Int /\ j \in Int OBVIOUS
    <3> QED BY <2>1, <3>1, PlacesGrow
  <2> HIDE DEF M, U
  <2> QED BY <2>1
<1>3. \A i \in 1 .. n : M(i) \in Nat
  <2>1. ASSUME NEW i \in 1 .. n PROVE M(i) \in 1 .. Len(c) BY Places
  <2> HIDE DEF M
  <2> QED BY <1>1, <2>1
<1>4. x \in 1 .. Len(c) /\ x \in Nat /\ M(k) < x /\ x < M(e) BY <1>1
<1>4a. x \in 1 .. Len(c) BY <1>4
<1>4b. PICK i \in 1 .. Len(p.funcs[f].body) : OfPlace(p, f, i, x) BY <1>4a, Placed
<1>5. x = M(i) \/ (i \in U /\ \E r \in 1 .. 4 : x = M(i) + r) BY <1>4b DEF OfPlace
<1>6. i \in Nat /\ k \in Nat /\ e \in Nat BY <1>0
<1>7. CASE x = M(i)
  <2>1. Depth(c, x) = Depth(b, i) BY <1>7, DepthMoved
  <2> HIDE DEF M
  <2>2. k < i
    <3>1. CASE i < k
      <4>1. M(i) < M(k) BY <1>2, <3>1
      <4> QED BY <1>3, <1>4, <1>7, <4>1
    <3>2. CASE i = k BY <1>3, <1>4, <1>7, <3>2
    <3> QED BY <1>6, <3>1, <3>2
  <2>3. i < e
    <3>1. CASE e < i
      <4>1. M(e) < M(i) BY <1>2, <3>1
      <4> QED BY <1>3, <1>4, <1>7, <4>1
    <3>2. CASE i = e BY <1>3, <1>4, <1>7, <3>2
    <3> QED BY <1>6, <3>1, <3>2
  <2> QED BY <1>6, <1>7, <2>1, <2>2, <2>3 DEF M
<1>8. CASE i \in U /\ \E r \in 1 .. 4 : x = M(i) + r
  <2>1. PICK r \in 1 .. 4 : x = M(i) + r BY <1>8
  <2>1a. i \in U BY <1>8
  <2>1b. FlatFrom(c, M(i)) /\ Depth(c, M(i)) = Depth(b, i) BY <2>1a, DepthMoved
  <2>2. Depth(c, x) = Depth(b, i) BY <2>1, <2>1b DEF FlatFrom
  <2>3. c[x].op \in {"const", "call", "drop"}
    <3>1. GuardAt(c, M(i), GuardId(p, f, i), GIndex(o)) BY <1>8, Places
    <3> QED BY <2>1, <3>1, GuardOps
  <2> HIDE DEF M
  <2>4. k <= i
    <3>1. CASE i < k
      <4>1. M(i) + 4 < M(k) BY <1>2, <1>8, <3>1
      <4> QED BY <1>3, <1>4, <2>1, <4>1
    <3> QED BY <1>6, <3>1
  <2>5. i < e
    <3>1. CASE e < i
      <4>1. M(e) < M(i) BY <1>2, <3>1
      <4> QED BY <1>3, <1>4, <2>1, <4>1
    <3>2. CASE i = e BY <1>3, <1>4, <2>1, <3>2
    <3> QED BY <1>6, <3>1, <3>2
  <2> QED BY <2>2, <2>3, <2>4, <2>5
<1> QED BY <1>5, <1>7, <1>8

MovedFrom(p, f, S, x) == \E j \in S : x = Moved(p, f, j)

\* Where the construct at k of f ends, in both, and its "else".
EndLies(p, f, c, k) ==
  LET b == p.funcs[f].body IN
  /\ EndOf(b, k) \in 2 .. Len(b) /\ k < EndOf(b, k)
  /\ EndOf(c, Moved(p, f, k)) = Moved(p, f, EndOf(b, k))
  /\ b[k].op # "loop" => Landing(p, f, EndOf(b, k)) = Moved(p, f, EndOf(b, k))
ElsesLie(p, f, c, k) ==
  LET b == p.funcs[f].body IN
  /\ \A j \in ElseOf(b, k) : Moved(p, f, j) \in ElseOf(c, Moved(p, f, k))
  /\ \A x \in ElseOf(c, Moved(p, f, k)) : MovedFrom(p, f, ElseOf(b, k), x)

LEMMA EndMoved ==
  ASSUME NEW p \in Programs, NEW f \in DOMAIN p.funcs, NEW o, NEW c,
         BuiltTo(p, o, f, c, Len(p.funcs[f].body) + 1), NEW k \in 1 .. Len(p.funcs[f].body),
         p.funcs[f].body[k].op # "end"
  PROVE  EndLies(p, f, c, k) /\ ElsesLie(p, f, c, k)
<1> DEFINE b == p.funcs[f].body
           n == Len(b)
           M(i) == Moved(p, f, i)
           e == EndOf(b, k)
<1>0. n \in Nat /\ k \in Nat /\ k >= 1 /\ Closed(b) BY OldBody, ValidClosed
<1>1. k \in 1 .. n-1 BY <1>0, LastIsEnd
<1>2. Ends(b, k, e) /\ e \in k+1 .. n /\ (b[k].op # "loop" => b[e-1].op # "loop")
  <2> HIDE DEF b
  <2> QED BY <1>0, <1>1, EndExists
<1>3. e \in 1 .. n /\ k < e /\ e \in 2 .. n /\ e \in Int /\ e-1 \in Int BY <1>0, <1>2
<1> HIDE DEF e
<1>4. M(k) < M(e) BY <1>0, <1>3, PlacesGrow
<1>5. /\ c \in Bodies /\ Len(c) \in Nat /\ M(k) \in 1 .. Len(c) /\ M(e) \in 1 .. Len(c)
      /\ c[M(e)].op = "end"
  <2>1. b[e].op = "end" BY <1>2 DEF Ends
  <2>2. c[M(e)] = Image(p, o, b[e]) BY <1>3, Places
  <2>3. c[M(e)].op = "end" BY <2>1, <2>2, ImageOp
  <2>4. M(e) \in 1 .. Len(c) BY <1>3, Places
  <2>5. c \in Bodies /\ Len(c) \in Nat /\ M(k) \in 1 .. Len(c) BY Places
  <2> QED BY <2>3, <2>4, <2>5
<1>6. Depth(c, M(k)) = Depth(b, k) /\ Depth(c, M(e)) = Depth(b, e) BY <1>3, DepthMoved
<1>7. \A x \in M(k)+1 .. M(e)-1 : Depth(c, x) >= Depth(c, M(k))
  <2>1. ASSUME NEW x \in M(k)+1 .. M(e)-1 PROVE Depth(c, x) >= Depth(b, k)
    <3>0. e \in 1 .. n BY <1>3
    <3>1. PICK i \in 1 .. n :
            /\ k <= i /\ i < e /\ Depth(c, x) = Depth(b, i)
            /\ (k < i /\ x = M(i)) \/ c[x].op \in {"const", "call", "drop"}
      BY <3>0, Between
    <3>2. CASE i = k
      <4>1. Depth(b, k) \in Int BY <1>0, DepthSteps
      <4> QED BY <3>1, <3>2, <4>1
    <3>3. CASE i # k
      <4>1. i \in k+1 .. e-1 BY <1>0, <1>3, <3>1, <3>3
      <4> QED BY <1>2, <3>1, <4>1 DEF Ends
    <3> QED BY <3>2, <3>3
  <2> QED BY <1>6, <2>1
<1>8. Ends(c, M(k), M(e))
  <2>1. M(e) \in M(k)+1 .. Len(c)
    <3> HIDE DEF M
    <3> QED BY <1>4, <1>5
  <2>2. Depth(c, M(e)) = Depth(c, M(k)) - 1 BY <1>2, <1>6 DEF Ends
  <2> QED BY <1>5, <1>7, <2>1, <2>2 DEF Ends
<1>9. EndOf(c, M(k)) = M(e)
  <2> HIDE DEF M
  <2> QED BY <1>5, <1>8, EndIs
<1>10. ASSUME NEW x \in ElseOf(c, M(k)) PROVE MovedFrom(p, f, ElseOf(b, k), x)
  <2>1. x \in M(k)+1 .. M(e) /\ c[x].op = "else" /\ Depth(c, x) = Depth(c, M(k)) BY <1>9 DEF ElseOf
  <2>2. x # M(e) BY <1>5, <2>1
  <2>3. x \in M(k)+1 .. M(e)-1
    <3> HIDE DEF M
    <3> QED BY <1>5, <2>1, <2>2
  <2>3a. e \in 1 .. n BY <1>3
  <2>4. PICK i \in 1 .. n : /\ k <= i /\ i < e /\ Depth(c, x) = Depth(b, i)
                            /\ (k < i /\ x = M(i)) \/ c[x].op \in {"const", "call", "drop"}
    BY <2>3, <2>3a, Between
  <2>5. k < i /\ x = M(i) BY <2>1, <2>4
  <2>6. c[x] = Image(p, o, b[i]) BY <2>5, Places
  <2>7. b[i].op = "else" BY <2>1, <2>6, ImageOp
  <2>8. i \in k+1 .. e BY <1>0, <1>3, <2>4, <2>5
  <2>9. i \in ElseOf(b, k) BY <1>6, <2>1, <2>4, <2>7, <2>8 DEF ElseOf, e
  <2> QED BY <2>5, <2>9 DEF MovedFrom
<1>11. ASSUME NEW j \in ElseOf(b, k) PROVE M(j) \in ElseOf(c, M(k))
  <2>1. j \in k+1 .. e /\ b[j].op = "else" /\ Depth(b, j) = Depth(b, k) BY DEF ElseOf, e
  <2>2. j \in 1 .. n /\ j \in Int /\ k < j /\ j <= e BY <1>0, <1>3, <2>1
  <2>3. c[M(j)].op = "else" /\ Depth(c, M(j)) = Depth(c, M(k))
    <3>1. c[M(j)] = Image(p, o, b[j]) BY <2>2, Places
    <3>2. c[M(j)].op = "else" BY <2>1, <3>1, ImageOp
    <3>3. j \in 1 .. n BY <2>2
    <3>4. Depth(c, M(j)) = Depth(b, j) BY <3>3, DepthMoved
    <3> QED BY <1>6, <2>1, <3>2, <3>4
  <2>4. M(k) < M(j) BY <1>0, <2>2, PlacesGrow
  <2>5. M(j) <= M(e)
    <3>1. CASE j = e BY <1>5, <3>1
    <3>2. CASE j # e
      <4>1. j < e BY <1>3, <2>2, <3>2
      <4>2. M(j) < M(e) BY <1>3, <2>2, <4>1, PlacesGrow
      <4>3. M(j) \in Int BY <2>2, ShiftType
      <4> HIDE DEF M
      <4> QED BY <1>5, <4>2, <4>3
    <3> QED BY <3>1, <3>2
  <2>6. M(j) \in Int BY <2>2, ShiftType
  <2>7. M(j) \in M(k)+1 .. M(e)
    <3> HIDE DEF M
    <3> QED BY <1>5, <2>4, <2>5, <2>6
  <2> QED BY <1>9, <2>3, <2>7 DEF ElseOf
<1>13. b[k].op # "loop" => Landing(p, f, e) = M(e)
  <2>1. ASSUME b[k].op # "loop" PROVE Landing(p, f, e) = M(e)
    <3>1. b[e-1].op # "loop" BY <1>2, <2>1 DEF e
    <3>2. e-1 \notin Unguarded(p, f) BY <3>1, UnguardedLoops
    <3>3. (e-1)+1 = e BY <1>3
    <3>4. Moved(p, f, (e-1)+1) = Landing(p, f, (e-1)+1) + 0 BY <1>3, <3>2, NextPlace
    <3>5. Landing(p, f, e) \in Int BY <1>3, ShiftType
    <3> QED BY <3>3, <3>4, <3>5
  <2> QED BY <2>1
<1> QED BY <1>3, <1>9, <1>10, <1>11, <1>13 DEF e, EndLies, ElsesLie

\* The "else" of the construct at x, in both.
ElsesAt(p, f, x, b, c) ==
  /\ ElseOf(b, x) = {} => ElseOf(c, Moved(p, f, x)) = {}
  /\ ElseOf(b, x) # {} =>
       /\ ElseOf(c, Moved(p, f, x)) # {}
       /\ Min(ElseOf(b, x)) \in 1 .. Len(b)
       /\ Min(ElseOf(c, Moved(p, f, x))) = Moved(p, f, Min(ElseOf(b, x)))

LEMMA ElseMoved ==
  ASSUME NEW p \in Programs, NEW f \in DOMAIN p.funcs, NEW o, NEW c,
         BuiltTo(p, o, f, c, Len(p.funcs[f].body) + 1), NEW k \in 1 .. Len(p.funcs[f].body),
         p.funcs[f].body[k].op # "end"
  PROVE  ElsesAt(p, f, k, p.funcs[f].body, c)
<1> DEFINE b == p.funcs[f].body
           n == Len(b)
           M(i) == Moved(p, f, i)
           E == ElseOf(b, k)
           F == ElseOf(c, M(k))
<1>0. n \in Nat BY OldBody
<1>1d. EndLies(p, f, c, k) /\ ElsesLie(p, f, c, k) BY EndMoved
<1>1a. EndOf(b, k) \in 2 .. n BY <1>1d DEF EndLies
<1>1b. \A j \in E : M(j) \in F BY <1>1d DEF ElsesLie
<1>1c. \A x \in F : MovedFrom(p, f, E, x) BY <1>1d DEF ElsesLie
<1>1. EndOf(b, k) \in 2 .. n /\ F = {M(j) : j \in E} /\ n \in Nat BY <1>0, <1>1a, <1>1b, <1>1c DEF MovedFrom
<1>2. E \in SUBSET (1 .. n) /\ E \in SUBSET Nat
  <2>1. E \in SUBSET (k+1 .. EndOf(b, k)) BY DEF ElseOf
  <2> HIDE DEF E
  <2> QED BY <1>1, <2>1
<1>2a. CASE E = {}
  <2>1. F = {} BY <1>1, <1>2a
  <2> QED BY <1>2a, <2>1 DEF ElsesAt
<1> SUFFICES ASSUME E # {} PROVE ElsesAt(p, f, k, b, c) BY <1>2a
<1>3. PICK m \in E : \A j \in E : m <= j
  <2>1. E # {} OBVIOUS
  <2> HIDE DEF E
  <2> QED BY <1>2, <2>1, Least
<1> HIDE DEF E, F
<1>4. m \in 1 .. n /\ m \in Nat BY <1>2
<1>5. Min(E) = m
  <2>1. ASSUME NEW y \in E, \A j \in E : y <= j PROVE y = m
    <3>1. y <= m /\ m <= y /\ y \in Nat /\ m \in Nat BY <1>2, <1>3, <2>1
    <3> QED BY <3>1
  <2> QED BY <1>3, <2>1 DEF Min
<1>6. \A j \in E : M(m) <= M(j) /\ M(j) \in Int
  <2>1. ASSUME NEW j \in E PROVE M(m) <= M(j) /\ M(j) \in Int
    <3>1. j \in Int /\ m \in Int /\ m <= j BY <1>2, <1>3
    <3>2. M(m) \in Int /\ M(j) \in Int BY <3>1, ShiftType
    <3>3. CASE j = m BY <3>2, <3>3
    <3>4. CASE j # m
      <4>1. m < j BY <3>1, <3>4
      <4>2. M(m) < M(j) BY <3>1, <4>1, PlacesGrow
      <4> HIDE DEF M
      <4> QED BY <3>2, <4>2
    <3> QED BY <3>3, <3>4
  <2> QED BY <2>1
<1> HIDE DEF M
<1>7. M(m) \in F /\ \A y \in F : M(m) <= y BY <1>1, <1>3, <1>6
<1>8. Min(F) = M(m)
  <2>1. ASSUME NEW y \in F, \A j \in F : y <= j PROVE y = M(m)
    <3>1. y \in Int /\ M(m) \in Int BY <1>1, <1>3, <1>6
    <3>2. y <= M(m) /\ M(m) <= y BY <1>7, <2>1
    <3> QED BY <3>1, <3>2
  <2> QED BY <1>7, <2>1 DEF Min
<1> QED BY <1>4, <1>5, <1>7, <1>8 DEF E, F, M, ElsesAt

-----------------------------------------------------------------------------
(* An execution of the input, and what the output makes of it *)

\* The provers do not know that "_g" is in STRING.
Call == (STRING \cup {"_g"}) \X Seq(Nat)
LabelsTo(n) == [to : 1 .. n+1, height : Nat, arity : Nat, loop : BOOLEAN]
LocalsOf(d) == {l \in Seq(Nat) : Len(l) = d.params + d.extra}
FramesIn(p, f) ==
  [fn : {f}, pc : 1 .. Len(p.funcs[f].body)+1, stack : Seq(Nat),
   labels : Seq(LabelsTo(Len(p.funcs[f].body))), locals : LocalsOf(p.funcs[f])]
Frame(p) == UNION {FramesIn(p, f) : f \in DOMAIN p.funcs}

\* Executions of p; Width keeps its values small.
Good(p, q) ==
  /\ q.frames \in Seq(Frame(p)) /\ q.trace \in Seq(Call)
  /\ Running(q) => q.frames # <<>>

MapLabel(p, f, l) ==
  [to |-> Landing(p, f, l.to), height |-> l.height, arity |-> l.arity, loop |-> l.loop]
MapLabels(p, f, ls) == [j \in 1 .. Len(ls) |-> MapLabel(p, f, ls[j])]

\* A frame f of the input, in the output, at x with the operands st.
FrameAt(p, o, f, x, st) ==
  [fn |-> Renumber(p, o, f.fn), pc |-> x, stack |-> st,
   labels |-> MapLabels(p, f.fn, f.labels), locals |-> f.locals]
Landed(p, o, f) == FrameAt(p, o, f, Landing(p, f.fn, f.pc), f.stack)
Ready(p, o, f)  == FrameAt(p, o, f, Moved(p, f.fn, f.pc), f.stack)

\* The frames of q in the output, with top for the active one.
FramesOf(p, o, q, top) ==
  [i \in 1 .. Len(q.frames) |-> IF i = Len(q.frames) THEN top ELSE Landed(p, o, q.frames[i])]
AllLanded(p, o, q) == [i \in 1 .. Len(q.frames) |-> Landed(p, o, q.frames[i])]

\* The two after a step of both.
Pair(p, o, q, s) ==
  /\ Good(p, q) /\ s.status = q.status /\ s.result = q.result
  /\ s.frames = AllLanded(p, o, q)
SameCall(q, s, q1, s1) ==
  \/ q1.trace = q.trace /\ s1.trace = s.trace
  \/ \E c \in Call : q1.trace = Append(q.trace, c) /\ s1.trace = Append(s.trace, c)

LEMMA SameRange == ASSUME NEW a \in Nat, NEW b \in Nat, 1 .. a = 1 .. b PROVE a = b
<1>1. ASSUME NEW x \in Nat, NEW y \in Nat, 1 .. x = 1 .. y, x < y PROVE FALSE
  <2>1. y \in 1 .. y /\ y \notin 1 .. x BY <1>1
  <2> QED BY <1>1, <2>1
<1>2. ~(a < b) /\ ~(b < a) BY <1>1
<1> QED BY <1>2

LEMMA FrameIs ==
  ASSUME NEW p, NEW x
  PROVE  x \in Frame(p) <=> x.fn \in DOMAIN p.funcs /\ x \in FramesIn(p, x.fn)
<1>1. ASSUME NEW f, x \in FramesIn(p, f) PROVE x.fn = f BY <1>1 DEF FramesIn
<1>2. ASSUME x \in Frame(p) PROVE x.fn \in DOMAIN p.funcs /\ x \in FramesIn(p, x.fn)
  <2>1. PICK f \in DOMAIN p.funcs : x \in FramesIn(p, f) BY <1>2 DEF Frame
  <2> QED BY <1>1, <2>1
<1>3. ASSUME x.fn \in DOMAIN p.funcs, x \in FramesIn(p, x.fn) PROVE x \in Frame(p) BY <1>3 DEF Frame
<1> QED BY <1>2, <1>3

LEMMA FrameParts ==
  ASSUME NEW p, NEW x \in Frame(p)
  PROVE  /\ x.fn \in DOMAIN p.funcs /\ x.pc \in 1 .. Len(p.funcs[x.fn].body)+1
         /\ x.stack \in Seq(Nat) /\ x.labels \in Seq(LabelsTo(Len(p.funcs[x.fn].body)))
         /\ x.locals \in LocalsOf(p.funcs[x.fn])
<1>1. x.fn \in DOMAIN p.funcs /\ x \in FramesIn(p, x.fn) BY FrameIs
<1> QED BY <1>1 DEF FramesIn

LEMMA NewFrame ==
  ASSUME NEW p, NEW f \in DOMAIN p.funcs, NEW x \in 1 .. Len(p.funcs[f].body)+1, NEW st \in Seq(Nat),
         NEW ls \in Seq(LabelsTo(Len(p.funcs[f].body))), NEW loc \in LocalsOf(p.funcs[f])
  PROVE  [fn |-> f, pc |-> x, stack |-> st, labels |-> ls, locals |-> loc] \in Frame(p)
<1> DEFINE y == [fn |-> f, pc |-> x, stack |-> st, labels |-> ls, locals |-> loc]
<1>1. y \in FramesIn(p, f) /\ y.fn = f BY DEF FramesIn
<1> HIDE DEF y
<1>2. y \in Frame(p) BY <1>1, FrameIs
<1> QED BY <1>2 DEF y

LEMMA LabelParts ==
  ASSUME NEW n \in Nat, NEW ls \in Seq(LabelsTo(n)), NEW j \in 1 .. Len(ls)
  PROVE  /\ ls[j] \in LabelsTo(n) /\ ls[j].to \in 1 .. n+1 /\ ls[j].to \in Int
         /\ ls[j].height \in Nat /\ ls[j].arity \in Nat /\ ls[j].loop \in BOOLEAN
<1>1. ls[j] \in LabelsTo(n) BY ElementOfSeq
<1>2. ls[j].to \in 1 .. n+1 /\ ls[j].height \in Nat /\ ls[j].arity \in Nat /\ ls[j].loop \in BOOLEAN
  BY <1>1 DEF LabelsTo
<1> QED BY <1>1, <1>2

MappedLabel == [to : Int, height : Nat, arity : Nat, loop : BOOLEAN]

LEMMA MapLabelType ==
  ASSUME NEW p \in Programs, NEW f \in DOMAIN p.funcs, NEW n \in Nat, NEW l \in LabelsTo(n)
  PROVE  MapLabel(p, f, l) \in MappedLabel
<1>1. l.to \in Int /\ l.height \in Nat /\ l.arity \in Nat /\ l.loop \in BOOLEAN BY DEF LabelsTo
<1>2. Landing(p, f, l.to) \in Int BY <1>1, ShiftType
<1> QED BY <1>1, <1>2 DEF MapLabel, MappedLabel

LEMMA MapLabelsType ==
  ASSUME NEW p \in Programs, NEW f \in DOMAIN p.funcs, NEW n \in Nat, NEW ls \in Seq(LabelsTo(n))
  PROVE  /\ MapLabels(p, f, ls) \in Seq(MappedLabel) /\ Len(MapLabels(p, f, ls)) = Len(ls)
         /\ Len(ls) \in Nat
         /\ \A j \in 1 .. Len(ls) : MapLabels(p, f, ls)[j] = MapLabel(p, f, ls[j])
<1> DEFINE m == MapLabels(p, f, ls)
           k == Len(ls)
<1>1. k \in Nat BY LenProperties
<1>2. m = [j \in 1 .. k |-> MapLabel(p, f, ls[j])] BY DEF MapLabels
<1>3. \A j \in 1 .. k : MapLabel(p, f, ls[j]) \in MappedLabel
  <2>1. ASSUME NEW j \in 1 .. k PROVE MapLabel(p, f, ls[j]) \in MappedLabel
    <3>1. ls[j] \in LabelsTo(n) BY LabelParts
    <3> QED BY <3>1, MapLabelType
  <2> QED BY <2>1
<1> HIDE DEF m, k
<1>4. m \in [1 .. k -> MappedLabel] BY <1>2, <1>3
<1>5. m \in Seq(MappedLabel) BY <1>1, <1>4, SeqDef
<1>6. Len(m) = k
  <2>1. DOMAIN m = 1 .. Len(m) /\ Len(m) \in Nat BY <1>5, LenProperties
  <2>2. DOMAIN m = 1 .. k BY <1>4
  <2> QED BY <1>1, <2>1, <2>2, SameRange, Zenon
<1> QED BY <1>1, <1>2, <1>5, <1>6 DEF m, k

LEMMA MapLabelsParts ==
  ASSUME NEW p \in Programs, NEW f \in DOMAIN p.funcs, NEW n \in Nat, NEW ls \in Seq(LabelsTo(n)),
         NEW m \in 0 .. Len(ls)
  PROVE  /\ SubSeq(ls, 1, m) \in Seq(LabelsTo(n))
         /\ MapLabels(p, f, SubSeq(ls, 1, m)) = SubSeq(MapLabels(p, f, ls), 1, m)
<1> DEFINE t == SubSeq(ls, 1, m)
           M == MapLabels(p, f, ls)
           u == SubSeq(M, 1, m)
           v == MapLabels(p, f, t)
           L == LabelsTo(n)
<1>0. Len(ls) \in Nat /\ m \in Nat /\ m <= Len(ls) BY LenProperties
<1>1. M \in Seq(MappedLabel) /\ Len(M) = Len(ls) /\ \A j \in 1 .. Len(ls) : M[j] = MapLabel(p, f, ls[j])
  BY MapLabelsType
<1>2. \A i \in 1 .. m : ls[i] \in L /\ M[i] \in MappedLabel /\ i \in 1 .. Len(ls)
  <2>1. ASSUME NEW i \in 1 .. m PROVE ls[i] \in L /\ M[i] \in MappedLabel /\ i \in 1 .. Len(ls)
    <3>1. i \in 1 .. Len(ls) BY <1>0
    <3> HIDE DEF L, M
    <3>2. ls[i] \in L BY <3>1, ElementOfSeq DEF L
    <3>3. M[i] \in MappedLabel BY <1>1, <3>1, ElementOfSeq
    <3> QED BY <3>1, <3>2, <3>3
  <2> QED BY <2>1
<1> HIDE DEF L, M
<1>3. t \in Seq(L) /\ Len(t) = m /\ \A i \in 1 .. m : t[i] = ls[i]
  <2>1. t \in Seq(L) /\ Len(t) = (IF 1 <= m THEN m-1+1 ELSE 0) /\ \A i \in 1 .. m-1+1 : t[i] = ls[1+i-1]
    BY <1>0, <1>2, SubSeqProperties
  <2> QED BY <1>0, <2>1
<1>4. u \in Seq(MappedLabel) /\ Len(u) = m /\ \A i \in 1 .. m : u[i] = M[i]
  <2>1. u \in Seq(MappedLabel) /\ Len(u) = (IF 1 <= m THEN m-1+1 ELSE 0) /\ \A i \in 1 .. m-1+1 : u[i] = M[1+i-1]
    BY <1>0, <1>2, SubSeqProperties
  <2> QED BY <1>0, <2>1
<1> HIDE DEF t, u
<1>5. v \in Seq(MappedLabel) /\ Len(v) = Len(t) /\ \A j \in 1 .. Len(t) : v[j] = MapLabel(p, f, t[j])
  BY <1>3, MapLabelsType DEF L
<1> HIDE DEF v
<1>6. v = u
  <2>1. Len(v) = Len(u) BY <1>3, <1>4, <1>5
  <2>2. \A i \in 1 .. Len(v) : v[i] = u[i] BY <1>1, <1>2, <1>3, <1>4, <1>5
  <2> QED BY <1>4, <1>5, <2>1, <2>2, SeqEqual
<1> QED BY <1>3, <1>6 DEF t, u, v, L, M

LEMMA MapLabelsMore ==
  ASSUME NEW p \in Programs, NEW f \in DOMAIN p.funcs, NEW n \in Nat, NEW ls \in Seq(LabelsTo(n)),
         NEW l \in LabelsTo(n)
  PROVE  /\ Append(ls, l) \in Seq(LabelsTo(n))
         /\ MapLabels(p, f, Append(ls, l)) = Append(MapLabels(p, f, ls), MapLabel(p, f, l))
<1> DEFINE L == LabelsTo(n)
           t == Append(ls, l)
           M == MapLabels(p, f, ls)
           x == MapLabel(p, f, l)
           u == Append(M, x)
           v == MapLabels(p, f, t)
           k == Len(ls)
<1>1. M \in Seq(MappedLabel) /\ Len(M) = k /\ k \in Nat /\ \A j \in 1 .. k : M[j] = MapLabel(p, f, ls[j])
  BY MapLabelsType
<1>2. x \in MappedLabel BY MapLabelType
<1> HIDE DEF L, M, x, k
<1>3. t \in Seq(L) /\ Len(t) = k+1 /\ \A i \in 1 .. k+1 : t[i] = IF i <= k THEN ls[i] ELSE l
  BY <1>1, AppendProperties DEF L, k
<1>4. u \in Seq(MappedLabel) /\ Len(u) = k+1 /\ \A i \in 1 .. k+1 : u[i] = IF i <= k THEN M[i] ELSE x
  BY <1>1, <1>2, AppendProperties
<1> HIDE DEF t, u
<1>5. v \in Seq(MappedLabel) /\ Len(v) = Len(t) /\ \A j \in 1 .. Len(t) : v[j] = MapLabel(p, f, t[j])
  BY <1>3, MapLabelsType DEF L
<1> HIDE DEF v
<1>6. v = u
  <2>1. Len(v) = Len(u) BY <1>3, <1>4, <1>5
  <2>2. ASSUME NEW i \in 1 .. k+1 PROVE v[i] = u[i]
    <3>1. CASE i <= k
      <4>1. i \in 1 .. k BY <1>1, <3>1
      <4> QED BY <1>1, <1>3, <1>4, <1>5, <3>1, <4>1
    <3>2. CASE ~(i <= k) BY <1>3, <1>4, <1>5, <3>2 DEF x
    <3> QED BY <3>1, <3>2
  <2> QED BY <1>3, <1>4, <1>5, <2>1, <2>2, SeqEqual
<1> QED BY <1>3, <1>6 DEF t, u, v, L, M, x

LEMMA MapNoLabels ==
  ASSUME NEW p \in Programs, NEW f \in DOMAIN p.funcs, NEW n \in Nat, NEW ls \in Seq(LabelsTo(n))
  PROVE  /\ MapLabels(p, f, ls) = <<>> <=> ls = <<>>
         /\ MapLabels(p, f, <<>>) = <<>>
<1> DEFINE M == MapLabels(p, f, ls)
<1>1. M \in Seq(MappedLabel) /\ Len(M) = Len(ls) BY MapLabelsType
<1> HIDE DEF M
<1>2. M = <<>> <=> ls = <<>> BY <1>1, EmptySeq
<1>3. MapLabels(p, f, <<>>) = <<>>
  <2> DEFINE E == MapLabels(p, f, <<>>)
  <2>1. <<>> \in Seq(LabelsTo(n)) /\ Len(<<>>) = 0 BY EmptySeq
  <2>2. E \in Seq(MappedLabel) /\ Len(E) = 0 BY <2>1, MapLabelsType
  <2> HIDE DEF E
  <2>3. E = <<>> BY <2>2, EmptySeq
  <2> QED BY <2>3 DEF E
<1> QED BY <1>2, <1>3 DEF M

-----------------------------------------------------------------------------
(* One step of both *)

Facing(p, o, q, s) ==
  /\ Good(p, q) /\ Running(q) /\ s.status = q.status /\ s.result = q.result /\ s.trace \in Seq(Call)
  /\ s.frames = FramesOf(p, o, q, Ready(p, o, Active(q)))

LEMMA FunctionIsSeq ==
  ASSUME NEW n \in Nat, NEW T, NEW g \in [1 .. n -> T]
  PROVE  g \in Seq(T) /\ Len(g) = n
<1>1. g \in Seq(T) BY SeqDef
<1>2. Len(g) \in Nat /\ DOMAIN g = 1 .. Len(g) BY <1>1, LenProperties
<1> QED BY <1>1, <1>2, SameRange

FramesBelow(p, o, q, s) ==
  /\ s.frames = [i \in 1 .. Len(q.frames) |-> s.frames[i]]
  /\ \A i \in 1 .. Len(q.frames) - 1 : s.frames[i] = Landed(p, o, q.frames[i])
OnTop(fs, x) == [fs EXCEPT ![Len(fs)] = x]

LEMMA FacingParts ==
  ASSUME NEW p, NEW o, NEW q, NEW s, Facing(p, o, q, s)
  PROVE  /\ Len(q.frames) \in Nat \ {0} /\ Len(s.frames) = Len(q.frames)
         /\ q.frames \in Seq(Frame(p)) /\ FramesBelow(p, o, q, s)
         /\ Active(q) = q.frames[Len(q.frames)] /\ Active(q) \in Frame(p)
         /\ Active(s) = Ready(p, o, Active(q))
         /\ q.trace \in Seq(Call) /\ s.trace \in Seq(Call)
<1> DEFINE F == q.frames
           G1 == s.frames
           n == Len(F)
           top == Ready(p, o, Active(q))
<1>1. F \in Seq(Frame(p)) /\ F # <<>> /\ q.trace \in Seq(Call) /\ s.trace \in Seq(Call) BY DEF Facing, Good
<1>2. n \in Nat \ {0} /\ F \in [1 .. n -> Frame(p)] BY <1>1, EmptySeq, LenProperties
<1>3. Active(q) = F[n] BY DEF Active
<1>4. F[n] \in Frame(p) BY <1>1, <1>2
<1>5. G1 = [i \in 1 .. n |-> IF i = n THEN top ELSE Landed(p, o, F[i])] BY DEF Facing, FramesOf
<1> HIDE DEF n, top, F
<1>6. DOMAIN G1 = 1 .. n /\ G1 = [i \in 1 .. n |-> G1[i]] /\ G1[n] = top
      /\ \A i \in 1 .. n-1 : G1[i] = Landed(p, o, F[i])
  BY <1>2, <1>5
<1> HIDE DEF G1
<1>7. Len(G1) = n
  <2> DEFINE T == {G1[i] : i \in 1 .. n}
  <2>1. G1 \in [1 .. n -> T] BY <1>6
  <2> HIDE DEF T
  <2> QED BY <1>2, <2>1, FunctionIsSeq
<1>8. Active(s) = top BY <1>6, <1>7 DEF Active, G1
<1> QED BY <1>1, <1>2, <1>3, <1>4, <1>6, <1>7, <1>8 DEF n, F, G1, top, FramesBelow

\* Another frame on top.
LEMMA LandedTop ==
  ASSUME NEW p, NEW o, NEW q, NEW s, Facing(p, o, q, s), NEW x \in Frame(p), NEW q1,
         q1.frames = OnTop(q.frames, x)
  PROVE  /\ q1.frames \in Seq(Frame(p)) /\ q1.frames # <<>>
         /\ OnTop(s.frames, Landed(p, o, x)) = AllLanded(p, o, q1)
<1> DEFINE F == q.frames
           G1 == s.frames
           n == Len(F)
           E == q1.frames
           H == [G1 EXCEPT ![n] = Landed(p, o, x)]
<1>1. /\ n \in Nat \ {0} /\ Len(G1) = n /\ F \in Seq(Frame(p))
      /\ G1 = [i \in 1 .. n |-> G1[i]] /\ \A i \in 1 .. n-1 : G1[i] = Landed(p, o, F[i])
  BY FacingParts DEF FramesBelow
<1>2. E = [F EXCEPT ![n] = x] BY DEF OnTop
<1> HIDE DEF F, G1, n, E
<1>3. /\ E \in Seq(Frame(p)) /\ Len(E) = n
      /\ \A j \in 1 .. n : E[j] = IF j = n THEN x ELSE F[j]
  <2>1. n \in 1 .. Len(F) BY <1>1 DEF n
  <2> QED BY <1>1, <1>2, <2>1, ExceptSeq DEF n
<1>4. E # <<>> BY <1>1, <1>3, EmptySeq
<1>5. H = [i \in 1 .. n |-> IF i = n THEN Landed(p, o, x) ELSE G1[i]] BY <1>1
<1>6. \A i \in 1 .. n : H[i] = Landed(p, o, E[i])
  <2>1. ASSUME NEW i \in 1 .. n PROVE H[i] = Landed(p, o, E[i])
    <3>1. CASE i = n BY <1>3, <1>5, <3>1
    <3>2. CASE i # n
      <4>1. i \in 1 .. n-1 BY <1>1, <3>2
      <4> QED BY <1>1, <1>3, <1>5, <3>2, <4>1
    <3> QED BY <3>1, <3>2
  <2> QED BY <2>1
<1>7. AllLanded(p, o, q1) = [i \in 1 .. n |-> Landed(p, o, E[i])] BY <1>3 DEF AllLanded, E
<1>8. H = AllLanded(p, o, q1)
  <2>1. DOMAIN H = 1 .. n /\ H = [i \in 1 .. n |-> H[i]] BY <1>5
  <2> HIDE DEF H
  <2> QED BY <1>6, <1>7, <2>1
<1> QED BY <1>1, <1>3, <1>4, <1>8, Zenon DEF E, n, G1, OnTop

LEMMA GoOnPair ==
  ASSUME NEW p \in Programs, NEW o, NEW q, NEW s, Facing(p, o, q, s), NEW f, f = Active(q).fn,
         NEW x \in 1 .. Len(p.funcs[f].body)+1, NEW st \in Seq(Nat),
         NEW ls \in Seq(LabelsTo(Len(p.funcs[f].body))), NEW loc \in LocalsOf(p.funcs[f]),
         NEW q1, q1 = GoOn(q, x, st, ls, loc),
         NEW s1, s1 = GoOn(s, Landing(p, f, x), st, MapLabels(p, f, ls), loc)
  PROVE  Pair(p, o, q1, s1) /\ q1.trace = q.trace /\ s1.trace = s.trace
<1> DEFINE y == [fn |-> f, pc |-> x, stack |-> st, labels |-> ls, locals |-> loc]
           z == [fn |-> Active(s).fn, pc |-> Landing(p, f, x), stack |-> st,
                 labels |-> MapLabels(p, f, ls), locals |-> loc]
<1>1. Active(q) \in Frame(p) /\ Active(s) = Ready(p, o, Active(q)) BY FacingParts
<1>2. f \in DOMAIN p.funcs BY <1>1, FrameParts
<1>3. y \in Frame(p) BY <1>2, NewFrame
<1>4. z = Landed(p, o, y)
  <2>1. Active(s).fn = Renumber(p, o, f) BY <1>1 DEF Ready, FrameAt
  <2> QED BY <2>1 DEF Landed, FrameAt
<1>5. q1.frames = OnTop(q.frames, y) /\ q1.trace = q.trace
      /\ q1.status = q.status /\ q1.result = q.result
  BY DEF GoOn, OnTop
<1>6. s1.frames = OnTop(s.frames, z) /\ s1.trace = s.trace
      /\ s1.status = s.status /\ s1.result = s.result
  BY DEF GoOn, OnTop
<1> HIDE DEF y, z
<1>7. q1.frames \in Seq(Frame(p)) /\ q1.frames # <<>> /\ s1.frames = AllLanded(p, o, q1)
  BY <1>3, <1>4, <1>5, <1>6, LandedTop
<1>8. s.status = q.status /\ s.result = q.result /\ q.trace \in Seq(Call) BY FacingParts DEF Facing
<1> QED BY <1>5, <1>6, <1>7, <1>8 DEF Pair, Good

LEMMA HaltPair ==
  ASSUME NEW p, NEW o, NEW q, NEW s, Facing(p, o, q, s), NEW status, status # "run", NEW res,
         NEW q1, q1 = Halt(q, status, res), NEW s1, s1 = Halt(s, status, res)
  PROVE  Pair(p, o, q1, s1) /\ q1.trace = q.trace /\ s1.trace = s.trace
<1>1. /\ q1.frames = <<>> /\ q1.status = status /\ q1.result = res /\ q1.trace = q.trace
      /\ s1.frames = <<>> /\ s1.status = status /\ s1.result = res /\ s1.trace = s.trace
  BY DEF Halt
<1>2. <<>> \in Seq(Frame(p)) /\ Len(<<>>) = 0 /\ q.trace \in Seq(Call) BY EmptySeq, FacingParts
<1>3. Good(p, q1) BY <1>1, <1>2 DEF Good, Running
<1>4. AllLanded(p, o, q1) = <<>>
  <2> DEFINE E == AllLanded(p, o, q1)
  <2>1. E = [i \in 1 .. 0 |-> Landed(p, o, q1.frames[i])] BY <1>1, <1>2 DEF AllLanded
  <2>2. E \in [1 .. 0 -> {}] BY <2>1
  <2> HIDE DEF E
  <2>3. E \in Seq({}) /\ Len(E) = 0 BY <2>2, FunctionIsSeq
  <2>4. E = <<>> BY <2>3, EmptySeq
  <2> QED BY <2>4 DEF E
<1> QED BY <1>1, <1>3, <1>4 DEF Pair

LEMMA InvalidPair ==
  ASSUME NEW p, NEW o, NEW q, NEW s, Facing(p, o, q, s),
         NEW q1, q1 = Invalid(q), NEW s1, s1 = Invalid(s)
  PROVE  Pair(p, o, q1, s1) /\ q1.trace = q.trace /\ s1.trace = s.trace
<1>1. s.result = q.result BY DEF Facing
<1>2. q1 = Halt(q, "invalid", q.result) /\ s1 = Halt(s, "invalid", q.result) BY <1>1 DEF Invalid
<1> QED BY <1>2, HaltPair

LEMMA Operands ==
  ASSUME NEW st \in Seq(Nat), NEW n \in 0 .. Len(st)
  PROVE  /\ Tail0(st, n) \in Seq(Nat) /\ Len(Tail0(st, n)) = n
         /\ Drop0(st, n) \in Seq(Nat) /\ Len(Drop0(st, n)) = Len(st) - n /\ Len(st) \in Nat
         /\ n # 0 => Upper(st) \in Nat
<1> DEFINE m == Len(st)
<1>1. m \in Nat /\ n \in Nat /\ n <= m BY LenProperties
<1>2. \A i \in 1 .. m : st[i] \in Nat BY ElementOfSeq
<1> HIDE DEF m
<1>3. Tail0(st, n) \in Seq(Nat) /\ Len(Tail0(st, n)) = n
  <2>1. \A i \in m-n+1 .. m : st[i] \in Nat BY <1>1, <1>2
  <2>2. m-n+1 \in Int /\ m \in Int BY <1>1
  <2>3. SubSeq(st, m-n+1, m) \in Seq(Nat)
        /\ Len(SubSeq(st, m-n+1, m)) = (IF m-n+1 <= m THEN m-(m-n+1)+1 ELSE 0)
    BY <2>1, <2>2, SubSeqProperties
  <2>4. (IF m-n+1 <= m THEN m-(m-n+1)+1 ELSE 0) = n BY <1>1
  <2> QED BY <2>3, <2>4 DEF Tail0, m
<1>4. Drop0(st, n) \in Seq(Nat) /\ Len(Drop0(st, n)) = m - n
  <2>1. \A i \in 1 .. m-n : st[i] \in Nat BY <1>1, <1>2
  <2>2. 1 \in Int /\ m-n \in Int BY <1>1
  <2>3. SubSeq(st, 1, m-n) \in Seq(Nat) /\ Len(SubSeq(st, 1, m-n)) = (IF 1 <= m-n THEN m-n-1+1 ELSE 0)
    BY <2>1, <2>2, SubSeqProperties
  <2>4. (IF 1 <= m-n THEN m-n-1+1 ELSE 0) = m-n BY <1>1
  <2> QED BY <2>3, <2>4 DEF Drop0, m
<1>5. n # 0 => Upper(st) \in Nat
  <2>1. n # 0 => m \in 1 .. m BY <1>1
  <2> QED BY <1>2, <2>1 DEF Upper, m
<1> QED BY <1>1, <1>3, <1>4, <1>5 DEF m

\* The function that runs, in the output.
LEMMA FunctionParts ==
  ASSUME NEW p \in Programs, NEW o, Shaped(p, o), NEW f \in DOMAIN p.funcs
  PROVE  LET d == p.funcs[f]
             c == o.funcs[Renumber(p, o, f)] IN
         /\ c.params = d.params /\ c.extra = d.extra /\ c.result = d.result
         /\ BuiltTo(p, o, f, c.body, Len(d.body) + 1)
         /\ d.params \in Nat /\ d.extra \in Nat /\ d.result \in 0 .. 1
<1>1. Built(p, o, f) BY DEF Shaped
<1>2. p.funcs[f] \in Function BY GuardInputs
<1> QED BY <1>1, <1>2 DEF Built, Function

Dropped(fs, x) == [SubSeq(fs, 1, Len(fs)-1) EXCEPT ![Len(fs)-1] = x]

LEMMA LandedBelow ==
  ASSUME NEW p, NEW o, NEW q, NEW s, Facing(p, o, q, s), Len(q.frames) # 1, NEW x \in Frame(p), NEW q1,
         q1.frames = Dropped(q.frames, x)
  PROVE  /\ q1.frames \in Seq(Frame(p)) /\ q1.frames # <<>>
         /\ Dropped(s.frames, Landed(p, o, x)) = AllLanded(p, o, q1)
<1> DEFINE F == q.frames
           G1 == s.frames
           n == Len(F)
           E == q1.frames
           T == {G1[i] : i \in 1 .. n}
           S == SubSeq(F, 1, n-1)
           U == SubSeq(G1, 1, n-1)
           H == [U EXCEPT ![n-1] = Landed(p, o, x)]
<1>1. /\ n \in Nat \ {0} /\ Len(G1) = n /\ F \in Seq(Frame(p)) /\ n # 1
      /\ G1 = [i \in 1 .. n |-> G1[i]] /\ \A i \in 1 .. n-1 : G1[i] = Landed(p, o, F[i])
  BY FacingParts DEF FramesBelow
<1>2. E = [S EXCEPT ![n-1] = x] BY DEF Dropped
<1>3. \A i \in 1 .. n : F[i] \in Frame(p) /\ G1[i] \in T
  <2>1. \A i \in 1 .. n : F[i] \in Frame(p) BY <1>1, ElementOfSeq
  <2> QED BY <2>1
<1> HIDE DEF F, G1, n, E, T
<1>4. n-1 \in Nat /\ 1 <= n-1 /\ \A i \in 1 .. n-1 : i \in 1 .. n /\ 1+i-1 = i BY <1>1
<1>5. S \in Seq(Frame(p)) /\ Len(S) = n-1 /\ \A i \in 1 .. n-1 : S[i] = F[i]
  <2>1. \A i \in 1 .. n-1 : F[i] \in Frame(p) BY <1>3, <1>4
  <2>2. S \in Seq(Frame(p)) /\ Len(S) = (IF 1 <= n-1 THEN (n-1)-1+1 ELSE 0)
        /\ \A i \in 1 .. (n-1)-1+1 : S[i] = F[1+i-1]
    BY <1>4, <2>1, SubSeqProperties
  <2> QED BY <1>4, <2>2
<1>6. U \in Seq(T) /\ Len(U) = n-1 /\ \A i \in 1 .. n-1 : U[i] = G1[i]
  <2>1. \A i \in 1 .. n-1 : G1[i] \in T BY <1>3, <1>4
  <2>2. U \in Seq(T) /\ Len(U) = (IF 1 <= n-1 THEN (n-1)-1+1 ELSE 0)
        /\ \A i \in 1 .. (n-1)-1+1 : U[i] = G1[1+i-1]
    BY <1>4, <2>1, SubSeqProperties
  <2> QED BY <1>4, <2>2
<1>6a. U \in [1 .. n-1 -> T] BY <1>6, LenProperties
<1> HIDE DEF S, U
<1>7. E \in Seq(Frame(p)) /\ Len(E) = n-1 /\ \A j \in 1 .. n-1 : E[j] = IF j = n-1 THEN x ELSE F[j]
  <2>1. n-1 \in 1 .. Len(S) BY <1>4, <1>5
  <2>2. E \in Seq(Frame(p)) /\ Len(E) = Len(S) /\ \A j \in 1 .. Len(S) : E[j] = IF j = n-1 THEN x ELSE S[j]
    BY <1>2, <1>5, <2>1, ExceptSeq
  <2> QED BY <1>5, <2>2
<1>8. E # <<>> BY <1>4, <1>7, EmptySeq
<1>9. H = [i \in 1 .. n-1 |-> IF i = n-1 THEN Landed(p, o, x) ELSE U[i]] BY <1>6a
<1>10. \A i \in 1 .. n-1 : H[i] = Landed(p, o, E[i])
  <2>1. ASSUME NEW i \in 1 .. n-1 PROVE H[i] = Landed(p, o, E[i])
    <3>1. CASE i = n-1 BY <1>7, <1>9, <3>1
    <3>2. CASE i # n-1 BY <1>1, <1>6, <1>7, <1>9, <3>2
    <3> QED BY <3>1, <3>2
  <2> QED BY <2>1
<1>11. AllLanded(p, o, q1) = [i \in 1 .. n-1 |-> Landed(p, o, E[i])] BY <1>7 DEF AllLanded, E
<1>12. H = AllLanded(p, o, q1)
  <2>1. DOMAIN H = 1 .. n-1 /\ H = [i \in 1 .. n-1 |-> H[i]] BY <1>9
  <2> HIDE DEF H
  <2> QED BY <1>10, <1>11, <2>1
<1> QED BY <1>1, <1>7, <1>8, <1>12, Zenon DEF E, n, G1, U, Dropped

LEMMA LeavePair ==
  ASSUME NEW p \in Programs, NEW o, Shaped(p, o), NEW q, NEW s, Facing(p, o, q, s), NEW st \in Seq(Nat),
         NEW q1, q1 = Leave(p, q, st), NEW s1, s1 = Leave(o, s, st)
  PROVE  Pair(p, o, q1, s1) /\ q1.trace = q.trace /\ s1.trace = s.trace
<1> DEFINE f == Active(q).fn
           n == Len(q.frames)
           r == p.funcs[f].result
           res == Tail0(st, r)
           to == q.frames[n-1]
           y == [fn |-> to.fn, pc |-> to.pc, stack |-> to.stack \o res, labels |-> to.labels, locals |-> to.locals]
           tz == s.frames[n-1]
           z == [fn |-> tz.fn, pc |-> tz.pc, stack |-> tz.stack \o res, labels |-> tz.labels, locals |-> tz.locals]
<1>1. /\ n \in Nat \ {0} /\ Len(s.frames) = n /\ q.frames \in Seq(Frame(p)) /\ FramesBelow(p, o, q, s)
      /\ Active(q) \in Frame(p) /\ Active(s) = Ready(p, o, Active(q)) /\ q.trace \in Seq(Call)
  BY FacingParts
<1>2. f \in DOMAIN p.funcs BY <1>1, FrameParts
<1>3. Active(s).fn = Renumber(p, o, f) BY <1>1 DEF Ready, FrameAt
<1>4. o.funcs[Active(s).fn].result = r /\ r \in 0 .. 1 BY <1>2, <1>3, FunctionParts
<1>5. q1 = IF Len(st) < r THEN Invalid(q) ELSE IF n = 1 THEN Halt(q, "done", res)
           ELSE [frames |-> Dropped(q.frames, y), trace |-> q.trace, status |-> q.status, result |-> q.result]
  BY Zenon DEF Leave, Dropped
<1>6. s1 = IF Len(st) < r THEN Invalid(s) ELSE IF n = 1 THEN Halt(s, "done", res)
           ELSE [frames |-> Dropped(s.frames, z), trace |-> s.trace, status |-> s.status, result |-> s.result]
  BY <1>1, <1>4, Zenon DEF Leave, Dropped
<1> HIDE DEF n, r, y, z, res, f
<1>7. CASE Len(st) < r BY <1>5, <1>6, <1>7, InvalidPair
<1>8. CASE ~(Len(st) < r) /\ n = 1
  <2>1. q1 = Halt(q, "done", res) /\ s1 = Halt(s, "done", res) BY <1>5, <1>6, <1>8
  <2> QED BY <2>1, HaltPair
<1>9. CASE ~(Len(st) < r) /\ n # 1
  <2>1. q1 = [frames |-> Dropped(q.frames, y), trace |-> q.trace, status |-> q.status, result |-> q.result]
        /\ s1 = [frames |-> Dropped(s.frames, z), trace |-> s.trace, status |-> s.status, result |-> s.result]
    BY <1>5, <1>6, <1>9
  <2>2. /\ q1.frames = Dropped(q.frames, y) /\ q1.trace = q.trace /\ q1.status = q.status /\ q1.result = q.result
        /\ s1.frames = Dropped(s.frames, z) /\ s1.trace = s.trace /\ s1.status = s.status /\ s1.result = s.result
    BY <2>1
  <2>3. n-1 \in 1 .. n /\ n-1 \in 1 .. n-1 BY <1>1, <1>9
  <2>4. to \in Frame(p) BY <1>1, <2>3, ElementOfSeq DEF n
  <2>5. tz = Landed(p, o, to) BY <1>1, <2>3 DEF FramesBelow, n
  <2> HIDE DEF to, tz
  <2>6. /\ to.fn \in DOMAIN p.funcs /\ to.pc \in 1 .. Len(p.funcs[to.fn].body)+1 /\ to.stack \in Seq(Nat)
        /\ to.labels \in Seq(LabelsTo(Len(p.funcs[to.fn].body))) /\ to.locals \in LocalsOf(p.funcs[to.fn])
    BY <2>4, FrameParts
  <2>7. to.stack \o res \in Seq(Nat)
    <3>1. Len(st) \in Nat BY LenProperties
    <3>2. r \in 0 .. Len(st) BY <1>4, <1>9, <3>1
    <3>3. res \in Seq(Nat) BY <3>2, Operands DEF res
    <3> QED BY <2>6, <3>3, ConcatProperties
  <2>8. y \in Frame(p) BY <2>6, <2>7, NewFrame DEF y
  <2>9. z = Landed(p, o, y) BY <2>5 DEF y, z, Landed, FrameAt
  <2>10. q1.frames \in Seq(Frame(p)) /\ q1.frames # <<>> /\ s1.frames = AllLanded(p, o, q1)
    BY <1>9, <2>2, <2>8, <2>9, LandedBelow DEF n
  <2>11. s.status = q.status /\ s.result = q.result BY DEF Facing
  <2> QED BY <1>1, <2>2, <2>10, <2>11 DEF Pair, Good
<1> QED BY <1>7, <1>8, <1>9

LEMMA ThenPair ==
  ASSUME NEW p \in Programs, NEW o, NEW q, NEW s, Facing(p, o, q, s), NEW f, f = Active(q).fn,
         Active(q).pc \in 1 .. Len(p.funcs[f].body), NEW st \in Seq(Nat),
         NEW ls \in Seq(LabelsTo(Len(p.funcs[f].body))),
         NEW q1, q1 = Then(q, st, ls), NEW s1, s1 = Then(s, st, MapLabels(p, f, ls))
  PROVE  Pair(p, o, q1, s1) /\ q1.trace = q.trace /\ s1.trace = s.trace
<1> DEFINE n == Len(p.funcs[f].body)
           x == Active(q).pc + 1
           loc == Active(q).locals
<1>1. Active(q) \in Frame(p) /\ Active(s) = Ready(p, o, Active(q)) BY FacingParts
<1>2. f \in DOMAIN p.funcs /\ loc \in LocalsOf(p.funcs[f]) BY <1>1, FrameParts
<1>3. n \in Nat BY <1>2, OldBody
<1>4. x \in 1 .. n+1 /\ Active(q).pc \in Int
  <2> DEFINE y == Active(q).pc
  <2>1. y \in 1 .. n BY DEF n
  <2> HIDE DEF y, n
  <2> QED BY <1>3, <2>1 DEF y
<1>5. Active(s).pc = Moved(p, f, Active(q).pc) /\ Active(s).locals = loc BY <1>1 DEF Ready, FrameAt
<1>6. Landing(p, f, x) = Active(s).pc + 1 BY <1>2, <1>4, <1>5, NextPlace
<1>7. q1 = GoOn(q, x, st, ls, loc) BY DEF Then
<1>8. s1 = GoOn(s, Landing(p, f, x), st, MapLabels(p, f, ls), loc) BY <1>5, <1>6 DEF Then
<1>9. x \in 1 .. Len(p.funcs[f].body)+1 BY <1>4
<1> HIDE DEF x, loc, n
<1>10. Pair(p, o, GoOn(q, x, st, ls, loc), GoOn(s, Landing(p, f, x), st, MapLabels(p, f, ls), loc))
  BY <1>2, <1>9, GoOnPair
<1>11. GoOn(q, x, st, ls, loc).trace = q.trace
       /\ GoOn(s, Landing(p, f, x), st, MapLabels(p, f, ls), loc).trace = s.trace BY DEF GoOn
<1> QED BY <1>7, <1>8, <1>10, <1>11

LEMMA AnswerType == ASSUME NEW args \in Seq(Nat) PROVE Answer(args) \in Nat
<1>1. CASE args = <<>> BY <1>1 DEF Answer
<1>2. CASE args # <<>>
  <2>1. Len(args) \in Nat \ {0} BY <1>2, EmptySeq
  <2>2. args[1] \in Nat BY <2>1, ElementOfSeq
  <2>3. Width \in Nat \ {0} BY WasmWidth
  <2>4. (args[1] + 1) % Width \in 0 .. Width-1 BY <2>2, <2>3
  <2> QED BY <1>2, <2>3, <2>4 DEF Answer
<1> QED BY <1>1, <1>2

LEMMA HostPair ==
  ASSUME NEW p \in Programs, NEW o, Shaped(p, o), NEW q, NEW s, Facing(p, o, q, s), NEW f, f = Active(q).fn,
         Active(q).pc \in 1 .. Len(p.funcs[f].body), NEW k \in Imports(p),
         ~(Len(Active(q).stack) < p.imports[k+1].params),
         NEW q1, q1 = HostCall(p, q, k), NEW s1, s1 = HostCall(o, s, k)
  PROVE  Pair(p, o, q1, s1) /\ SameCall(q, s, q1, s1)
<1> DEFINE h == p.imports[k+1]
           st == Active(q).stack
           args == Tail0(st, h.params)
           res == IF h.result = 1 THEN <<Answer(args)>> ELSE <<>>
           st1 == Drop0(st, h.params) \o res
           ls == Active(q).labels
           q2 == Then(q, st1, ls)
           s2 == Then(s, st1, MapLabels(p, f, ls))
           c == <<h.name, args>>
<1>1. Active(q) \in Frame(p) /\ Active(s) = Ready(p, o, Active(q)) BY FacingParts
<1>2. f \in DOMAIN p.funcs /\ st \in Seq(Nat) /\ ls \in Seq(LabelsTo(Len(p.funcs[f].body))) BY <1>1, FrameParts
<1>3. h \in [name : STRING, params : Nat, result : 0 .. 1, ends : BOOLEAN] /\ k+1 \in 1 .. Len(p.imports)
  <2>1. k+1 \in 1 .. Len(p.imports) BY ImportsOf DEF Imports
  <2> QED BY <2>1, ImportsOf, ElementOfSeq
<1>4. o.imports[k+1] = h BY <1>3 DEF Shaped, SameImports
<1>5. Active(s).stack = st /\ Active(s).labels = MapLabels(p, f, ls) BY <1>1 DEF Ready, FrameAt
<1>6. q1 = [frames |-> q2.frames, trace |-> Append(q.trace, c),
            status |-> IF h.ends THEN "ended" ELSE q.status, result |-> q.result]
  BY DEF HostCall
<1>7. s1 = [frames |-> s2.frames, trace |-> Append(s.trace, c),
            status |-> IF h.ends THEN "ended" ELSE s.status, result |-> s.result]
  BY <1>4, <1>5 DEF HostCall
<1>8. args \in Seq(Nat) /\ Drop0(st, h.params) \in Seq(Nat)
  <2>1. Len(st) \in Nat /\ h.params \in Nat BY <1>2, <1>3, LenProperties
  <2>2. h.params \in 0 .. Len(st) BY <2>1
  <2> HIDE DEF st, h
  <2> QED BY <1>2, <2>2, Operands
<1>9. st1 \in Seq(Nat)
  <2>1. Answer(args) \in Nat BY <1>8, AnswerType
  <2>2. res \in Seq(Nat) BY <2>1
  <2> HIDE DEF res, args
  <2> QED BY <1>8, <2>2, ConcatProperties
<1>10. c \in Call BY <1>3, <1>8 DEF Call
<1>11. Pair(p, o, q2, s2)
  <2>1. q2 = Then(q, st1, ls) /\ s2 = Then(s, st1, MapLabels(p, f, ls)) OBVIOUS
  <2> HIDE DEF st1, q2, s2, ls, st
  <2> QED BY <1>2, <1>9, <2>1, ThenPair
<1> HIDE DEF q2, s2, c, h
<1>12. q1.frames = q2.frames /\ q1.trace = Append(q.trace, c) /\ s1.frames = s2.frames
       /\ s1.trace = Append(s.trace, c) /\ q1.result = q.result /\ s1.result = s.result
       /\ q1.status = (IF h.ends THEN "ended" ELSE q.status) /\ s1.status = (IF h.ends THEN "ended" ELSE s.status)
  BY <1>6, <1>7
<1>13. s.status = q.status /\ s.result = q.result /\ q.trace \in Seq(Call) BY FacingParts DEF Facing
<1>14. q1.frames # <<>>
  <2>1. q2.status = q.status BY DEF q2, Then, GoOn
  <2>2. Running(q) BY DEF Facing
  <2> QED BY <1>11, <1>12, <2>1, <2>2 DEF Pair, Good, Running
<1>15. Good(p, q1)
  <2>1. q1.frames \in Seq(Frame(p)) BY <1>11, <1>12 DEF Pair, Good
  <2>2. q1.trace \in Seq(Call) BY <1>10, <1>12, <1>13, AppendProperties
  <2> QED BY <1>14, <2>1, <2>2 DEF Good
<1>16. s1.frames = AllLanded(p, o, q1) BY <1>11, <1>12 DEF Pair, AllLanded
<1> QED BY <1>10, <1>12, <1>13, <1>15, <1>16 DEF Pair, SameCall

OneMore(q, q1, x) == q1.frames = Append(q.frames, x)
LandedOn(p, o, q, q1, x) == Append(AllLanded(p, o, q), Landed(p, o, x)) = AllLanded(p, o, q1)

LEMMA LandedMore ==
  ASSUME NEW p, NEW o, NEW q2, q2.frames \in Seq(Frame(p)), NEW x \in Frame(p), NEW q1,
         OneMore(q2, q1, x)
  PROVE  q1.frames \in Seq(Frame(p)) /\ q1.frames # <<>> /\ LandedOn(p, o, q2, q1, x)
<1> DEFINE F == q2.frames
           E == q1.frames
           n == Len(F)
           A == AllLanded(p, o, q2)
           B == AllLanded(p, o, q1)
           T == {Landed(p, o, y) : y \in Frame(p)}
           H == Append(A, Landed(p, o, x))
<1>1. n \in Nat /\ \A i \in 1 .. n : F[i] \in Frame(p) BY LenProperties, ElementOfSeq
<1>2. E \in Seq(Frame(p)) /\ E # <<>> /\ Len(E) = n+1 /\ (\A i \in 1 .. n : E[i] = F[i]) /\ E[n+1] = x
  BY AppendProperties DEF OneMore
<1>3. A = [i \in 1 .. n |-> Landed(p, o, F[i])] BY DEF AllLanded
<1>4. B = [i \in 1 .. n+1 |-> Landed(p, o, E[i])] BY <1>2 DEF AllLanded
<1>5. \A i \in 1 .. n+1 : E[i] \in Frame(p)
  <2>1. \A i \in 1 .. Len(E) : E[i] \in Frame(p) BY <1>2, ElementOfSeq
  <2> QED BY <1>2, <2>1
<1> HIDE DEF E, F, A, B, n
<1>6. A \in [1 .. n -> T] /\ B \in [1 .. n+1 -> T] /\ Landed(p, o, x) \in T BY <1>1, <1>3, <1>4, <1>5
<1> HIDE DEF T
<1>7. A \in Seq(T) /\ Len(A) = n BY <1>1, <1>6, FunctionIsSeq
<1>8. B \in Seq(T) /\ Len(B) = n+1
  <2>1. n+1 \in Nat BY <1>1
  <2> QED BY <1>6, <2>1, FunctionIsSeq
<1>9. H \in Seq(T) /\ Len(H) = n+1 /\ (\A i \in 1 .. n : H[i] = A[i]) /\ H[n+1] = Landed(p, o, x)
  BY <1>6, <1>7, AppendProperties
<1> HIDE DEF H
<1>10. \A i \in 1 .. n+1 : H[i] = B[i]
  <2>1. ASSUME NEW i \in 1 .. n+1 PROVE H[i] = B[i]
    <3>1. CASE i = n+1 BY <1>2, <1>4, <1>9, <3>1
    <3>2. CASE i # n+1
      <4>1. i \in 1 .. n BY <1>1, <3>2
      <4> QED BY <1>2, <1>3, <1>4, <1>9, <4>1
    <3> QED BY <3>1, <3>2
  <2> QED BY <2>1
<1>11. H = B BY <1>8, <1>9, <1>10, SeqEqual
<1> QED BY <1>2, <1>11 DEF E, A, B, H, LandedOn

\* A function that is entered.
LEMMA EnterLanded ==
  ASSUME NEW p \in Programs, NEW o, Shaped(p, o), NEW k \in DOMAIN p.funcs, NEW args \in Seq(Nat),
         Len(args) = p.funcs[k].params
  PROVE  /\ Enter(p.funcs[k], k, args) \in Frame(p)
         /\ Enter(o.funcs[Renumber(p, o, k)], Renumber(p, o, k), args) = Landed(p, o, Enter(p.funcs[k], k, args))
<1> DEFINE g == p.funcs[k]
           h == o.funcs[Renumber(p, o, k)]
           zeros == [j \in 1 .. g.extra |-> 0]
           loc == args \o zeros
           n == Len(g.body)
           e == Enter(g, k, args)
<1>1. h.extra = g.extra /\ g.params \in Nat /\ g.extra \in Nat BY FunctionParts
<1>2. zeros \in Seq(Nat) /\ Len(zeros) = g.extra
  <2>1. zeros \in [1 .. g.extra -> Nat] OBVIOUS
  <2> HIDE DEF zeros
  <2> QED BY <1>1, <2>1, FunctionIsSeq
<1> HIDE DEF zeros
<1>3. loc \in LocalsOf(g)
  <2>1. loc \in Seq(Nat) /\ Len(loc) = Len(args) + Len(zeros) BY <1>2, ConcatProperties
  <2> QED BY <1>1, <1>2, <2>1 DEF LocalsOf
<1>4. n \in Nat BY OldBody
<1>5. <<>> \in Seq(LabelsTo(n)) /\ <<>> \in Seq(Nat) /\ 1 \in 1 .. n+1 BY <1>4, EmptySeq
<1>6. e = [fn |-> k, pc |-> 1, stack |-> <<>>, labels |-> <<>>, locals |-> loc] BY DEF Enter, zeros
<1>7. Enter(h, Renumber(p, o, k), args)
      = [fn |-> Renumber(p, o, k), pc |-> 1, stack |-> <<>>, labels |-> <<>>, locals |-> loc]
  BY <1>1 DEF Enter, zeros
<1> HIDE DEF loc, e
<1>8. e \in Frame(p) BY <1>3, <1>5, <1>6, NewFrame
<1>9. Landing(p, k, 1) = 1
  <2>1. Landing(p, k, 0+1) = Moved(p, k, 0) + 1 /\ Moved(p, k, 0) = 0 BY NextPlace
  <2> QED BY <2>1
<1>10. MapLabels(p, k, <<>>) = <<>> BY <1>4, <1>5, MapNoLabels
<1>11. Landed(p, o, e) = [fn |-> Renumber(p, o, k), pc |-> 1, stack |-> <<>>, labels |-> <<>>, locals |-> loc]
  BY <1>6, <1>9, <1>10 DEF Landed, FrameAt
<1> QED BY <1>7, <1>8, <1>11 DEF e

LEMMA GuestPair ==
  ASSUME NEW p \in Programs, NEW o, Shaped(p, o), NEW q, NEW s, Facing(p, o, q, s), NEW f, f = Active(q).fn,
         Active(q).pc \in 1 .. Len(p.funcs[f].body), NEW k \in DOMAIN p.funcs,
         ~(Len(Active(q).stack) < p.funcs[k].params),
         NEW q1, q1 = GuestCall(p, q, k), NEW s1, s1 = GuestCall(o, s, Renumber(p, o, k))
  PROVE  Pair(p, o, q1, s1) /\ q1.trace = q.trace /\ s1.trace = s.trace
<1> DEFINE g == p.funcs[k]
           h == o.funcs[Renumber(p, o, k)]
           st == Active(q).stack
           args == Tail0(st, g.params)
           st1 == Drop0(st, g.params)
           ls == Active(q).labels
           q2 == Then(q, st1, ls)
           s2 == Then(s, st1, MapLabels(p, f, ls))
           e == Enter(g, k, args)
           eo == Enter(h, Renumber(p, o, k), args)
<1>1. Active(q) \in Frame(p) /\ Active(s) = Ready(p, o, Active(q)) BY FacingParts
<1>2. f \in DOMAIN p.funcs /\ st \in Seq(Nat) /\ ls \in Seq(LabelsTo(Len(p.funcs[f].body))) BY <1>1, FrameParts
<1>3. h.params = g.params /\ g.params \in Nat BY FunctionParts
<1>4. Active(s).stack = st /\ Active(s).labels = MapLabels(p, f, ls) BY <1>1 DEF Ready, FrameAt
<1>5. q1 = [frames |-> Append(q2.frames, e), trace |-> q.trace, status |-> q.status, result |-> q.result]
  BY Zenon DEF GuestCall
<1>6. s1 = [frames |-> Append(s2.frames, eo), trace |-> s.trace, status |-> s.status, result |-> s.result]
  BY <1>3, <1>4, Zenon DEF GuestCall
<1>7. args \in Seq(Nat) /\ Len(args) = g.params /\ st1 \in Seq(Nat)
  <2>1. Len(st) \in Nat BY <1>2, LenProperties
  <2>2. g.params \in 0 .. Len(st) BY <1>3, <2>1
  <2> HIDE DEF st, g
  <2> QED BY <1>2, <2>2, Operands
<1>8. e \in Frame(p) /\ eo = Landed(p, o, e)
  <2> HIDE DEF args
  <2> QED BY <1>7, EnterLanded
<1>9. Pair(p, o, q2, s2)
  <2>1. q2 = Then(q, st1, ls) /\ s2 = Then(s, st1, MapLabels(p, f, ls)) OBVIOUS
  <2>2. st1 \in Seq(Nat) BY <1>7
  <2> HIDE DEF st1, q2, s2, ls, st, args, e, eo
  <2> QED BY <1>2, <2>1, <2>2, ThenPair
<1> HIDE DEF q2, s2, e, eo
<1>10. /\ q1.frames = Append(q2.frames, e) /\ q1.trace = q.trace /\ q1.status = q.status /\ q1.result = q.result
       /\ s1.frames = Append(s2.frames, eo) /\ s1.trace = s.trace /\ s1.status = s.status /\ s1.result = s.result
  BY <1>5, <1>6
<1>11. q2.frames \in Seq(Frame(p)) /\ s2.frames = AllLanded(p, o, q2) BY <1>9 DEF Pair, Good
<1>12. q1.frames \in Seq(Frame(p)) /\ q1.frames # <<>> /\ s1.frames = AllLanded(p, o, q1)
  <2>1. OneMore(q2, q1, e) /\ e \in Frame(p) /\ q2.frames \in Seq(Frame(p)) BY <1>8, <1>10, <1>11 DEF OneMore
  <2>2. q1.frames \in Seq(Frame(p)) /\ q1.frames # <<>> /\ LandedOn(p, o, q2, q1, e) BY <2>1, LandedMore
  <2> QED BY <1>8, <1>10, <1>11, <2>2 DEF LandedOn
<1>13. s.status = q.status /\ s.result = q.result /\ q.trace \in Seq(Call) BY FacingParts DEF Facing
<1> QED BY <1>10, <1>12, <1>13 DEF Pair, Good

\* The part of a label's stack that a branch keeps.
Kept(st, l) == SubSeq(st, 1, l.height) \o Tail0(st, l.arity)
KeepsLabels(ls, l, d) == SubSeq(ls, 1, Len(ls) - d - (IF l.loop THEN 0 ELSE 1))

LEMMA KeptType ==
  ASSUME NEW st \in Seq(Nat), NEW l, l.height \in Nat, l.arity \in Nat, ~(Len(st) < l.height + l.arity)
  PROVE  Kept(st, l) \in Seq(Nat)
<1> DEFINE m == Len(st)
           h == l.height
           a == l.arity
<1>1. m \in Nat /\ h \in Nat /\ a \in Nat /\ h + a <= m BY LenProperties
<1>2. \A i \in 1 .. m : st[i] \in Nat BY ElementOfSeq
<1>3. a \in 0 .. m /\ (\A i \in 1 .. h : i \in 1 .. m) /\ 1 \in Int /\ h \in Int
  <2> HIDE DEF m, h, a
  <2> QED BY <1>1
<1>4. Tail0(st, a) \in Seq(Nat) BY <1>3, Operands
<1>5. SubSeq(st, 1, h) \in Seq(Nat)
  <2>1. \A i \in 1 .. h : st[i] \in Nat BY <1>2, <1>3
  <2> HIDE DEF h
  <2> QED BY <1>3, <2>1, SubSeqProperties
<1> QED BY <1>4, <1>5, ConcatProperties DEF Kept

\* Both go on, at x of the input and where it lies in the output.
GoesTo(p, q, f, x, st, ls, loc) ==
  /\ f = Active(q).fn /\ x \in 1 .. Len(p.funcs[f].body)+1 /\ st \in Seq(Nat)
  /\ ls \in Seq(LabelsTo(Len(p.funcs[f].body))) /\ loc \in LocalsOf(p.funcs[f])
MappedTo(p, s, f, x, st, ls, loc) == GoOn(s, Landing(p, f, x), st, MapLabels(p, f, ls), loc)

LEMMA GoesPair ==
  ASSUME NEW p \in Programs, NEW o, NEW q, NEW s, Facing(p, o, q, s), NEW f, NEW x, NEW st, NEW ls, NEW loc,
         GoesTo(p, q, f, x, st, ls, loc), NEW q1, q1 = GoOn(q, x, st, ls, loc),
         NEW s1, s1 = MappedTo(p, s, f, x, st, ls, loc)
  PROVE  Pair(p, o, q1, s1) /\ q1.trace = q.trace /\ s1.trace = s.trace
<1>1. f = Active(q).fn /\ x \in 1 .. Len(p.funcs[f].body)+1 /\ st \in Seq(Nat)
      /\ ls \in Seq(LabelsTo(Len(p.funcs[f].body))) /\ loc \in LocalsOf(p.funcs[f]) BY DEF GoesTo
<1>2. s1 = GoOn(s, Landing(p, f, x), st, MapLabels(p, f, ls), loc) BY DEF MappedTo
<1> QED BY <1>1, <1>2, GoOnPair

LEMMA BranchPair ==
  ASSUME NEW p \in Programs, NEW o, Shaped(p, o), NEW q, NEW s, Facing(p, o, q, s), NEW d \in Nat,
         NEW st \in Seq(Nat), NEW q1, q1 = Branch(p, q, d, st), NEW s1, s1 = Branch(o, s, d, st)
  PROVE  Pair(p, o, q1, s1) /\ q1.trace = q.trace /\ s1.trace = s.trace
<1> DEFINE f == Active(q).fn
           n == Len(p.funcs[f].body)
           ls == Active(q).labels
           ms == MapLabels(p, f, ls)
           m == Len(ls)
           l == ls[m-d]
           ml == ms[m-d]
           loc == Active(q).locals
<1>1. Active(q) \in Frame(p) /\ Active(s) = Ready(p, o, Active(q)) BY FacingParts
<1>2. f \in DOMAIN p.funcs /\ ls \in Seq(LabelsTo(n)) /\ loc \in LocalsOf(p.funcs[f]) BY <1>1, FrameParts
<1>3. n \in Nat BY <1>2, OldBody
<1>4. Active(s).labels = ms /\ Active(s).locals = loc BY <1>1 DEF Ready, FrameAt
<1>5. Len(ms) = m /\ m \in Nat /\ \A j \in 1 .. m : ms[j] = MapLabel(p, f, ls[j])
  <2> HIDE DEF ls, n
  <2> QED BY <1>2, <1>3, MapLabelsType DEF n
<1>6. q1 = IF d > m THEN Invalid(q) ELSE IF d = m THEN Leave(p, q, st)
           ELSE IF Len(st) < l.height + l.arity THEN Invalid(q)
           ELSE GoOn(q, l.to, Kept(st, l), KeepsLabels(ls, l, d), loc)
  BY DEF Branch, Kept, KeepsLabels
<1>7. s1 = IF d > m THEN Invalid(s) ELSE IF d = m THEN Leave(o, s, st)
           ELSE IF Len(st) < ml.height + ml.arity THEN Invalid(s)
           ELSE GoOn(s, ml.to, Kept(st, ml), KeepsLabels(ms, ml, d), loc)
  BY <1>4, <1>5 DEF Branch, Kept, KeepsLabels
<1> HIDE DEF f, n, ls, ms, m, l, ml, loc
<1>8. CASE d > m BY <1>6, <1>7, <1>8, InvalidPair
<1>9. CASE ~(d > m) /\ d = m
  <2>1. q1 = Leave(p, q, st) /\ s1 = Leave(o, s, st) BY <1>6, <1>7, <1>9
  <2> QED BY <2>1, LeavePair
<1>10. CASE ~(d > m) /\ d # m
  <2>1. m-d \in 1 .. m BY <1>5, <1>10
  <2>2. ml = MapLabel(p, f, l) BY <1>5, <2>1 DEF l, ml
  <2>3. l.to \in 1 .. n+1 /\ l.height \in Nat /\ l.arity \in Nat /\ l.loop \in BOOLEAN
    <3>1. m-d \in 1 .. Len(ls) BY <2>1 DEF m
    <3> QED BY <1>2, <1>3, <3>1, LabelParts DEF l
  <2>4. ml.to = Landing(p, f, l.to) /\ ml.height = l.height /\ ml.arity = l.arity /\ ml.loop = l.loop
    BY <2>2 DEF MapLabel
  <2>5. CASE Len(st) < l.height + l.arity BY <1>6, <1>7, <1>10, <2>4, <2>5, InvalidPair
  <2>6. CASE ~(Len(st) < l.height + l.arity)
    <3> DEFINE t == IF l.loop THEN m-d ELSE m-d-1
               ls1 == SubSeq(ls, 1, t)
    <3>1. t \in 0 .. m /\ m - d - (IF l.loop THEN 0 ELSE 1) = t BY <1>5, <1>10, <2>3
    <3>2. KeepsLabels(ls, l, d) = ls1 /\ KeepsLabels(ms, ml, d) = SubSeq(ms, 1, t)
      BY <1>5, <2>4, <3>1 DEF KeepsLabels, m
    <3>3. ls1 \in Seq(LabelsTo(n)) /\ MapLabels(p, f, ls1) = SubSeq(ms, 1, t)
      <4>1. t \in 0 .. Len(ls) BY <3>1 DEF m
      <4> HIDE DEF t
      <4> QED BY <1>2, <1>3, <4>1, MapLabelsParts DEF ms
    <3>4. Kept(st, l) \in Seq(Nat) BY <2>3, <2>6, KeptType
    <3>5. Kept(st, ml) = Kept(st, l) BY <2>4 DEF Kept
    <3> DEFINE k1 == Kept(st, l)
    <3> HIDE DEF t, ls1, k1
    <3>6. q1 = GoOn(q, l.to, k1, ls1, loc) BY <1>6, <1>10, <2>6, <3>2 DEF k1
    <3>7. s1 = GoOn(s, Landing(p, f, l.to), k1, MapLabels(p, f, ls1), loc)
      BY <1>7, <1>10, <2>4, <2>6, <3>2, <3>3, <3>5 DEF k1
    <3>8. k1 \in Seq(Nat) BY <3>4 DEF k1
    <3> DEFINE y == l.to
    <3>9. y \in 1 .. Len(p.funcs[f].body)+1 BY <2>3 DEF n
    <3>10. ls1 \in Seq(LabelsTo(Len(p.funcs[f].body))) BY <3>3 DEF n
    <3>11. q1 = GoOn(q, y, k1, ls1, loc) /\ s1 = GoOn(s, Landing(p, f, y), k1, MapLabels(p, f, ls1), loc)
      BY <3>6, <3>7
    <3>12. f = Active(q).fn BY DEF f
    <3> HIDE DEF y
    <3>13. GoesTo(p, q, f, y, k1, ls1, loc) BY <1>2, <3>8, <3>9, <3>10, <3>12 DEF GoesTo
    <3>14. q1 = GoOn(q, y, k1, ls1, loc) /\ s1 = MappedTo(p, s, f, y, k1, ls1, loc) BY <3>11 DEF MappedTo
    <3> QED BY <3>13, <3>14, GoesPair
  <2> QED BY <2>5, <2>6
<1> QED BY <1>5, <1>8, <1>9, <1>10

WithLocal(loc, n, v) == [loc EXCEPT ![n+1] = v]

\* The step t of s, in frame f with body b at operator i, by that operator.
Arms(p, s, f, b, i, t) ==
  /\ i.op = "const" => t = Then(s, Append(f.stack, i.n % Width), f.labels)
  /\ i.op = "get"   => t = Then(s, Append(f.stack, f.locals[i.n+1]), f.labels)
  /\ i.op = "set"   => t = GoOn(s, f.pc + 1, Drop0(f.stack, 1), f.labels, WithLocal(f.locals, i.n, Upper(f.stack)))
  /\ i.op = "tee"   => t = GoOn(s, f.pc + 1, f.stack, f.labels, WithLocal(f.locals, i.n, Upper(f.stack)))
  /\ i.op = "add"   =>
       t = Then(s, Append(Drop0(f.stack, 2), (Upper(f.stack) + Upper(Drop0(f.stack, 1))) % Width), f.labels)
  /\ i.op = "eqz"   => t = Then(s, Append(Drop0(f.stack, 1), IF Upper(f.stack) = 0 THEN 1 ELSE 0), f.labels)
  /\ i.op = "drop"  => t = Then(s, Drop0(f.stack, 1), f.labels)
  /\ i.op = "call"  => t = IF i.n < Len(p.imports) THEN HostCall(p, s, i.n) ELSE GuestCall(p, s, i.n)
  /\ i.op = "block" => t = Then(s, f.stack, Entering(s, EndOf(b, f.pc)+1, i.n, FALSE, f.stack))
  /\ i.op = "loop"  => t = Then(s, f.stack, Entering(s, f.pc+1, 0, TRUE, f.stack))
  /\ i.op = "if" /\ Upper(f.stack) # 0 =>
       t = Then(s, Drop0(f.stack, 1), Entering(s, EndOf(b, f.pc)+1, i.n, FALSE, Drop0(f.stack, 1)))
  /\ i.op = "if" /\ Upper(f.stack) = 0 => t = Otherwise(b, s, i, Drop0(f.stack, 1))
  /\ i.op = "else"  => t = GoOn(s, EndOf(b, f.pc), f.stack, f.labels, f.locals)
  /\ i.op = "end" /\ f.labels = <<>> => t = Leave(p, s, f.stack)
  /\ i.op = "end" /\ f.labels # <<>> => t = Then(s, f.stack, SubSeq(f.labels, 1, Len(f.labels)-1))
  /\ i.op = "br"    => t = Branch(p, s, i.n, f.stack)
  /\ i.op = "br_if" /\ Upper(f.stack) # 0 => t = Branch(p, s, i.n, Drop0(f.stack, 1))
  /\ i.op = "br_if" /\ Upper(f.stack) = 0 => t = Then(s, Drop0(f.stack, 1), f.labels)
  /\ i.op = "br_table" => t = Branch(p, s, IF Upper(f.stack) = 0 THEN 0 ELSE i.n, Drop0(f.stack, 1))
  /\ i.op = "ret"   => t = Leave(p, s, f.stack)
  /\ i.op = "trap"  => t = Halt(s, "trap", s.result)

LEMMA StepIs ==
  ASSUME NEW p, NEW s, NEW b, b = p.funcs[Active(s).fn].body, NEW i, i = Current(p, s)
  PROVE  /\ Active(s).pc \notin DOMAIN b \/ Len(Active(s).stack) < Takes(p, i) => Step(p, s) = Invalid(s)
         /\ ~(Active(s).pc \notin DOMAIN b \/ Len(Active(s).stack) < Takes(p, i)) =>
              Arms(p, s, Active(s), b, i, Step(p, s))
<1> DEFINE f == Active(s)
           st == f.stack
           top == Upper(st)
           st1 == Drop0(st, 1)
           bad == f.pc \notin DOMAIN b \/ Len(st) < Takes(p, i)
           t == Step(p, s)
<1>1. ASSUME bad PROVE t = Invalid(s) BY <1>1 DEF Step
<1>2. ASSUME ~bad PROVE Arms(p, s, f, b, i, t)
  <2>1. t =
          CASE i.op = "const" -> Then(s, Append(st, i.n % Width), f.labels)
            [] i.op = "get"   -> Then(s, Append(st, f.locals[i.n+1]), f.labels)
            [] i.op \in {"set", "tee"} ->
                 GoOn(s, f.pc + 1, IF i.op = "set" THEN st1 ELSE st, f.labels,
                      WithLocal(f.locals, i.n, top))
            [] i.op = "add"   -> Then(s, Append(Drop0(st, 2), (top + Upper(st1)) % Width), f.labels)
            [] i.op = "eqz"   -> Then(s, Append(st1, IF top = 0 THEN 1 ELSE 0), f.labels)
            [] i.op = "drop"  -> Then(s, st1, f.labels)
            [] i.op = "call"  -> IF i.n < Len(p.imports) THEN HostCall(p, s, i.n) ELSE GuestCall(p, s, i.n)
            [] i.op = "block" -> Then(s, st, Entering(s, EndOf(b, f.pc)+1, i.n, FALSE, st))
            [] i.op = "loop"  -> Then(s, st, Entering(s, f.pc+1, 0, TRUE, st))
            [] i.op = "if"    -> IF top # 0 THEN Then(s, st1, Entering(s, EndOf(b, f.pc)+1, i.n, FALSE, st1))
                                 ELSE Otherwise(b, s, i, st1)
            [] i.op = "else"  -> GoOn(s, EndOf(b, f.pc), st, f.labels, f.locals)
            [] i.op = "end"   -> IF f.labels = <<>> THEN Leave(p, s, st)
                                 ELSE Then(s, st, SubSeq(f.labels, 1, Len(f.labels)-1))
            [] i.op = "br"    -> Branch(p, s, i.n, st)
            [] i.op = "br_if" -> IF top # 0 THEN Branch(p, s, i.n, st1) ELSE Then(s, st1, f.labels)
            [] i.op = "br_table" -> Branch(p, s, IF top = 0 THEN 0 ELSE i.n, st1)
            [] i.op = "ret"   -> Leave(p, s, st)
            [] i.op = "trap"  -> Halt(s, "trap", s.result)
    BY <1>2 DEF Step, WithLocal
  <2> HIDE DEF t
  <2> QED BY <2>1, Zenon DEF Arms
<1> QED BY <1>1, <1>2

(* Where q and s are, when the operator at hand is i. *)
Spot(p, o, q, s, f, x, b, c, i, j) ==
  /\ f = Active(q).fn /\ x = Active(q).pc /\ f \in DOMAIN p.funcs /\ b = p.funcs[f].body /\ x \in 1 .. Len(b)
  /\ i = Current(p, q) /\ i = b[x] /\ i \in Operator
  /\ c = o.funcs[Active(s).fn].body /\ BuiltTo(p, o, f, c, Len(b) + 1)
  /\ j = Current(o, s) /\ j = Image(p, o, i)
  /\ Active(q).stack \in Seq(Nat) /\ Active(q).labels \in Seq(LabelsTo(Len(b)))
  /\ Active(q).locals \in LocalsOf(p.funcs[f])
  /\ Active(s).pc = Moved(p, f, x) /\ Active(s).stack = Active(q).stack
  /\ Active(s).labels = MapLabels(p, f, Active(q).labels) /\ Active(s).locals = Active(q).locals

Laid(p, o, f, b, c) == f \in DOMAIN p.funcs /\ b = p.funcs[f].body /\ BuiltTo(p, o, f, c, Len(b) + 1)
LaidAt(p, o, f, b, c, k) == Moved(p, f, k) \in 1 .. Len(c) /\ c[Moved(p, f, k)] = Image(p, o, b[k])

LEMMA PlaceOf ==
  ASSUME NEW p \in Programs, NEW o, NEW f, NEW b, NEW c, Laid(p, o, f, b, c), NEW k, k \in 1 .. Len(b)
  PROVE  LaidAt(p, o, f, b, c, k)
<1>1. /\ f \in DOMAIN p.funcs /\ b = p.funcs[f].body /\ k \in 1 .. Len(p.funcs[f].body)
      /\ BuiltTo(p, o, f, c, Len(p.funcs[f].body) + 1) BY DEF Laid
<1>2. Moved(p, f, k) \in 1 .. Len(c) /\ c[Moved(p, f, k)] = Image(p, o, p.funcs[f].body[k]) BY <1>1, Places
<1> QED BY <1>1, <1>2 DEF LaidAt

LEMMA SpotOf ==
  ASSUME NEW p \in Programs, NEW o, Shaped(p, o), NEW q, NEW s, Facing(p, o, q, s),
         NEW f, f = Active(q).fn, NEW x, x = Active(q).pc, NEW b, b = p.funcs[f].body,
         NEW c, c = o.funcs[Active(s).fn].body
  PROVE  /\ x \in 1 .. Len(b)+1 /\ DOMAIN b = 1 .. Len(b) /\ Len(b) \in Nat
         /\ x \in 1 .. Len(b) => Spot(p, o, q, s, f, x, b, c, Current(p, q), Current(o, s)) /\ Active(s).pc \in DOMAIN c
         /\ x = Len(b)+1 => Active(s).pc \notin DOMAIN c
<1>1. Active(q) \in Frame(p) /\ Active(s) = Ready(p, o, Active(q)) BY FacingParts
<1>2. /\ f \in DOMAIN p.funcs /\ x \in 1 .. Len(b)+1 /\ Active(q).stack \in Seq(Nat)
      /\ Active(q).labels \in Seq(LabelsTo(Len(b))) /\ Active(q).locals \in LocalsOf(p.funcs[f])
  BY <1>1, FrameParts
<1>3. b \in Bodies /\ Len(b) \in Nat BY <1>2, OldBody
<1>4. DOMAIN b = 1 .. Len(b) /\ \A k \in 1 .. Len(b) : b[k] \in Operator
  BY <1>3, LenProperties, ElementOfSeq DEF Bodies
<1>5. /\ Active(s).fn = Renumber(p, o, f) /\ Active(s).pc = Moved(p, f, x) /\ Active(s).stack = Active(q).stack
      /\ Active(s).labels = MapLabels(p, f, Active(q).labels) /\ Active(s).locals = Active(q).locals
  BY <1>1 DEF Ready, FrameAt
<1>6. BuiltTo(p, o, f, c, Len(b) + 1) BY <1>2, <1>5, FunctionParts
<1>7. c \in Seq(Operator) /\ Len(c) = Moved(p, f, Len(b)+1) - 1 BY <1>6 DEF BuiltTo
<1>8. DOMAIN c = 1 .. Len(c) /\ Len(c) \in Nat BY <1>7, LenProperties
<1>9. ASSUME x \in 1 .. Len(b)
      PROVE  Spot(p, o, q, s, f, x, b, c, Current(p, q), Current(o, s)) /\ Active(s).pc \in DOMAIN c
  <2>1. Laid(p, o, f, b, c) BY <1>2, <1>6 DEF Laid
  <2>2. LaidAt(p, o, f, b, c, x) BY <1>9, <2>1, PlaceOf
  <2>3. Moved(p, f, x) \in 1 .. Len(c) /\ c[Moved(p, f, x)] = Image(p, o, b[x]) BY <2>2 DEF LaidAt
  <2>4. Current(p, q) = b[x] /\ Current(o, s) = c[Moved(p, f, x)] BY <1>5 DEF Current
  <2> QED BY <1>2, <1>4, <1>5, <1>6, <1>8, <1>9, <2>3, <2>4 DEF Spot
<1>10. ASSUME x = Len(b)+1 PROVE Active(s).pc \notin DOMAIN c
  <2> DEFINE z == Active(s).pc
             w == Len(c)
  <2>1. z = w + 1
    <3>1. Len(b)+1 \in Int BY <1>3
    <3>2. Moved(p, f, Len(b)+1) \in Int BY <1>2, <3>1, ShiftType
    <3> QED BY <1>5, <1>7, <1>10, <3>2
  <2>2. w \in Nat BY <1>8
  <2> HIDE DEF z, w
  <2>3. z \notin 1 .. w BY <2>1, <2>2
  <2> QED BY <1>8, <2>3 DEF z, w
<1> QED BY <1>2, <1>3, <1>4, <1>9, <1>10

\* The next operator, with the same operands and these labels.
NextTo(p, q, f, st, ls) ==
  /\ f = Active(q).fn /\ Active(q).pc \in 1 .. Len(p.funcs[f].body) /\ st \in Seq(Nat)
  /\ ls \in Seq(LabelsTo(Len(p.funcs[f].body)))
ThenTo(p, s, f, st, ls) == Then(s, st, MapLabels(p, f, ls))

LEMMA NextPair ==
  ASSUME NEW p \in Programs, NEW o, NEW q, NEW s, Facing(p, o, q, s), NEW f, NEW st, NEW ls,
         NextTo(p, q, f, st, ls), NEW q1, q1 = Then(q, st, ls), NEW s1, s1 = ThenTo(p, s, f, st, ls)
  PROVE  Pair(p, o, q1, s1) /\ q1.trace = q.trace /\ s1.trace = s.trace
<1>1. f = Active(q).fn /\ Active(q).pc \in 1 .. Len(p.funcs[f].body) /\ st \in Seq(Nat)
      /\ ls \in Seq(LabelsTo(Len(p.funcs[f].body))) BY DEF NextTo
<1>2. s1 = Then(s, st, MapLabels(p, f, ls)) BY DEF ThenTo
<1> QED BY <1>1, <1>2, ThenPair

LEMMA LocalIs ==
  ASSUME NEW p \in Programs, NEW o, NEW q, NEW s, NEW f, NEW x, NEW b, NEW c, NEW i, NEW j,
         Spot(p, o, q, s, f, x, b, c, i, j), i.op \in LocalOps
  PROVE  /\ Active(q).locals[i.n+1] \in Nat
         /\ \A v \in Nat : WithLocal(Active(q).locals, i.n, v) \in LocalsOf(p.funcs[f])
<1> DEFINE loc == Active(q).locals
           d == p.funcs[f]
<1>1. f \in DOMAIN p.funcs /\ b = d.body /\ x \in 1 .. Len(b) /\ i = b[x] /\ i \in Operator
      /\ loc \in LocalsOf(d) BY Zenon DEF Spot
<1>2. ValidBody(d, Imports(p) \cup DOMAIN p.funcs) BY <1>1, GuardInputs
<1>3. i.n < d.params + d.extra BY <1>1, <1>2 DEF ValidBody
<1>4. loc \in Seq(Nat) /\ Len(loc) = d.params + d.extra BY <1>1 DEF LocalsOf
<1>5. Len(loc) \in Nat /\ i.n \in Nat BY <1>1, <1>4, LenProperties DEF Operator
<1> DEFINE y == i.n
           m == Len(loc)
<1>6. y+1 \in 1 .. m
  <2>1. y < m BY <1>3, <1>4
  <2>2. y \in Nat /\ m \in Nat BY <1>5
  <2> HIDE DEF y, m
  <2> QED BY <2>1, <2>2
<1>7. loc[y+1] \in Nat BY <1>4, <1>6, ElementOfSeq
<1>8. ASSUME NEW v \in Nat PROVE WithLocal(loc, y, v) \in LocalsOf(d)
  <2> DEFINE e == [loc EXCEPT ![y+1] = v]
             z == y+1
  <2>1. e = [loc EXCEPT ![z] = v] OBVIOUS
  <2>2. z \in 1 .. Len(loc) BY <1>6
  <2> HIDE DEF e, z, loc
  <2>3. e \in Seq(Nat) /\ Len(e) = Len(loc) BY <1>4, <2>1, <2>2, ExceptSeq
  <2> QED BY <1>4, <2>3 DEF LocalsOf, WithLocal, e
<1> QED BY <1>7, <1>8

LEMMA EnteringMapped ==
  ASSUME NEW p \in Programs, NEW o, NEW q, NEW s, NEW f, NEW x, NEW b, NEW c, NEW i, NEW j,
         Spot(p, o, q, s, f, x, b, c, i, j), NEW to \in 1 .. Len(b)+1, NEW arity \in Nat, NEW loop \in BOOLEAN,
         NEW st \in Seq(Nat), NEW w, w = Landing(p, f, to)
  PROVE  /\ Entering(q, to, arity, loop, st) \in Seq(LabelsTo(Len(b)))
         /\ MapLabels(p, f, Entering(q, to, arity, loop, st)) = Entering(s, w, arity, loop, st)
<1> DEFINE l == [to |-> to, height |-> Len(st), arity |-> arity, loop |-> loop]
           ls == Active(q).labels
           n == Len(b)
<1>1. f \in DOMAIN p.funcs /\ b = p.funcs[f].body /\ ls \in Seq(LabelsTo(n))
      /\ Active(s).labels = MapLabels(p, f, ls) BY Zenon DEF Spot
<1>2. n \in Nat BY <1>1, OldBody
<1>3. l \in LabelsTo(n)
  <2>1. Len(st) \in Nat BY LenProperties
  <2> QED BY <2>1 DEF LabelsTo
<1>4. MapLabel(p, f, l) = [to |-> w, height |-> Len(st), arity |-> arity, loop |-> loop] BY DEF MapLabel
<1>5. Entering(q, to, arity, loop, st) = Append(ls, l)
      /\ Entering(s, w, arity, loop, st) = Append(MapLabels(p, f, ls), MapLabel(p, f, l))
  BY <1>1, <1>4 DEF Entering
<1> HIDE DEF l, ls, n
<1>6. Append(ls, l) \in Seq(LabelsTo(n))
      /\ MapLabels(p, f, Append(ls, l)) = Append(MapLabels(p, f, ls), MapLabel(p, f, l))
  BY <1>1, <1>2, <1>3, MapLabelsMore
<1> QED BY <1>5, <1>6 DEF n

\* The same with its conditions in one.
EnteringTo(p, f, b, to, w, arity, loop, st) ==
  to \in 1 .. Len(b)+1 /\ w = Landing(p, f, to) /\ arity \in Nat /\ loop \in BOOLEAN /\ st \in Seq(Nat)
EnteredBoth(p, q, s, f, b, to, w, arity, loop, st) ==
  /\ Entering(q, to, arity, loop, st) \in Seq(LabelsTo(Len(b)))
  /\ MapLabels(p, f, Entering(q, to, arity, loop, st)) = Entering(s, w, arity, loop, st)

LEMMA EnteringBoth ==
  ASSUME NEW p \in Programs, NEW o, NEW q, NEW s, NEW f, NEW x, NEW b, NEW c, NEW i, NEW j,
         Spot(p, o, q, s, f, x, b, c, i, j), NEW to, NEW w, NEW arity, NEW loop, NEW st,
         EnteringTo(p, f, b, to, w, arity, loop, st)
  PROVE  EnteredBoth(p, q, s, f, b, to, w, arity, loop, st)
BY EnteringMapped DEF EnteringTo, EnteredBoth

\* Both take the step of their operator.
Both(p, o, q, s, f, x, b, c, i, j, q1, s1) ==
  /\ Shaped(p, o) /\ Facing(p, o, q, s) /\ Spot(p, o, q, s, f, x, b, c, i, j)
  /\ ~(Len(Active(q).stack) < Takes(p, i))
  /\ Arms(p, q, Active(q), b, i, q1) /\ Arms(o, s, Active(s), c, j, s1)
Paired(p, o, q, s, q1, s1) == Pair(p, o, q1, s1) /\ SameCall(q, s, q1, s1)

LEMMA BothParts ==
  ASSUME NEW p \in Programs, NEW o, NEW q, NEW s, NEW f, NEW x, NEW b, NEW c, NEW i, NEW j, NEW q1, NEW s1,
         Both(p, o, q, s, f, x, b, c, i, j, q1, s1)
  PROVE  /\ Shaped(p, o) /\ Facing(p, o, q, s) /\ Spot(p, o, q, s, f, x, b, c, i, j)
         /\ Arms(p, q, Active(q), b, i, q1) /\ Arms(o, s, Active(s), c, j, s1)
         /\ j.op = i.op /\ (i.op # "call" => j = i) /\ i.n \in Nat /\ i.op \in Ops
         /\ Active(q).stack \in Seq(Nat) /\ Active(q).labels \in Seq(LabelsTo(Len(b)))
         /\ Active(q).locals \in LocalsOf(p.funcs[f])
         /\ Active(s).pc = Moved(p, f, x) /\ Active(s).stack = Active(q).stack
         /\ Active(s).labels = MapLabels(p, f, Active(q).labels) /\ Active(s).locals = Active(q).locals
         /\ f = Active(q).fn /\ x = Active(q).pc /\ f \in DOMAIN p.funcs /\ b = p.funcs[f].body
         /\ Len(b) \in Nat /\ x \in 1 .. Len(b)
<1>1. Spot(p, o, q, s, f, x, b, c, i, j) BY DEF Both
<1>2. j = Image(p, o, i) /\ i \in Operator /\ f \in DOMAIN p.funcs /\ b = p.funcs[f].body BY <1>1, Zenon DEF Spot
<1>3. j.op = i.op /\ (i.op # "call" => j = i) BY <1>2, ImageOp
<1>4. i.n \in Nat /\ i.op \in Ops BY <1>2 DEF Operator
<1>5. Len(b) \in Nat BY <1>2, OldBody
<1> QED BY <1>1, <1>3, <1>4, <1>5, Zenon DEF Both, Spot

\* The operands, when there are as many as the operator takes.
LEMMA TakesOne ==
  ASSUME NEW p \in Programs, NEW o, NEW q, NEW s, NEW f, NEW x, NEW b, NEW c, NEW i, NEW j, NEW q1, NEW s1,
         Both(p, o, q, s, f, x, b, c, i, j, q1, s1),
         i.op \in {"set", "tee", "eqz", "drop", "if", "br_if", "br_table"}
  PROVE  Upper(Active(q).stack) \in Nat /\ Drop0(Active(q).stack, 1) \in Seq(Nat)
<1> DEFINE st == Active(q).stack
<1>1. st \in Seq(Nat) BY BothParts
<1>2. Takes(p, i) = 1 BY DEF Takes
<1>3. ~(Len(st) < 1) BY <1>2 DEF Both
<1> HIDE DEF st
<1>4. Len(st) \in Nat BY <1>1, LenProperties
<1>5. 1 \in 0 .. Len(st) BY <1>3, <1>4
<1>6. Upper(st) \in Nat /\ Drop0(st, 1) \in Seq(Nat) BY <1>1, <1>5, Operands
<1> QED BY <1>6 DEF st

\* From the next operator on.
LEMMA NextBoth ==
  ASSUME NEW p \in Programs, NEW o, NEW q, NEW s, NEW f, NEW x, NEW b, NEW c, NEW i, NEW j, NEW q1, NEW s1,
         Both(p, o, q, s, f, x, b, c, i, j, q1, s1), NEW st, st \in Seq(Nat), NEW ls, ls \in Seq(LabelsTo(Len(b))),
         q1 = Then(q, st, ls), s1 = ThenTo(p, s, f, st, ls)
  PROVE  Paired(p, o, q, s, q1, s1)
<1>1. f = Active(q).fn /\ x = Active(q).pc /\ b = p.funcs[f].body /\ x \in 1 .. Len(b) /\ Facing(p, o, q, s)
  BY BothParts
<1>2. NextTo(p, q, f, st, ls) BY <1>1 DEF NextTo
<1>3. Pair(p, o, q1, s1) /\ q1.trace = q.trace /\ s1.trace = s.trace BY <1>1, <1>2, NextPair
<1> QED BY <1>3 DEF Paired, SameCall

\* From elsewhere on.
LEMMA GoesBoth ==
  ASSUME NEW p \in Programs, NEW o, NEW q, NEW s, NEW f, NEW x, NEW b, NEW c, NEW i, NEW j, NEW q1, NEW s1,
         Both(p, o, q, s, f, x, b, c, i, j, q1, s1), NEW st, st \in Seq(Nat), NEW ls, ls \in Seq(LabelsTo(Len(b))),
         NEW y, y \in 1 .. Len(b)+1, NEW loc, loc \in LocalsOf(p.funcs[f]),
         q1 = GoOn(q, y, st, ls, loc), s1 = MappedTo(p, s, f, y, st, ls, loc)
  PROVE  Paired(p, o, q, s, q1, s1)
<1>1. f = Active(q).fn /\ b = p.funcs[f].body /\ Facing(p, o, q, s) BY BothParts
<1>2. GoesTo(p, q, f, y, st, ls, loc) BY <1>1 DEF GoesTo
<1>3. Pair(p, o, q1, s1) /\ q1.trace = q.trace /\ s1.trace = s.trace BY <1>1, <1>2, GoesPair
<1> QED BY <1>3 DEF Paired, SameCall

LEMMA StackPair ==
  ASSUME NEW p \in Programs, NEW o, NEW q, NEW s, NEW f, NEW x, NEW b, NEW c, NEW i, NEW j, NEW q1, NEW s1,
         Both(p, o, q, s, f, x, b, c, i, j, q1, s1), i.op \in {"const", "get", "add", "eqz", "drop"}
  PROVE  Paired(p, o, q, s, q1, s1)
<1> DEFINE st == Active(q).stack
           ls == Active(q).labels
           loc == Active(q).locals
           v == CASE i.op = "const" -> i.n % Width
                  [] i.op = "get" -> loc[i.n+1]
                  [] i.op = "add" -> (Upper(st) + Upper(Drop0(st, 1))) % Width
                  [] i.op = "eqz" -> IF Upper(st) = 0 THEN 1 ELSE 0
           rest == CASE i.op \in {"const", "get"} -> st
                     [] i.op = "add" -> Drop0(st, 2)
                     [] i.op \in {"eqz", "drop"} -> Drop0(st, 1)
           st1 == IF i.op = "drop" THEN rest ELSE Append(rest, v)
<1>1. /\ Arms(p, q, Active(q), b, i, q1) /\ Arms(o, s, Active(s), c, i, s1) /\ i.n \in Nat
      /\ st \in Seq(Nat) /\ ls \in Seq(LabelsTo(Len(b)))
      /\ Active(s).stack = st /\ Active(s).labels = MapLabels(p, f, ls) /\ Active(s).locals = loc
      /\ Spot(p, o, q, s, f, x, b, c, i, j)
  BY BothParts
<1>2. q1 = Then(q, st1, ls) BY <1>1 DEF Arms
<1>3. s1 = Then(s, st1, MapLabels(p, f, ls)) BY <1>1 DEF Arms
<1>4. Width \in Nat \ {0} BY WasmWidth
<1>5. CASE i.op = "const"
  <2>1. v = i.n % Width /\ rest = st BY <1>5
  <2>2. v \in Nat
    <3> DEFINE n == i.n
    <3>1. n \in Nat /\ v = n % Width BY <1>1, <2>1
    <3> HIDE DEF n, v
    <3> QED BY <1>4, <3>1
  <2> HIDE DEF v, rest, st, ls
  <2>3. st1 \in Seq(Nat) BY <1>1, <1>5, <2>1, <2>2, AppendProperties
  <2> HIDE DEF st1
  <2> QED BY <1>1, <1>2, <1>3, <2>3, NextBoth DEF ThenTo
<1>6. CASE i.op = "get"
  <2>1. v = loc[i.n+1] /\ rest = st BY <1>6
  <2>2. v \in Nat BY <1>1, <1>6, <2>1, LocalIs DEF LocalOps
  <2> HIDE DEF v, rest, st, ls
  <2>3. st1 \in Seq(Nat) BY <1>1, <1>6, <2>1, <2>2, AppendProperties
  <2> HIDE DEF st1
  <2> QED BY <1>1, <1>2, <1>3, <2>3, NextBoth DEF ThenTo
<1>7. CASE i.op = "add"
  <2>0. v = (Upper(st) + Upper(Drop0(st, 1))) % Width /\ rest = Drop0(st, 2) BY <1>7
  <2>1. Takes(p, i) = 2 BY <1>7 DEF Takes
  <2>2. ~(Len(st) < 2) BY <2>1 DEF Both
  <2> HIDE DEF st, ls, v, rest
  <2>3. Len(st) \in Nat BY <1>1, LenProperties
  <2>4. 1 \in 0 .. Len(st) /\ 2 \in 0 .. Len(st) BY <2>2, <2>3
  <2>5. Upper(st) \in Nat /\ Drop0(st, 1) \in Seq(Nat) /\ Len(Drop0(st, 1)) = Len(st) - 1 BY <1>1, <2>4, Operands
  <2>6. rest \in Seq(Nat) BY <1>1, <2>0, <2>4, Operands
  <2>7. 1 \in 0 .. Len(Drop0(st, 1)) BY <2>2, <2>3, <2>5
  <2>8. Upper(Drop0(st, 1)) \in Nat BY <2>5, <2>7, Operands
  <2>9. v \in Nat
    <3> DEFINE a == Upper(st)
               d == Upper(Drop0(st, 1))
    <3>1. a \in Nat /\ d \in Nat /\ v = (a + d) % Width BY <2>0, <2>5, <2>8
    <3> HIDE DEF a, d
    <3> QED BY <1>4, <3>1
  <2>10. st1 \in Seq(Nat) BY <1>7, <2>6, <2>9, AppendProperties
  <2> HIDE DEF st1
  <2> QED BY <1>1, <1>2, <1>3, <2>10, NextBoth DEF ThenTo
<1>8. CASE i.op = "eqz"
  <2>1. v = (IF Upper(st) = 0 THEN 1 ELSE 0) /\ rest = Drop0(st, 1) BY <1>8
  <2>2. v \in Nat
    <3> HIDE DEF v
    <3> QED BY <2>1
  <2>3. Drop0(st, 1) \in Seq(Nat) BY <1>8, TakesOne
  <2> HIDE DEF v, rest, st, ls
  <2>4. st1 \in Seq(Nat) BY <1>8, <2>1, <2>2, <2>3, AppendProperties
  <2> HIDE DEF st1
  <2> QED BY <1>1, <1>2, <1>3, <2>4, NextBoth DEF ThenTo
<1>9. CASE i.op = "drop"
  <2>1. rest = Drop0(st, 1) BY <1>9
  <2>3. Drop0(st, 1) \in Seq(Nat) BY <1>9, TakesOne
  <2> HIDE DEF v, rest, st, ls
  <2>4. st1 \in Seq(Nat) BY <1>9, <2>1, <2>3
  <2> HIDE DEF st1
  <2> QED BY <1>1, <1>2, <1>3, <2>4, NextBoth DEF ThenTo
<1> QED BY <1>5, <1>6, <1>7, <1>8, <1>9

LEMMA SetPair ==
  ASSUME NEW p \in Programs, NEW o, NEW q, NEW s, NEW f, NEW x, NEW b, NEW c, NEW i, NEW j, NEW q1, NEW s1,
         Both(p, o, q, s, f, x, b, c, i, j, q1, s1), i.op \in {"set", "tee"}
  PROVE  Paired(p, o, q, s, q1, s1)
<1> DEFINE st == Active(q).stack
           ls == Active(q).labels
           loc == WithLocal(Active(q).locals, i.n, Upper(st))
           st1 == IF i.op = "set" THEN Drop0(st, 1) ELSE st
           y == x + 1
<1>1. /\ Arms(p, q, Active(q), b, i, q1) /\ Arms(o, s, Active(s), c, i, s1)
      /\ st \in Seq(Nat) /\ ls \in Seq(LabelsTo(Len(b))) /\ Active(s).pc = Moved(p, f, x)
      /\ Active(s).stack = st /\ Active(s).labels = MapLabels(p, f, ls) /\ Active(s).locals = Active(q).locals
      /\ Spot(p, o, q, s, f, x, b, c, i, j) /\ x = Active(q).pc /\ x \in 1 .. Len(b) /\ Len(b) \in Nat
      /\ f \in DOMAIN p.funcs
  BY BothParts
<1>2. Upper(st) \in Nat /\ Drop0(st, 1) \in Seq(Nat) BY TakesOne
<1>3. loc \in LocalsOf(p.funcs[f]) BY <1>1, <1>2, LocalIs DEF LocalOps
<1>4. st1 \in Seq(Nat) BY <1>1, <1>2
<1>5. y \in 1 .. Len(b)+1 BY <1>1
<1>6. Landing(p, f, y) = Moved(p, f, x) + 1
  <2>1. x \in Int BY <1>1
  <2> QED BY <1>1, <2>1, NextPlace
<1>7. q1 = GoOn(q, y, st1, ls, loc) BY <1>1 DEF Arms
<1>8. s1 = MappedTo(p, s, f, y, st1, ls, loc) BY <1>1, <1>6 DEF Arms, MappedTo
<1> HIDE DEF st, ls, loc, st1, y
<1> QED BY <1>1, <1>3, <1>4, <1>5, <1>7, <1>8, GoesBoth

LEMMA CallPair ==
  ASSUME NEW p \in Programs, NEW o, NEW q, NEW s, NEW f, NEW x, NEW b, NEW c, NEW i, NEW j, NEW q1, NEW s1,
         Both(p, o, q, s, f, x, b, c, i, j, q1, s1), i.op = "call"
  PROVE  Paired(p, o, q, s, q1, s1)
<1> DEFINE k == i.n
           n == Len(p.imports)
           m == Len(o.imports)
<1>1. /\ Arms(p, q, Active(q), b, i, q1) /\ Arms(o, s, Active(s), c, j, s1) /\ j.op = "call"
      /\ Spot(p, o, q, s, f, x, b, c, i, j) /\ x = Active(q).pc /\ x \in 1 .. Len(b) /\ Len(b) \in Nat
      /\ f \in DOMAIN p.funcs /\ f = Active(q).fn /\ b = p.funcs[f].body /\ k \in Nat
      /\ Shaped(p, o) /\ Facing(p, o, q, s)
  BY BothParts
<1>2. i = b[x] /\ j = Image(p, o, i) BY <1>1, Zenon DEF Spot
<1>3. j = I("call", Renumber(p, o, k)) BY <1>2 DEF Image
<1>4. j.n = Renumber(p, o, k) BY <1>3 DEF I
<1>5. q1 = IF k < n THEN HostCall(p, q, k) ELSE GuestCall(p, q, k) BY <1>1 DEF Arms
<1>6. s1 = IF j.n < m THEN HostCall(o, s, j.n) ELSE GuestCall(o, s, j.n) BY <1>1 DEF Arms
<1>7. k \in Imports(p) \cup DOMAIN p.funcs
  <2>1. ValidBody(p.funcs[f], Imports(p) \cup DOMAIN p.funcs) BY <1>1, GuardInputs
  <2> QED BY <1>1, <1>2, <2>1, Zenon DEF ValidBody
<1>8. n \in Nat /\ m \in Nat /\ n <= m BY <1>1, ImportsOf DEF Shaped, SameImports
<1>9. ~(Len(Active(q).stack) < Takes(p, i)) BY DEF Both
<1>10. x \in 1 .. Len(p.funcs[f].body) BY <1>1
<1>11. CASE k < n
  <2>1. k \in Imports(p) BY <1>1, <1>8, <1>11 DEF Imports
  <2>2. Renumber(p, o, k) = k /\ k < m
    <3>1. k < m BY <1>1, <1>8, <1>11
    <3> QED BY <1>11, <3>1 DEF Renumber
  <2>3. q1 = HostCall(p, q, k) /\ s1 = HostCall(o, s, k) BY <1>4, <1>5, <1>6, <1>11, <2>2
  <2>4. ~(Len(Active(q).stack) < p.imports[k+1].params)
    <3>1. Takes(p, i) = p.imports[k+1].params BY <1>11 DEF Takes
    <3> QED BY <1>9, <3>1
  <2> HIDE DEF k
  <2>5. Active(q).pc \in 1 .. Len(p.funcs[f].body) BY <1>1, <1>10
  <2>6. Pair(p, o, q1, s1) /\ SameCall(q, s, q1, s1) BY <1>1, <2>1, <2>3, <2>4, <2>5, HostPair
  <2> QED BY <2>6 DEF Paired
<1>12. CASE ~(k < n)
  <2>1. k \in DOMAIN p.funcs
    <3>1. k \notin Imports(p) BY <1>1, <1>8, <1>12 DEF Imports
    <3> QED BY <1>7, <3>1
  <2>2. Renumber(p, o, k) = k + (m - n) BY <1>12 DEF Renumber
  <2>3. ~(Renumber(p, o, k) < m)
    <3> HIDE DEF k, n, m
    <3> QED BY <1>1, <1>8, <1>12, <2>2
  <2>4. q1 = GuestCall(p, q, k) /\ s1 = GuestCall(o, s, Renumber(p, o, k)) BY <1>4, <1>5, <1>6, <1>12, <2>3
  <2>5. ~(Len(Active(q).stack) < p.funcs[k].params)
    <3>1. Takes(p, i) = p.funcs[k].params BY <1>12 DEF Takes
    <3> QED BY <1>9, <3>1
  <2> HIDE DEF k
  <2>6. Active(q).pc \in 1 .. Len(p.funcs[f].body) BY <1>1, <1>10
  <2>7. Pair(p, o, q1, s1) /\ q1.trace = q.trace /\ s1.trace = s.trace BY <1>1, <2>1, <2>4, <2>5, <2>6, GuestPair
  <2> QED BY <2>7 DEF Paired, SameCall
<1> QED BY <1>11, <1>12

\* Where the construct at x ends, in both.
EndsAt(p, f, x, b, c, i, e) ==
  /\ e = EndOf(b, x) /\ e \in 1 .. Len(b) /\ e \in Int /\ e+1 \in 1 .. Len(b)+1
  /\ EndOf(c, Moved(p, f, x)) = Moved(p, f, e)
  /\ Landing(p, f, e+1) = Moved(p, f, e) + 1
  /\ i.op # "loop" => Landing(p, f, e) = Moved(p, f, e)

LEMMA EndSpot ==
  ASSUME NEW p \in Programs, NEW o, NEW q, NEW s, NEW f, NEW x, NEW b, NEW c, NEW i, NEW j,
         Spot(p, o, q, s, f, x, b, c, i, j), i.op # "end"
  PROVE  EndsAt(p, f, x, b, c, i, EndOf(b, x))
<1> DEFINE e == EndOf(b, x)
<1>1. /\ f \in DOMAIN p.funcs /\ b = p.funcs[f].body /\ x \in 1 .. Len(b) /\ i = b[x]
      /\ BuiltTo(p, o, f, c, Len(b) + 1) BY Zenon DEF Spot
<1>2. BuiltTo(p, o, f, c, Len(p.funcs[f].body) + 1) /\ x \in 1 .. Len(p.funcs[f].body)
      /\ p.funcs[f].body[x].op # "end" BY <1>1
<1>3. EndLies(p, f, c, x) BY <1>1, <1>2, EndMoved
<1>4. e \in 2 .. Len(b) /\ EndOf(c, Moved(p, f, x)) = Moved(p, f, e)
      /\ (i.op # "loop" => Landing(p, f, e) = Moved(p, f, e)) BY <1>1, <1>3 DEF EndLies
<1>5. Len(b) \in Nat BY <1>1, OldBody
<1> HIDE DEF e
<1>6. e \in Int /\ e \in 1 .. Len(b) /\ e+1 \in 1 .. Len(b)+1 BY <1>4, <1>5
<1>7. Landing(p, f, e+1) = Moved(p, f, e) + 1 BY <1>1, <1>6, NextPlace
<1> QED BY <1>4, <1>6, <1>7 DEF EndsAt, e

LEMMA OpenPair ==
  ASSUME NEW p \in Programs, NEW o, NEW q, NEW s, NEW f, NEW x, NEW b, NEW c, NEW i, NEW j, NEW q1, NEW s1,
         Both(p, o, q, s, f, x, b, c, i, j, q1, s1),
         i.op \in {"block", "loop"} \/ (i.op = "if" /\ Upper(Active(q).stack) # 0)
  PROVE  Paired(p, o, q, s, q1, s1)
<1> DEFINE st == Active(q).stack
           e == EndOf(b, x)
           to == IF i.op = "loop" THEN x+1 ELSE e+1
           w == IF i.op = "loop" THEN Moved(p, f, x)+1 ELSE EndOf(c, Moved(p, f, x))+1
           arity == IF i.op = "loop" THEN 0 ELSE i.n
           loop == IF i.op = "loop" THEN TRUE ELSE FALSE
           st1 == IF i.op = "if" THEN Drop0(st, 1) ELSE st
           ls == Entering(q, to, arity, loop, st1)
           ms == Entering(s, w, arity, loop, st1)
<1>1. /\ Arms(p, q, Active(q), b, i, q1) /\ Arms(o, s, Active(s), c, i, s1)
      /\ st \in Seq(Nat) /\ Active(s).pc = Moved(p, f, x) /\ Active(s).stack = st
      /\ Spot(p, o, q, s, f, x, b, c, i, j) /\ x = Active(q).pc /\ x \in 1 .. Len(b) /\ Len(b) \in Nat
      /\ f \in DOMAIN p.funcs /\ i.n \in Nat
  BY BothParts
<1>2. EndsAt(p, f, x, b, c, i, e) BY <1>1, EndSpot
<1>3. q1 = Then(q, st1, ls) BY <1>1 DEF Arms
<1>4. s1 = Then(s, st1, ms) BY <1>1 DEF Arms
<1>5. to \in 1 .. Len(b)+1 /\ w = Landing(p, f, to)
  <2>1. CASE i.op = "loop"
    <3>1. to = x+1 /\ w = Moved(p, f, x)+1 BY <2>1
    <3> HIDE DEF to, w
    <3>2. x \in Int /\ x+1 \in 1 .. Len(b)+1 BY <1>1
    <3>3. Landing(p, f, x+1) = Moved(p, f, x)+1 BY <1>1, <3>2, NextPlace
    <3> QED BY <3>1, <3>2, <3>3
  <2>2. CASE i.op # "loop"
    <3>1. to = e+1 /\ w = EndOf(c, Moved(p, f, x))+1 BY <2>2
    <3> QED BY <1>2, <3>1 DEF EndsAt
  <2> QED BY <2>1, <2>2
<1>6. arity \in Nat /\ loop \in BOOLEAN BY <1>1
<1>7. st1 \in Seq(Nat)
  <2>1. CASE i.op = "if"
    <3>1. Drop0(st, 1) \in Seq(Nat) BY <2>1, TakesOne
    <3> QED BY <2>1, <3>1
  <2>2. CASE i.op # "if" BY <1>1, <2>2
  <2> QED BY <2>1, <2>2
<1>8. ls \in Seq(LabelsTo(Len(b))) /\ MapLabels(p, f, ls) = ms
  <2>1. EnteringTo(p, f, b, to, w, arity, loop, st1) BY <1>5, <1>6, <1>7 DEF EnteringTo
  <2> HIDE DEF to, w, arity, loop, st1
  <2>2. EnteredBoth(p, q, s, f, b, to, w, arity, loop, st1) BY <1>1, <2>1, EnteringBoth
  <2> QED BY <2>2 DEF EnteredBoth
<1> HIDE DEF st, st1, ls, ms
<1>9. s1 = ThenTo(p, s, f, st1, ls) BY <1>4, <1>8 DEF ThenTo
<1> QED BY <1>3, <1>7, <1>8, <1>9, NextBoth

LEMMA ElseSpot ==
  ASSUME NEW p \in Programs, NEW o, NEW q, NEW s, NEW f, NEW x, NEW b, NEW c, NEW i, NEW j,
         Spot(p, o, q, s, f, x, b, c, i, j), i.op # "end"
  PROVE  ElsesAt(p, f, x, b, c)
<1>1. /\ f \in DOMAIN p.funcs /\ b = p.funcs[f].body /\ x \in 1 .. Len(b) /\ i = b[x]
      /\ BuiltTo(p, o, f, c, Len(b) + 1) BY DEF Spot
<1>2. BuiltTo(p, o, f, c, Len(p.funcs[f].body) + 1) /\ x \in 1 .. Len(p.funcs[f].body)
      /\ p.funcs[f].body[x].op # "end" BY <1>1
<1>3. ElsesAt(p, f, x, p.funcs[f].body, c) BY <1>1, <1>2, ElseMoved
<1> QED BY <1>1, <1>3

LEMMA OtherwisePair ==
  ASSUME NEW p \in Programs, NEW o, NEW q, NEW s, NEW f, NEW x, NEW b, NEW c, NEW i, NEW j, NEW q1, NEW s1,
         Both(p, o, q, s, f, x, b, c, i, j, q1, s1), i.op = "if", Upper(Active(q).stack) = 0
  PROVE  Paired(p, o, q, s, q1, s1)
<1> DEFINE st1 == Drop0(Active(q).stack, 1)
           e == EndOf(b, x)
           eo == EndOf(c, Moved(p, f, x))
           alt == ElseOf(b, x)
           alto == ElseOf(c, Moved(p, f, x))
           ls == Active(q).labels
           loc == Active(q).locals
<1>1. /\ Arms(p, q, Active(q), b, i, q1) /\ Arms(o, s, Active(s), c, i, s1)
      /\ Active(s).pc = Moved(p, f, x) /\ Active(s).stack = Active(q).stack
      /\ Spot(p, o, q, s, f, x, b, c, i, j) /\ x = Active(q).pc /\ x \in 1 .. Len(b) /\ Len(b) \in Nat
      /\ f \in DOMAIN p.funcs /\ i.n \in Nat /\ loc \in LocalsOf(p.funcs[f]) /\ ls \in Seq(LabelsTo(Len(b)))
      /\ Active(s).labels = MapLabels(p, f, ls) /\ Active(s).locals = loc
  BY BothParts
<1>2. EndsAt(p, f, x, b, c, i, e) /\ ElsesAt(p, f, x, b, c) BY <1>1, EndSpot, ElseSpot
<1>3. e+1 \in 1 .. Len(b)+1 /\ eo + 1 = Landing(p, f, e+1) BY <1>2 DEF EndsAt
<1>4. st1 \in Seq(Nat) BY TakesOne
<1>5. q1 = Otherwise(b, q, i, st1) /\ s1 = Otherwise(c, s, i, st1) BY <1>1 DEF Arms
<1>6. q1 = IF alt = {} THEN GoOn(q, e + 1, st1, ls, loc)
           ELSE GoOn(q, Min(alt) + 1, st1, Entering(q, e + 1, i.n, FALSE, st1), loc)
  BY <1>1, <1>5 DEF Otherwise
<1>7. s1 = IF alto = {} THEN GoOn(s, eo + 1, st1, MapLabels(p, f, ls), loc)
           ELSE GoOn(s, Min(alto) + 1, st1, Entering(s, eo + 1, i.n, FALSE, st1), loc)
  BY <1>1, <1>5 DEF Otherwise
<1> HIDE DEF st1, e, eo, alt, alto, ls, loc
<1>8. CASE alt = {}
  <2>1. alto = {} BY <1>2, <1>8 DEF ElsesAt, alt, alto
  <2> DEFINE y == e+1
  <2>2. q1 = GoOn(q, y, st1, ls, loc) BY <1>6, <1>8
  <2>3. s1 = MappedTo(p, s, f, y, st1, ls, loc) BY <1>3, <1>7, <2>1 DEF MappedTo
  <2>4. y \in 1 .. Len(b)+1 BY <1>3
  <2> HIDE DEF y
  <2> QED BY <1>1, <1>4, <2>2, <2>3, <2>4, GoesBoth
<1>9. CASE alt # {}
  <2> DEFINE mi == Min(alt)
             y == mi + 1
             z == e + 1
             w == eo + 1
             ls1 == Entering(q, z, i.n, FALSE, st1)
  <2>1. alto # {} /\ mi \in 1 .. Len(b) /\ Min(alto) = Moved(p, f, mi) BY <1>2, <1>9 DEF ElsesAt, alt, alto
  <2>2. y \in 1 .. Len(b)+1 /\ mi \in Int
    <3> HIDE DEF mi
    <3> QED BY <1>1, <2>1
  <2>3. Landing(p, f, y) = Moved(p, f, mi) + 1
    <3> HIDE DEF mi
    <3> QED BY <1>1, <2>2, NextPlace
  <2>4. z \in 1 .. Len(b)+1 /\ w = Landing(p, f, z) BY <1>3
  <2> HIDE DEF z, w
  <2>5. ls1 \in Seq(LabelsTo(Len(b))) /\ MapLabels(p, f, ls1) = Entering(s, w, i.n, FALSE, st1)
    <3>1. EnteringTo(p, f, b, z, w, i.n, FALSE, st1) BY <1>1, <1>4, <2>4 DEF EnteringTo
    <3>2. EnteredBoth(p, q, s, f, b, z, w, i.n, FALSE, st1) BY <1>1, <3>1, EnteringBoth
    <3> QED BY <3>2 DEF EnteredBoth
  <2>6. q1 = GoOn(q, y, st1, ls1, loc) BY <1>6, <1>9 DEF z
  <2>7. s1 = MappedTo(p, s, f, y, st1, ls1, loc) BY <1>7, <2>1, <2>3, <2>5 DEF MappedTo, w
  <2> HIDE DEF y, ls1
  <2> QED BY <1>1, <1>4, <2>2, <2>5, <2>6, <2>7, GoesBoth
<1> QED BY <1>8, <1>9

LEMMA ElsePair ==
  ASSUME NEW p \in Programs, NEW o, NEW q, NEW s, NEW f, NEW x, NEW b, NEW c, NEW i, NEW j, NEW q1, NEW s1,
         Both(p, o, q, s, f, x, b, c, i, j, q1, s1), i.op = "else"
  PROVE  Paired(p, o, q, s, q1, s1)
<1> DEFINE st == Active(q).stack
           e == EndOf(b, x)
           ls == Active(q).labels
           loc == Active(q).locals
<1>1. /\ Arms(p, q, Active(q), b, i, q1) /\ Arms(o, s, Active(s), c, i, s1)
      /\ Active(s).pc = Moved(p, f, x) /\ Active(s).stack = st /\ st \in Seq(Nat)
      /\ Spot(p, o, q, s, f, x, b, c, i, j) /\ x = Active(q).pc /\ Len(b) \in Nat
      /\ loc \in LocalsOf(p.funcs[f]) /\ ls \in Seq(LabelsTo(Len(b)))
      /\ Active(s).labels = MapLabels(p, f, ls) /\ Active(s).locals = loc
  BY BothParts
<1>2. EndsAt(p, f, x, b, c, i, e) BY <1>1, EndSpot
<1>3. EndOf(c, Moved(p, f, x)) = Landing(p, f, e) /\ e \in 1 .. Len(b) BY <1>2 DEF EndsAt
<1>4. q1 = GoOn(q, e, st, ls, loc) BY <1>1 DEF Arms
<1>5. s1 = MappedTo(p, s, f, e, st, ls, loc) BY <1>1, <1>3 DEF Arms, MappedTo
<1> HIDE DEF st, e, ls, loc
<1>6. e \in 1 .. Len(b)+1 BY <1>1, <1>3
<1> QED BY <1>1, <1>4, <1>5, <1>6, GoesBoth

LEMMA EndPair ==
  ASSUME NEW p \in Programs, NEW o, NEW q, NEW s, NEW f, NEW x, NEW b, NEW c, NEW i, NEW j, NEW q1, NEW s1,
         Both(p, o, q, s, f, x, b, c, i, j, q1, s1), i.op = "end"
  PROVE  Paired(p, o, q, s, q1, s1)
<1> DEFINE st == Active(q).stack
           ls == Active(q).labels
           ms == Active(s).labels
           n == Len(b)
<1>1. /\ Arms(p, q, Active(q), b, i, q1) /\ Arms(o, s, Active(s), c, i, s1)
      /\ Active(s).stack = st /\ st \in Seq(Nat) /\ n \in Nat /\ ls \in Seq(LabelsTo(n))
      /\ ms = MapLabels(p, f, ls) /\ f \in DOMAIN p.funcs /\ Shaped(p, o) /\ Facing(p, o, q, s)
  BY BothParts
<1>2. /\ ls = <<>> => q1 = Leave(p, q, st)
      /\ ls # <<>> => q1 = Then(q, st, SubSeq(ls, 1, Len(ls)-1)) BY <1>1 DEF Arms
<1>3. /\ ms = <<>> => s1 = Leave(o, s, st)
      /\ ms # <<>> => s1 = Then(s, st, SubSeq(ms, 1, Len(ms)-1)) BY <1>1 DEF Arms
<1> HIDE DEF st, ls, ms, n
<1>4. (ms = <<>> <=> ls = <<>>) /\ Len(ms) = Len(ls) /\ Len(ls) \in Nat BY <1>1, MapNoLabels, MapLabelsType
<1>5. CASE ls = <<>>
  <2>1. q1 = Leave(p, q, st) /\ s1 = Leave(o, s, st) BY <1>2, <1>3, <1>4, <1>5
  <2>2. Pair(p, o, q1, s1) /\ q1.trace = q.trace /\ s1.trace = s.trace BY <1>1, <2>1, LeavePair
  <2> QED BY <2>2 DEF Paired, SameCall
<1>6. CASE ls # <<>>
  <2> DEFINE m == Len(ls)-1
             ls1 == SubSeq(ls, 1, m)
  <2>1. Len(ls) # 0 BY <1>1, <1>6, EmptySeq
  <2>2. m \in 0 .. Len(ls) BY <1>4, <2>1
  <2>3. q1 = Then(q, st, ls1) /\ s1 = Then(s, st, SubSeq(ms, 1, m)) BY <1>2, <1>3, <1>4, <1>6
  <2> HIDE DEF m
  <2>4. ls1 \in Seq(LabelsTo(n)) /\ MapLabels(p, f, ls1) = SubSeq(ms, 1, m) BY <1>1, <2>2, MapLabelsParts
  <2> HIDE DEF ls1
  <2>5. s1 = ThenTo(p, s, f, st, ls1) BY <2>3, <2>4 DEF ThenTo
  <2>6. ls1 \in Seq(LabelsTo(Len(b))) BY <2>4 DEF n
  <2> QED BY <1>1, <2>3, <2>5, <2>6, NextBoth
<1> QED BY <1>5, <1>6

LEMMA JumpPair ==
  ASSUME NEW p \in Programs, NEW o, NEW q, NEW s, NEW f, NEW x, NEW b, NEW c, NEW i, NEW j, NEW q1, NEW s1,
         Both(p, o, q, s, f, x, b, c, i, j, q1, s1), i.op \in {"br", "br_if", "br_table", "ret", "trap"}
  PROVE  Paired(p, o, q, s, q1, s1)
<1> DEFINE st == Active(q).stack
           ls == Active(q).labels
<1>1. /\ Arms(p, q, Active(q), b, i, q1) /\ Arms(o, s, Active(s), c, i, s1)
      /\ Active(s).stack = st /\ st \in Seq(Nat) /\ i.n \in Nat /\ ls \in Seq(LabelsTo(Len(b)))
      /\ Active(s).labels = MapLabels(p, f, ls) /\ Shaped(p, o) /\ Facing(p, o, q, s)
  BY BothParts
<1>2. ASSUME Pair(p, o, q1, s1) /\ q1.trace = q.trace /\ s1.trace = s.trace PROVE Paired(p, o, q, s, q1, s1)
  BY <1>2 DEF Paired, SameCall
<1>3. CASE i.op = "br"
  <2>1. q1 = Branch(p, q, i.n, st) /\ s1 = Branch(o, s, i.n, st) BY <1>1, <1>3 DEF Arms
  <2> HIDE DEF st
  <2> QED BY <1>1, <1>2, <2>1, BranchPair
<1>4. CASE i.op = "br_if"
  <2>1. Drop0(st, 1) \in Seq(Nat) BY <1>4, TakesOne
  <2>2. CASE Upper(st) # 0
    <3> DEFINE st1 == Drop0(st, 1)
    <3>1. q1 = Branch(p, q, i.n, st1) /\ s1 = Branch(o, s, i.n, st1) BY <1>1, <1>4, <2>2 DEF Arms
    <3> HIDE DEF st1
    <3>2. st1 \in Seq(Nat) BY <2>1 DEF st1
    <3> QED BY <1>1, <1>2, <3>1, <3>2, BranchPair
  <2>3. CASE Upper(st) = 0
    <3> DEFINE st1 == Drop0(st, 1)
    <3>1. q1 = Then(q, st1, ls) /\ s1 = ThenTo(p, s, f, st1, ls) BY <1>1, <1>4, <2>3 DEF Arms, ThenTo
    <3> HIDE DEF st1, ls
    <3>2. st1 \in Seq(Nat) BY <2>1 DEF st1
    <3> QED BY <1>1, <3>1, <3>2, NextBoth
  <2> QED BY <2>2, <2>3
<1>5. CASE i.op = "br_table"
  <2> DEFINE st1 == Drop0(st, 1)
             d == IF Upper(st) = 0 THEN 0 ELSE i.n
  <2>1. st1 \in Seq(Nat) BY <1>5, TakesOne
  <2>2. q1 = Branch(p, q, d, st1) /\ s1 = Branch(o, s, d, st1) BY <1>1, <1>5 DEF Arms
  <2>3. d \in Nat BY <1>1
  <2> HIDE DEF st1, d
  <2> QED BY <1>1, <1>2, <2>1, <2>2, <2>3, BranchPair
<1>6. CASE i.op = "ret"
  <2>1. q1 = Leave(p, q, st) /\ s1 = Leave(o, s, st) BY <1>1, <1>6 DEF Arms
  <2> HIDE DEF st
  <2> QED BY <1>1, <1>2, <2>1, LeavePair
<1>7. CASE i.op = "trap"
  <2>1. s.result = q.result BY <1>1 DEF Facing
  <2> DEFINE r == q.result
             e == "trap"
  <2>2. q1 = Halt(q, e, r) /\ s1 = Halt(s, e, r) BY <1>1, <1>7, <2>1 DEF Arms
  <2>3. e # "run" OBVIOUS
  <2> HIDE DEF e, r
  <2> QED BY <1>1, <1>2, <2>2, <2>3, HaltPair
<1> QED BY <1>3, <1>4, <1>5, <1>6, <1>7

LEMMA SameTakes ==
  ASSUME NEW p \in Programs, NEW o, Shaped(p, o), NEW q, NEW s, NEW f, NEW x, NEW b, NEW c, NEW i, NEW j,
         Spot(p, o, q, s, f, x, b, c, i, j)
  PROVE  Takes(o, j) = Takes(p, i)
<1>1. f \in DOMAIN p.funcs /\ b = p.funcs[f].body /\ x \in 1 .. Len(b) /\ i = b[x] /\ j = Image(p, o, i) /\ i \in Operator
  BY Zenon DEF Spot
<1>2. j.op = i.op /\ (i.op # "call" => j = i) BY <1>1, ImageOp
<1>3. CASE i.op # "call" BY <1>2, <1>3 DEF Takes
<1>4. CASE i.op = "call"
  <2> DEFINE k == i.n
             n == Len(p.imports)
             m == Len(o.imports)
  <2>1. j = I("call", Renumber(p, o, k)) BY <1>1, <1>4 DEF Image
  <2>2. j.n = Renumber(p, o, k) /\ j.op = "call" BY <2>1 DEF I
  <2>3. k \in Imports(p) \cup DOMAIN p.funcs
    <3>1. ValidBody(p.funcs[f], Imports(p) \cup DOMAIN p.funcs) BY <1>1, GuardInputs
    <3> QED BY <1>1, <1>4, <3>1 DEF ValidBody
  <2>4. n \in Nat /\ m \in Nat /\ n <= m /\ k \in Nat BY <1>1, ImportsOf DEF Shaped, SameImports, Operator
  <2>5. Takes(p, i) = IF k < n THEN p.imports[k+1].params ELSE p.funcs[k].params BY <1>4 DEF Takes
  <2>6. Takes(o, j) = IF j.n < m THEN o.imports[j.n+1].params ELSE o.funcs[j.n].params BY <2>2 DEF Takes
  <2>7. CASE k < n
    <3>1. Renumber(p, o, k) = k BY <2>7 DEF Renumber
    <3>2. k < m /\ k+1 \in 1 .. n
      <4> HIDE DEF k, n, m
      <4> QED BY <2>4, <2>7
    <3>3. o.imports[k+1] = p.imports[k+1] BY <3>2 DEF Shaped, SameImports
    <3> QED BY <2>2, <2>5, <2>6, <2>7, <3>1, <3>2, <3>3
  <2>8. CASE ~(k < n)
    <3>1. Renumber(p, o, k) = k + (m - n) BY <2>8 DEF Renumber
    <3>2. ~(Renumber(p, o, k) < m)
      <4> HIDE DEF k, n, m
      <4> QED BY <2>4, <2>8, <3>1
    <3>3. k \in DOMAIN p.funcs
      <4>1. k \notin Imports(p) BY <2>4, <2>8 DEF Imports
      <4> QED BY <2>3, <4>1
    <3>4. o.funcs[Renumber(p, o, k)].params = p.funcs[k].params BY <3>3, FunctionParts
    <3> QED BY <2>2, <2>5, <2>6, <2>8, <3>2, <3>4
  <2> QED BY <2>7, <2>8
<1> QED BY <1>3, <1>4

\* One step of the input is one step of the output, where it has no guard of
\* its own to pass.
LEMMA StepPair ==
  ASSUME NEW p \in Programs, NEW o, Shaped(p, o), NEW q, NEW s, Facing(p, o, q, s)
  PROVE  Paired(p, o, q, s, Step(p, q), Step(o, s))
<1> DEFINE f == Active(q).fn
           x == Active(q).pc
           b == p.funcs[f].body
           c == o.funcs[Active(s).fn].body
           i == Current(p, q)
           j == Current(o, s)
           q1 == Step(p, q)
           s1 == Step(o, s)
           badq == x \notin DOMAIN b \/ Len(Active(q).stack) < Takes(p, i)
           bads == Active(s).pc \notin DOMAIN c \/ Len(Active(s).stack) < Takes(o, j)
<1>1. /\ x \in 1 .. Len(b)+1 /\ DOMAIN b = 1 .. Len(b) /\ Len(b) \in Nat
      /\ x \in 1 .. Len(b) => Spot(p, o, q, s, f, x, b, c, i, j) /\ Active(s).pc \in DOMAIN c
      /\ x = Len(b)+1 => Active(s).pc \notin DOMAIN c
  BY SpotOf
<1>2. (badq => q1 = Invalid(q)) /\ (~badq => Arms(p, q, Active(q), b, i, q1)) BY StepIs
<1>3. (bads => s1 = Invalid(s)) /\ (~bads => Arms(o, s, Active(s), c, j, s1)) BY StepIs
<1>4. bads <=> badq
  <2>1. CASE x \in 1 .. Len(b)
    <3>1. Spot(p, o, q, s, f, x, b, c, i, j) /\ Active(s).pc \in DOMAIN c /\ x \in DOMAIN b BY <1>1, <2>1
    <3>2. Takes(o, j) = Takes(p, i) /\ Active(s).stack = Active(q).stack
      <4>1. Active(s).stack = Active(q).stack BY <3>1 DEF Spot
      <4> HIDE DEF f, x, b, c, i, j
      <4> QED BY <3>1, <4>1, SameTakes
    <3> QED BY <3>1, <3>2
  <2>2. CASE x \notin 1 .. Len(b)
    <3> HIDE DEF x, b
    <3>1. x = Len(b)+1 BY <1>1, <2>2
    <3> QED BY <1>1, <2>2, <3>1
  <2> QED BY <2>1, <2>2
<1> HIDE DEF q1, s1
<1>5. CASE badq
  <2>1. q1 = Invalid(q) /\ s1 = Invalid(s) BY <1>2, <1>3, <1>4, <1>5
  <2>2. Pair(p, o, q1, s1) /\ q1.trace = q.trace /\ s1.trace = s.trace BY <2>1, InvalidPair
  <2> QED BY <2>2 DEF Paired, SameCall, q1, s1
<1>6. CASE ~badq
  <2>1. Arms(p, q, Active(q), b, i, q1) /\ Arms(o, s, Active(s), c, j, s1) BY <1>2, <1>3, <1>4, <1>6
  <2>2. Spot(p, o, q, s, f, x, b, c, i, j) BY <1>1, <1>6
  <2>3. Both(p, o, q, s, f, x, b, c, i, j, q1, s1) BY <1>6, <2>1, <2>2 DEF Both
  <2> HIDE DEF f, x, b, c, i, j
  <2>4. i.op \in Ops BY <2>3, BothParts
  <2>5. ASSUME i.op \in {"const", "get", "add", "eqz", "drop"} PROVE Paired(p, o, q, s, q1, s1) BY <2>3, <2>5, StackPair
  <2>6. ASSUME i.op \in {"set", "tee"} PROVE Paired(p, o, q, s, q1, s1) BY <2>3, <2>6, SetPair
  <2>7. ASSUME i.op = "call" PROVE Paired(p, o, q, s, q1, s1) BY <2>3, <2>7, CallPair
  <2>8. ASSUME i.op \in {"block", "loop"} \/ (i.op = "if" /\ Upper(Active(q).stack) # 0)
        PROVE Paired(p, o, q, s, q1, s1)
    BY <2>3, <2>8, OpenPair
  <2>9. ASSUME i.op = "if", Upper(Active(q).stack) = 0 PROVE Paired(p, o, q, s, q1, s1) BY <2>3, <2>9, OtherwisePair
  <2>10. ASSUME i.op = "else" PROVE Paired(p, o, q, s, q1, s1) BY <2>3, <2>10, ElsePair
  <2>11. ASSUME i.op = "end" PROVE Paired(p, o, q, s, q1, s1) BY <2>3, <2>11, EndPair
  <2>12. ASSUME i.op \in {"br", "br_if", "br_table", "ret", "trap"} PROVE Paired(p, o, q, s, q1, s1)
    BY <2>3, <2>12, JumpPair
  <2>13. Paired(p, o, q, s, q1, s1)
    BY <2>4, <2>5, <2>6, <2>7, <2>8, <2>9, <2>10, <2>11, <2>12 DEF Ops
  <2> QED BY <2>13 DEF q1, s1
<1> QED BY <1>5, <1>6

-----------------------------------------------------------------------------
(* Through an inserted guard *)

\* s stands at x with the operands st where q stands at its active function's pc.
Behind(p, o, q, s, x, st) ==
  /\ Good(p, q) /\ Running(q) /\ s.status = q.status /\ s.result = q.result /\ s.trace \in Seq(Call)
  /\ s.frames = FramesOf(p, o, q, FrameAt(p, o, Active(q), x, st))

LEMMA BehindActive ==
  ASSUME NEW p, NEW o, NEW q, NEW s, NEW x, NEW st, Behind(p, o, q, s, x, st)
  PROVE  Active(s) = FrameAt(p, o, Active(q), x, st) /\ Active(q) \in Frame(p) /\ q.trace \in Seq(Call)
<1> DEFINE F == q.frames
           G1 == s.frames
           n == Len(F)
           top == FrameAt(p, o, Active(q), x, st)
<1>1. F \in Seq(Frame(p)) /\ F # <<>> /\ q.trace \in Seq(Call) BY DEF Behind, Good
<1>2. n \in Nat \ {0} BY <1>1, EmptySeq, LenProperties
<1>3. Active(q) \in Frame(p) BY <1>1, <1>2, ElementOfSeq DEF Active
<1>4. G1 = [i \in 1 .. n |-> IF i = n THEN top ELSE Landed(p, o, F[i])] BY DEF Behind, FramesOf
<1> HIDE DEF n, top, F
<1>5. DOMAIN G1 = 1 .. n /\ G1[n] = top /\ G1 = [i \in 1 .. n |-> G1[i]] BY <1>2, <1>4
<1> HIDE DEF G1
<1>6. Len(G1) = n
  <2> DEFINE T == {G1[i] : i \in 1 .. n}
  <2>1. G1 \in [1 .. n -> T] BY <1>5
  <2> HIDE DEF T
  <2> QED BY <1>2, <2>1, FunctionIsSeq
<1>7. Active(s) = top BY <1>5, <1>6 DEF Active, G1
<1> QED BY <1>1, <1>3, <1>7 DEF top

LEMMA BehindNext ==
  ASSUME NEW p, NEW o, NEW q, NEW s, NEW x, NEW st, Behind(p, o, q, s, x, st), NEW st1,
         NEW t, t.frames = Then(s, st1, Active(s).labels).frames, t.trace \in Seq(Call),
         t.status = s.status, t.result = s.result
  PROVE  Behind(p, o, q, t, x+1, st1)
<1> DEFINE F == q.frames
           G1 == s.frames
           n == Len(F)
           a == Active(q)
           top == FrameAt(p, o, a, x, st)
           next == FrameAt(p, o, a, x+1, st1)
<1>1. Active(s) = top BY BehindActive
<1>2. top.fn = Renumber(p, o, a.fn) /\ top.pc = x /\ top.labels = MapLabels(p, a.fn, a.labels) /\ top.locals = a.locals
  BY DEF FrameAt
<1>3. next = [fn |-> Active(s).fn, pc |-> Active(s).pc + 1, stack |-> st1, labels |-> Active(s).labels,
              locals |-> Active(s).locals]
  BY <1>1, <1>2 DEF FrameAt
<1>4. t.frames = [G1 EXCEPT ![Len(G1)] = next] BY <1>3 DEF Then, GoOn
<1>5. F \in Seq(Frame(p)) /\ F # <<>> BY DEF Behind, Good
<1>6. n \in Nat \ {0} BY <1>5, EmptySeq, LenProperties
<1>7. G1 = [i \in 1 .. n |-> IF i = n THEN top ELSE Landed(p, o, F[i])] BY DEF Behind, FramesOf
<1> HIDE DEF n, top, next, F
<1>8. DOMAIN G1 = 1 .. n /\ G1 = [i \in 1 .. n |-> G1[i]] BY <1>6, <1>7
<1> HIDE DEF G1
<1>9. Len(G1) = n
  <2> DEFINE T == {G1[i] : i \in 1 .. n}
  <2>1. G1 \in [1 .. n -> T] BY <1>8
  <2> HIDE DEF T
  <2> QED BY <1>6, <2>1, FunctionIsSeq
<1>10. t.frames = [i \in 1 .. n |-> IF i = n THEN next ELSE Landed(p, o, F[i])] BY <1>4, <1>7, <1>8, <1>9
<1>11. t.frames = FramesOf(p, o, q, next) BY <1>10 DEF n, F, FramesOf
<1> QED BY <1>11 DEF Behind, next

\* A guard of the active function, which lies in front of it.
AtSite(p, q) == Active(q).pc - 1 \in Unguarded(p, Active(q).fn)
SiteId(p, q) == GuardId(p, Active(q).fn, Active(q).pc - 1)

\* What the first j of its operators leave on the stack.
Pushed(p, q, j) ==
  CASE j = 1 -> <<SiteId(p, q)>>
    [] j = 2 -> <<SiteId(p, q), MaxIter>>
    [] j = 3 -> <<Answer(<<SiteId(p, q), MaxIter>>)>>
    [] OTHER -> <<>>
Within(p, o, q, s, j) ==
  Behind(p, o, q, s, Landing(p, Active(q).fn, Active(q).pc) + j, Active(q).stack \o Pushed(p, q, j))

GuardCall(p, q) == <<"_g", <<SiteId(p, q), MaxIter>>>>

\* Where the guard lies, and what its operators are.
SiteLies(p, o, q, s, j, i) ==
  /\ Active(s).pc \in DOMAIN o.funcs[Active(s).fn].body
  /\ Current(o, s) = i /\ Active(s).stack = Active(q).stack \o Pushed(p, q, j)
  /\ SiteId(p, q) \in AutoBase .. UserBase-1 /\ GIndex(o) \in Imports(o) /\ o.imports[GIndex(o)+1] = GImport
  /\ Active(q).stack \in Seq(Nat)
Operators(p, o, q, j) ==
  CASE j = 0 -> I("const", SiteId(p, q))
    [] j = 1 -> I("const", MaxIter)
    [] j = 2 -> I("call", GIndex(o))
    [] j = 3 -> I("drop", 0)

\* Places again, for a guard.
GuardLies(p, f, o, c, k) ==
  /\ GuardAt(c, Moved(p, f, k), GuardId(p, f, k), GIndex(o))
  /\ \A r \in 1 .. 4 : Moved(p, f, k) + r \in 1 .. Len(c)
  /\ DOMAIN c = 1 .. Len(c)

LEMMA GuardPlace ==
  ASSUME NEW p \in Programs, NEW f \in DOMAIN p.funcs, NEW o, NEW c,
         BuiltTo(p, o, f, c, Len(p.funcs[f].body) + 1), NEW k \in Unguarded(p, f)
  PROVE  GuardLies(p, f, o, c, k)
<1>1. k \in 1 .. Len(p.funcs[f].body) BY UnguardedLoops
<1>2. /\ k \in Unguarded(p, f) =>
           /\ GuardAt(c, Moved(p, f, k), GuardId(p, f, k), GIndex(o))
           /\ \A r \in 1 .. 4 : Moved(p, f, k) + r \in 1 .. Len(c)
  BY <1>1, Places
<1>3. c \in Seq(Operator) BY DEF BuiltTo
<1>4. DOMAIN c = 1 .. Len(c) BY <1>3, LenProperties
<1> QED BY <1>2, <1>4 DEF GuardLies

LEMMA SiteLiesAt ==
  ASSUME NEW p \in Programs, NEW o, Shaped(p, o), NEW q, NEW s, NEW j \in 0 .. 3, Within(p, o, q, s, j), AtSite(p, q)
  PROVE  SiteLies(p, o, q, s, j, Operators(p, o, q, j))
<1> DEFINE f == Active(q).fn
           k == Active(q).pc - 1
           y == Active(q).pc
           c == o.funcs[Active(s).fn].body
           st == Active(q).stack \o Pushed(p, q, j)
           x == Landing(p, f, Active(q).pc) + j
           m == Moved(p, f, k)
           r == j+1
<1>1. Active(s) = FrameAt(p, o, Active(q), x, st) /\ Active(q) \in Frame(p) BY BehindActive DEF Within
<1>2. f \in DOMAIN p.funcs /\ Active(q).stack \in Seq(Nat) /\ y \in 1 .. Len(p.funcs[f].body)+1 BY <1>1, FrameParts
<1>3. Active(s).fn = Renumber(p, o, f) /\ Active(s).pc = x /\ Active(s).stack = st BY <1>1 DEF FrameAt
<1>4. BuiltTo(p, o, f, c, Len(p.funcs[f].body) + 1) BY <1>2, <1>3, FunctionParts
<1>5. k \in Unguarded(p, f) /\ k \in Int /\ k+1 = y
  <2>1. k \in Unguarded(p, f) BY DEF AtSite
  <2>2. Len(p.funcs[f].body) \in Nat BY <1>2, OldBody
  <2> HIDE DEF y
  <2>3. y \in Int BY <1>2, <2>2
  <2> QED BY <2>1, <2>3 DEF y
<1>6. Landing(p, f, y) = m + 1 /\ m \in Int
  <2> HIDE DEF k, y, f
  <2>1. Landing(p, f, k+1) = Moved(p, f, k) + 1 BY <1>2, <1>5, NextPlace
  <2>2. Moved(p, f, k) \in Int BY <1>2, <1>5, ShiftType
  <2> QED BY <1>5, <2>1, <2>2
<1>7. x = m + r /\ r \in 1 .. 4
  <2> HIDE DEF m
  <2> QED BY <1>6
<1>8. GuardLies(p, f, o, c, k) BY <1>2, <1>4, <1>5, GuardPlace
<1>9. m + r \in DOMAIN c
  <2> HIDE DEF r, m
  <2> QED BY <1>7, <1>8 DEF GuardLies, m
<1>10. c[m+1] = I("const", GuardId(p, f, k)) /\ c[m+2] = I("const", MaxIter)
       /\ c[m+3] = I("call", GIndex(o))   /\ c[m+4] = I("drop", 0)
  BY <1>8 DEF GuardLies, GuardAt
<1>11. c[m+r] = Operators(p, o, q, j)
  <2> HIDE DEF c, m
  <2>1. GuardId(p, f, k) = SiteId(p, q) BY DEF SiteId
  <2>2. CASE j = 0 BY <1>10, <2>1, <2>2 DEF Operators
  <2>3. CASE j = 1 BY <1>10, <2>3 DEF Operators
  <2>4. CASE j = 2 BY <1>10, <2>4 DEF Operators
  <2>5. CASE j = 3 BY <1>10, <2>5 DEF Operators
  <2> QED BY <2>2, <2>3, <2>4, <2>5
<1>12. Current(o, s) = c[x] BY <1>3 DEF Current
<1>13. <<f, k>> \in Sites(p) BY <1>2, <1>5, SiteOf
<1>14. SiteId(p, q) \in AutoBase .. UserBase-1
  <2> DEFINE l == <<f, k>>
  <2>1. l \in Sites(p) /\ l[1] = f /\ l[2] = k BY <1>13
  <2> HIDE DEF l
  <2>2. GuardId(p, l[1], l[2]) \in AutoBase .. UserBase-1 BY <2>1, GuardIdsApart
  <2> QED BY <2>1, <2>2 DEF SiteId
<1>15. GIndex(o) \in Imports(o) /\ o.imports[GIndex(o)+1] = GImport BY <1>13 DEF Shaped, SameImports
<1>16. Active(s).pc \in DOMAIN o.funcs[Active(s).fn].body BY <1>3, <1>7, <1>9
<1>17. Current(o, s) = Operators(p, o, q, j) BY <1>7, <1>11, <1>12
<1> QED BY <1>2, <1>3, <1>14, <1>15, <1>16, <1>17 DEF SiteLies

\* The operands around those of a guard.
One(a) == <<a>>
Two(a, b) == <<a, b>>

Stacked(st, a, b) ==
  /\ st \o <<>> = st /\ Append(st, a) = st \o One(a) /\ Append(st \o One(a), b) = st \o Two(a, b)
  /\ Tail0(st \o Two(a, b), 2) = Two(a, b) /\ Drop0(st \o Two(a, b), 2) = st /\ Drop0(st \o One(a), 1) = st
  /\ Len(st \o Two(a, b)) >= 2 /\ Len(st \o One(a)) >= 1 /\ Len(st) \in Nat
  /\ One(a) \in Seq(Nat) /\ Two(a, b) \in Seq(Nat)

LEMMA GuardStacks == ASSUME NEW st \in Seq(Nat), NEW a \in Nat, NEW b \in Nat PROVE Stacked(st, a, b)
<1> DEFINE n == Len(st)
           u == st \o <<a>>
           v == st \o <<a, b>>
<1>1. n \in Nat BY LenProperties
<1>2. <<>> \in Seq(Nat) /\ <<a>> \in Seq(Nat) /\ <<a, b>> \in Seq(Nat) /\ Len(<<a>>) = 1 /\ Len(<<a, b>>) = 2 /\ Len(<<>>) = 0
      /\ <<a>>[1] = a /\ <<a, b>>[1] = a /\ <<a, b>>[2] = b
  OBVIOUS
<1>3. st \o <<>> = st
  <2> DEFINE w == st \o <<>>
  <2>1. w \in Seq(Nat) /\ Len(w) = n /\ \A i \in 1 .. n : w[i] = st[i] BY <1>1, <1>2, ConcatProperties
  <2> HIDE DEF w
  <2>2. w = st BY <2>1, SeqEqual
  <2> QED BY <2>2 DEF w
<1>4. u \in Seq(Nat) /\ Len(u) = n+1 /\ (\A i \in 1 .. n : u[i] = st[i]) /\ u[n+1] = a
  <2>1. u \in Seq(Nat) /\ Len(u) = n+1 /\ \A i \in 1 .. n+1 : u[i] = IF i <= n THEN st[i] ELSE <<a>>[i-n]
    BY <1>1, <1>2, ConcatProperties
  <2> HIDE DEF u, n
  <2>2. \A i \in 1 .. n : u[i] = st[i] BY <1>1, <2>1
  <2>3. u[n+1] = <<a>>[(n+1)-n] /\ (n+1)-n = 1 BY <1>1, <2>1
  <2> QED BY <2>1, <2>2, <2>3
<1>5. v \in Seq(Nat) /\ Len(v) = n+2 /\ (\A i \in 1 .. n : v[i] = st[i]) /\ v[n+1] = a /\ v[n+2] = b
  <2>1. v \in Seq(Nat) /\ Len(v) = n+2 /\ \A i \in 1 .. n+2 : v[i] = IF i <= n THEN st[i] ELSE <<a, b>>[i-n]
    BY <1>1, <1>2, ConcatProperties
  <2> HIDE DEF v, n
  <2>2. \A i \in 1 .. n : v[i] = st[i] BY <1>1, <2>1
  <2>3. v[n+1] = <<a, b>>[(n+1)-n] /\ (n+1)-n = 1 BY <1>1, <2>1
  <2>4. v[n+2] = <<a, b>>[(n+2)-n] /\ (n+2)-n = 2 BY <1>1, <2>1
  <2> QED BY <1>2, <2>1, <2>2, <2>3, <2>4
<1>6. Append(st, a) = u
  <2> DEFINE w == Append(st, a)
  <2>1. w \in Seq(Nat) /\ Len(w) = n+1 /\ (\A i \in 1 .. n : w[i] = st[i]) /\ w[n+1] = a BY AppendProperties
  <2> HIDE DEF w, u, n
  <2>2. \A i \in 1 .. n+1 : w[i] = u[i] BY <1>1, <1>4, <2>1
  <2>3. w = u BY <1>4, <2>1, <2>2, SeqEqual
  <2> QED BY <2>3 DEF w
<1>7. Append(u, b) = v
  <2> DEFINE w == Append(u, b)
  <2> HIDE DEF u, v
  <2>1. w \in Seq(Nat) /\ Len(w) = Len(u)+1 /\ (\A i \in 1 .. Len(u) : w[i] = u[i]) /\ w[Len(u)+1] = b
    BY <1>4, AppendProperties
  <2> HIDE DEF w, n
  <2>2. Len(w) = n+2 /\ w[n+2] = b /\ \A i \in 1 .. n+1 : w[i] = u[i]
    <3>1. (n+1)+1 = n+2 BY <1>1
    <3> QED BY <1>4, <2>1, <3>1
  <2>3. \A i \in 1 .. n+2 : w[i] = v[i] BY <1>1, <1>4, <1>5, <2>2
  <2>4. w = v BY <1>5, <2>1, <2>2, <2>3, SeqEqual
  <2> QED BY <2>4 DEF w
<1>8. Tail0(v, 2) = <<a, b>>
  <2> DEFINE w == SubSeq(v, n+1, n+2)
  <2> HIDE DEF v, n
  <2>1. n+1 \in Int /\ n+2 \in Int /\ \A i \in n+1 .. n+2 : v[i] \in Nat
    <3>1. \A i \in n+1 .. n+2 : i \in 1 .. Len(v) BY <1>1, <1>5
    <3>2. \A i \in 1 .. Len(v) : v[i] \in Nat BY <1>5, ElementOfSeq
    <3> QED BY <1>1, <3>1, <3>2
  <2>2. w \in Seq(Nat) /\ Len(w) = (IF n+1 <= n+2 THEN (n+2)-(n+1)+1 ELSE 0)
        /\ \A i \in 1 .. (n+2)-(n+1)+1 : w[i] = v[n+1+i-1]
    BY <2>1, SubSeqProperties
  <2> HIDE DEF w
  <2>3. (n+2)-(n+1)+1 = 2 /\ n+1 <= n+2 /\ n+1+1-1 = n+1 /\ n+1+2-1 = n+2 BY <1>1
  <2>4. Len(w) = 2 /\ w[1] = a /\ w[2] = b
    <3>1. Len(w) = 2 /\ 1 \in 1 .. (n+2)-(n+1)+1 /\ 2 \in 1 .. (n+2)-(n+1)+1 BY <2>2, <2>3
    <3>2. w[1] = v[n+1+1-1] /\ w[2] = v[n+1+2-1] BY <2>2, <3>1
    <3> QED BY <1>5, <2>3, <3>1, <3>2
  <2> DEFINE t == <<a, b>>
  <2>5. t \in Seq(Nat) /\ Len(t) = 2 /\ t[1] = a /\ t[2] = b BY <1>2
  <2> HIDE DEF t
  <2>6. \A i \in 1 .. 2 : w[i] = t[i] BY <2>4, <2>5
  <2>7. w = t BY <2>2, <2>4, <2>5, <2>6, SeqEqual
  <2>8. Len(v)-2+1 = n+1 /\ Len(v) = n+2 BY <1>1, <1>5
  <2>9. Tail0(v, 2) = w BY <2>8 DEF Tail0, w
  <2> QED BY <2>7, <2>9 DEF t
<1>9. ASSUME NEW z \in Seq(Nat), NEW r \in Nat, Len(z) = n + r, \A i \in 1 .. n : z[i] = st[i] PROVE Drop0(z, r) = st
  <2> DEFINE w == SubSeq(z, 1, n)
  <2> HIDE DEF n
  <2>1. 1 \in Int /\ n \in Int /\ \A i \in 1 .. n : z[i] \in Nat
    <3>1. \A i \in 1 .. n : i \in 1 .. Len(z) BY <1>1, <1>9
    <3>2. \A i \in 1 .. Len(z) : z[i] \in Nat BY <1>9, ElementOfSeq
    <3> QED BY <1>1, <3>1, <3>2
  <2>2. w \in Seq(Nat) /\ Len(w) = (IF 1 <= n THEN n-1+1 ELSE 0) /\ \A i \in 1 .. n-1+1 : w[i] = z[1+i-1]
    BY <2>1, SubSeqProperties
  <2> HIDE DEF w
  <2>3. Len(w) = n BY <1>1, <2>2
  <2>4. \A i \in 1 .. n : w[i] = st[i]
    <3>1. ASSUME NEW i \in 1 .. n PROVE w[i] = st[i]
      <4>1. i \in 1 .. n-1+1 /\ 1+i-1 = i BY <1>1
      <4> QED BY <1>9, <2>2, <4>1
    <3> QED BY <3>1
  <2>5. Len(st) = n BY DEF n
  <2>6. w = st BY <2>2, <2>3, <2>4, <2>5, SeqEqual
  <2>7. Len(z) - r = n BY <1>1, <1>9
  <2>8. Drop0(z, r) = w BY <2>7 DEF Drop0, w
  <2> QED BY <2>6, <2>8
<1>10. Drop0(v, 2) = st
  <2> HIDE DEF v, n
  <2> QED BY <1>5, <1>9
<1>11. Drop0(u, 1) = st
  <2> HIDE DEF u, n
  <2> QED BY <1>4, <1>9
<1>12. Len(v) >= 2 /\ Len(u) >= 1
  <2> HIDE DEF u, v, n
  <2> QED BY <1>1, <1>4, <1>5
<1> QED BY <1>1, <1>2, <1>3, <1>6, <1>7, <1>8, <1>10, <1>11, <1>12 DEF One, Two, Stacked

LEMMA CallIs == ASSUME NEW args, args \in Seq(Nat), NEW c, c = <<"_g", args>> PROVE c \in Call
BY DEF Call

\* After one more operator of the guard: the third one calls _g.
Passing(p, o, q, s, j, t) ==
  /\ Within(p, o, q, t, j+1) /\ t.trace = IF j = 2 THEN Append(s.trace, GuardCall(p, q)) ELSE s.trace
  /\ GuardCall(p, q) \in Call /\ SiteId(p, q) \in AutoBase .. UserBase-1

LEMMA GuardStep ==
  ASSUME NEW p \in Programs, NEW o, Shaped(p, o), NEW q, NEW s, NEW j \in 0 .. 3, Within(p, o, q, s, j), AtSite(p, q),
         NEW t, t = Step(o, s)
  PROVE  Passing(p, o, q, s, j, t)
<1> SUFFICES /\ Within(p, o, q, t, j+1)
             /\ t.trace = IF j = 2 THEN Append(s.trace, GuardCall(p, q)) ELSE s.trace
             /\ GuardCall(p, q) \in Call /\ SiteId(p, q) \in AutoBase .. UserBase-1
  BY DEF Passing
<1> DEFINE st == Active(q).stack
           id == SiteId(p, q)
           M == MaxIter
           a == Answer(Two(id, M))
           b == o.funcs[Active(s).fn].body
           i == Operators(p, o, q, j)
           x == Landing(p, Active(q).fn, Active(q).pc)
           S == Active(s).stack
           L == Active(s).labels
           c == GuardCall(p, q)
<1>1. SiteLies(p, o, q, s, j, i) BY SiteLiesAt
<1>2. /\ Active(s).pc \in DOMAIN b /\ Current(o, s) = i /\ S = st \o Pushed(p, q, j) /\ st \in Seq(Nat)
      /\ id \in AutoBase .. UserBase-1 /\ GIndex(o) \in Imports(o) /\ o.imports[GIndex(o)+1] = GImport
  BY <1>1 DEF SiteLies
<1>3. id \in Nat /\ M \in Nat /\ id < Width /\ M < Width /\ Width \in Nat /\ id % Width = id /\ M % Width = M
  <2> HIDE DEF id
  <2>1. AutoBase \in Nat /\ UserBase \in Nat /\ UserBase <= Width /\ Width \in Nat /\ M \in Nat /\ M < Width
    BY WasmWidth, GuardParameters
  <2> QED BY <1>2, <2>1
<1>4. Two(id, M) \in Seq(Nat) /\ a \in Nat
  <2> HIDE DEF id, M
  <2>1. Two(id, M) \in Seq(Nat) BY <1>3 DEF Two
  <2> QED BY <2>1, AnswerType
<1>5. c \in Call
  <2> DEFINE w == Two(id, M)
  <2>1. c = <<"_g", w>> BY DEF GuardCall, Two
  <2>2. w \in Seq(Nat) BY <1>4
  <2> HIDE DEF w, c
  <2> QED BY <2>1, <2>2, CallIs
<1>6. Behind(p, o, q, s, x+j, st \o Pushed(p, q, j)) BY DEF Within
<1>7. s.trace \in Seq(Call) BY <1>6 DEF Behind
<1>8. ~(Len(S) < Takes(o, i)) => Arms(o, s, Active(s), b, i, t) BY <1>2, StepIs
<1>8a. x \in Int
  <2>1. Active(q) \in Frame(p) BY <1>6, BehindActive
  <2> DEFINE f == Active(q).fn
             y == Active(q).pc
  <2>2. f \in DOMAIN p.funcs /\ y \in 1 .. Len(p.funcs[f].body)+1 BY <2>1, FrameParts
  <2>3. Len(p.funcs[f].body) \in Nat BY <2>2, OldBody
  <2> HIDE DEF y, f
  <2>4. y \in Int BY <2>2, <2>3
  <2>5. Landing(p, f, y) \in Int BY <2>2, <2>4, ShiftType
  <2> QED BY <2>5 DEF y, f
<1> DEFINE st0 == st \o Pushed(p, q, j)
           st1 == st \o Pushed(p, q, j+1)
<1>9. ASSUME t.frames = Then(s, st1, L).frames, t.trace \in Seq(Call), t.status = s.status, t.result = s.result
      PROVE  Within(p, o, q, t, j+1)
  <2> DEFINE y == x+j
  <2>1. Behind(p, o, q, s, y, st0) BY <1>6
  <2>2. t.frames = Then(s, st1, Active(s).labels).frames BY <1>9
  <2> HIDE DEF y, st0, st1
  <2>3. Behind(p, o, q, t, y+1, st1) BY <1>9, <2>1, <2>2, BehindNext
  <2>4. y+1 = x+(j+1)
    <3> HIDE DEF x
    <3> QED BY <1>8a DEF y
  <2> QED BY <2>3, <2>4 DEF Within, st1
<1>10. ASSUME t = Then(s, st1, L) PROVE Within(p, o, q, t, j+1) /\ t.trace = s.trace
  <2>1. t.frames = Then(s, st1, L).frames /\ t.trace = s.trace /\ t.status = s.status /\ t.result = s.result
    BY <1>10 DEF Then, GoOn
  <2> QED BY <1>7, <1>9, <2>1
<1>11. /\ Pushed(p, q, 0) = <<>> /\ Pushed(p, q, 1) = One(id) /\ Pushed(p, q, 2) = Two(id, M)
       /\ Pushed(p, q, 3) = One(a) /\ Pushed(p, q, 4) = <<>> BY DEF Pushed, One, Two
<1> HIDE DEF id, a, c, x, b, st, L, M, S
<1>11a. Stacked(st, id, M) /\ Stacked(st, a, M) BY <1>2, <1>3, <1>4, GuardStacks
<1>12. CASE j = 0
  <2>1. i.op = "const" /\ i.n = id BY <1>12 DEF Operators, I, id
  <2>2. Takes(o, i) = 0 BY <2>1 DEF Takes
  <2>3. S = st \o <<>> /\ st1 = st \o One(id)
    <3>1. st1 = st \o Pushed(p, q, 1) BY <1>12
    <3> QED BY <1>2, <1>11, <1>12, <3>1
  <2> HIDE DEF i, st1
  <2>4. st \o <<>> = st /\ Append(st, id) = st \o One(id) /\ Len(st) \in Nat BY <1>11a DEF Stacked
  <2>5. S = st /\ ~(Len(S) < 0) BY <2>3, <2>4
  <2>6. Arms(o, s, Active(s), b, i, t) BY <1>8, <2>2, <2>5
  <2>7. t = Then(s, Append(S, i.n % Width), L) BY <2>1, <2>6 DEF Arms, S, L
  <2>8. t = Then(s, st1, L) BY <1>3, <2>1, <2>3, <2>4, <2>5, <2>7
  <2> QED BY <1>2, <1>5, <1>10, <1>12, <2>8 DEF c, id
<1>13. CASE j = 1
  <2>1. i.op = "const" /\ i.n = M BY <1>13 DEF Operators, I, M
  <2>2. Takes(o, i) = 0 BY <2>1 DEF Takes
  <2>3. S = st \o One(id) /\ st1 = st \o Two(id, M)
    <3>1. st1 = st \o Pushed(p, q, 2) BY <1>13
    <3> QED BY <1>2, <1>11, <1>13, <3>1
  <2> HIDE DEF i, st1
  <2>4. Append(st \o One(id), M) = st \o Two(id, M) BY <1>11a DEF Stacked
  <2>5. ~(Len(S) < 0)
    <3>0. One(id) \in Seq(Nat) BY <1>11a DEF Stacked
    <3>1. S \in Seq(Nat) BY <1>2, <2>3, <3>0, ConcatProperties
    <3>2. Len(S) \in Nat BY <3>1, LenProperties
    <3> QED BY <3>2
  <2>6. Arms(o, s, Active(s), b, i, t) BY <1>8, <2>2, <2>5
  <2>7. t = Then(s, Append(S, i.n % Width), L) BY <2>1, <2>6 DEF Arms, S, L
  <2>8. t = Then(s, st1, L) BY <1>3, <2>1, <2>3, <2>4, <2>7
  <2> QED BY <1>2, <1>5, <1>10, <1>13, <2>8 DEF c, id
<1>14. CASE j = 2
  <2> DEFINE g == GIndex(o)
             n == Len(o.imports)
  <2>1. i.op = "call" /\ i.n = g BY <1>14 DEF Operators, I
  <2>2. g < n
    <3>1. g \in 0 .. n-1 /\ n \in Nat BY <1>2 DEF Imports, Shaped, SameImports
    <3> HIDE DEF g, n
    <3> QED BY <3>1
  <2>3. GImport.params = 2 /\ GImport.result = 1 /\ GImport.ends = FALSE /\ GImport.name = "_g" BY DEF GImport
  <2>4. Takes(o, i) = 2 BY <1>2, <2>1, <2>2, <2>3 DEF Takes
  <2>5. S = st \o Two(id, M) /\ st1 = st \o One(a)
    <3>1. st1 = st \o Pushed(p, q, 3) BY <1>14
    <3> QED BY <1>2, <1>11, <1>14, <3>1
  <2> HIDE DEF i, st1, g
  <2>6. Tail0(S, 2) = Two(id, M) /\ Drop0(S, 2) = st /\ ~(Len(S) < 2)
    <3>1. Tail0(S, 2) = Two(id, M) /\ Drop0(S, 2) = st /\ Len(S) >= 2 BY <2>5, <1>11a DEF Stacked
    <3>2. S \in Seq(Nat) BY <1>2, <1>4, <2>5, ConcatProperties
    <3>3. Len(S) \in Nat BY <3>2, LenProperties
    <3> QED BY <3>1, <3>3
  <2>7. Arms(o, s, Active(s), b, i, t) BY <1>8, <2>4, <2>6
  <2>8. t = HostCall(o, s, g) BY <2>1, <2>2, <2>7 DEF Arms
  <2>8a. c = <<"_g", Two(id, M)>> BY DEF c, GuardCall, id, M, Two
  <2> DEFINE h == o.imports[g+1]
             args == Tail0(S, h.params)
             res == IF h.result = 1 THEN <<Answer(args)>> ELSE <<>>
  <2>8b. t = [frames |-> Then(s, Drop0(S, h.params) \o res, L).frames, trace |-> Append(s.trace, <<h.name, args>>),
              status |-> IF h.ends THEN "ended" ELSE s.status, result |-> s.result]
    BY <2>8 DEF HostCall, S, L
  <2>8c. h = GImport BY <1>2 DEF g
  <2> HIDE DEF h
  <2>8d. args = Two(id, M) /\ Drop0(S, h.params) = st BY <2>3, <2>6, <2>8c
  <2>8e. res = One(a)
    <3>1. res = <<Answer(args)>> BY <2>3, <2>8c
    <3> HIDE DEF args, res
    <3> QED BY <2>8d, <3>1 DEF One, a
  <2> HIDE DEF args, res
  <2>8f. Drop0(S, h.params) \o res = st1 BY <2>5, <2>8d, <2>8e
  <2>8g. <<h.name, args>> = c BY <2>3, <2>8a, <2>8c, <2>8d
  <2>8h. h.ends = FALSE BY <2>3, <2>8c
  <2>9. t.frames = Then(s, st1, L).frames /\ t.trace = Append(s.trace, c) /\ t.status = s.status /\ t.result = s.result
    BY <2>8b, <2>8f, <2>8g, <2>8h
  <2>10. t.trace \in Seq(Call) BY <1>5, <1>7, <2>9, AppendProperties
  <2> QED BY <1>2, <1>5, <1>9, <1>14, <2>9, <2>10 DEF c, id
<1>15. CASE j = 3
  <2>1. i.op = "drop" BY <1>15 DEF Operators, I
  <2>2. Takes(o, i) = 1 BY <2>1 DEF Takes
  <2>3. S = st \o One(a) /\ st1 = st \o <<>>
    <3>1. st1 = st \o Pushed(p, q, 4) BY <1>15
    <3> QED BY <1>2, <1>11, <1>15, <3>1
  <2> HIDE DEF i, st1
  <2>4. Drop0(S, 1) = st /\ st1 = st /\ ~(Len(S) < 1)
    <3>1. Drop0(S, 1) = st /\ Len(S) >= 1 /\ st \o <<>> = st BY <2>3, <1>11a DEF Stacked
    <3>0. One(a) \in Seq(Nat) BY <1>11a DEF Stacked
    <3>2. S \in Seq(Nat) BY <1>2, <2>3, <3>0, ConcatProperties
    <3>3. Len(S) \in Nat BY <3>2, LenProperties
    <3> QED BY <2>3, <3>1, <3>3
  <2>5. Arms(o, s, Active(s), b, i, t) BY <1>8, <2>2, <2>4
  <2>6. t = Then(s, st1, L) BY <2>1, <2>4, <2>5 DEF Arms, S, L
  <2> QED BY <1>2, <1>5, <1>10, <1>15, <2>6 DEF c, id
<1> QED BY <1>12, <1>13, <1>14, <1>15

-----------------------------------------------------------------------------
(* Traces *)

CallsAt(tr, id) == {k \in DOMAIN tr : tr[k][1] = "_g" /\ tr[k][2][1] = id}
Calls(tr, id) == Cardinality(CallsAt(tr, id))
Of(c, id) == c[1] = "_g" /\ c[2][1] = id

VisibleIn(tr) ==
  [j \in 1 .. Cardinality(Shown(tr)) |-> tr[CHOOSE k \in NthShown(tr, j) : TRUE]]

PrefixOf(a, b) == Len(a) <= Len(b) /\ \A i \in 1 .. Len(a) : a[i] = b[i]

LEMMA PrefixIs == ASSUME NEW T, NEW a \in Seq(T), NEW b \in Seq(T), PrefixOf(a, b) PROVE IsPrefix(a, b)
<1> DEFINE n == Len(a)
           u == SubSeq(a, 1, n)
           v == SubSeq(b, 1, n)
<1>1. n \in Nat /\ Len(b) \in Nat /\ n <= Len(b) /\ \A i \in 1 .. n : a[i] = b[i] BY LenProperties DEF PrefixOf
<1>2. \A i \in 1 .. n : a[i] \in T /\ b[i] \in T
  <2>1. \A i \in 1 .. n : a[i] \in T BY ElementOfSeq
  <2> QED BY <1>1, <2>1
<1> HIDE DEF n
<1>3. 1 \in Int /\ n \in Int BY <1>1
<1>4. u \in Seq(T) /\ Len(u) = (IF 1 <= n THEN n-1+1 ELSE 0) /\ \A i \in 1 .. n-1+1 : u[i] = a[1+i-1]
  BY <1>2, <1>3, SubSeqProperties
<1>5. v \in Seq(T) /\ Len(v) = (IF 1 <= n THEN n-1+1 ELSE 0) /\ \A i \in 1 .. n-1+1 : v[i] = b[1+i-1]
  BY <1>2, <1>3, SubSeqProperties
<1> HIDE DEF u, v
<1>6. Len(u) = n /\ Len(v) = n /\ \A i \in 1 .. n : i \in 1 .. n-1+1 /\ 1+i-1 = i BY <1>1, <1>4, <1>5
<1>7. \A i \in 1 .. n : u[i] = v[i] BY <1>1, <1>4, <1>5, <1>6
<1>8. u = v BY <1>4, <1>5, <1>6, <1>7, SeqEqual
<1> QED BY <1>1, <1>8 DEF IsPrefix, n, u, v

LEMMA Extended ==
  ASSUME NEW tr \in Seq(Call), NEW c \in Call, NEW u, u = Append(tr, c)
  PROVE  /\ u \in Seq(Call) /\ Len(tr) \in Nat /\ Len(u) = Len(tr)+1 /\ DOMAIN tr = 1 .. Len(tr) /\ DOMAIN u = 1 .. Len(tr)+1
         /\ (\A i \in 1 .. Len(tr) : u[i] = tr[i]) /\ u[Len(tr)+1] = c
<1>1. Len(tr) \in Nat /\ DOMAIN tr = 1 .. Len(tr) BY LenProperties
<1>2. u \in Seq(Call) /\ Len(u) = Len(tr)+1 /\ (\A i \in 1 .. Len(tr) : u[i] = tr[i]) /\ u[Len(tr)+1] = c
  BY AppendProperties
<1>3. DOMAIN u = 1 .. Len(u) BY <1>2, LenProperties
<1> QED BY <1>1, <1>2, <1>3

LEMMA CallsType == ASSUME NEW tr \in Seq(Call), NEW id PROVE IsFiniteSet(CallsAt(tr, id)) /\ Calls(tr, id) \in Nat
<1>1. Len(tr) \in Nat /\ DOMAIN tr = 1 .. Len(tr) BY LenProperties
<1>2. CallsAt(tr, id) \in SUBSET (1 .. Len(tr)) BY <1>1 DEF CallsAt
<1> QED BY <1>1, <1>2, CountedParts DEF Calls

LEMMA CallsMore ==
  ASSUME NEW tr \in Seq(Call), NEW c \in Call, NEW id
  PROVE  Calls(Append(tr, c), id) = Calls(tr, id) + (IF Of(c, id) THEN 1 ELSE 0)
<1> DEFINE n == Len(tr)
           u == Append(tr, c)
           S == CallsAt(tr, id)
           T == CallsAt(u, id)
<1>1. n \in Nat /\ DOMAIN tr = 1 .. n /\ DOMAIN u = 1 .. n+1 /\ (\A i \in 1 .. n : u[i] = tr[i]) /\ u[n+1] = c
  BY Extended
<1>2. IsFiniteSet(S) /\ Cardinality(S) \in Nat /\ Cardinality(S) = Calls(tr, id) BY CallsType DEF Calls
<1>3. S \in SUBSET (1 .. n) BY <1>1 DEF CallsAt
<1> HIDE DEF u, n
<1>4. n+1 \notin S
  <2>1. n+1 \notin 1 .. n BY <1>1
  <2> QED BY <1>3, <2>1
<1>5. \A k : k \in 1 .. n+1 <=> k \in 1 .. n \/ k = n+1 BY <1>1
<1>6. CASE Of(c, id)
  <2>1. T = S \cup {n+1} BY <1>1, <1>5, <1>6 DEF CallsAt, Of
  <2> HIDE DEF S, T
  <2>2. Cardinality(S \cup {n+1}) = Cardinality(S) + 1 BY <1>2, <1>4, FS_AddElement
  <2> QED BY <1>2, <1>6, <2>1, <2>2 DEF Calls, T, u
<1>7. CASE ~Of(c, id)
  <2>1. T = S BY <1>1, <1>5, <1>7 DEF CallsAt, Of
  <2> QED BY <1>2, <1>7, <2>1 DEF Calls, u
<1> QED BY <1>6, <1>7

\* How many calls are shown among the first k.
ShownTo(tr, k) == {i \in Shown(tr) : i <= k}

LEMMA ShownType ==
  ASSUME NEW tr \in Seq(Call)
  PROVE  /\ Len(tr) \in Nat /\ Shown(tr) \in SUBSET (1 .. Len(tr)) /\ IsFiniteSet(Shown(tr))
         /\ Cardinality(Shown(tr)) \in Nat /\ \A k : IsFiniteSet(ShownTo(tr, k)) /\ Cardinality(ShownTo(tr, k)) \in Nat
         /\ \A j : NthShown(tr, j) = {k \in Shown(tr) : Cardinality(ShownTo(tr, k)) = j}
<1>1. Len(tr) \in Nat /\ DOMAIN tr = 1 .. Len(tr) BY LenProperties
<1>2. Shown(tr) \in SUBSET (1 .. Len(tr)) BY <1>1 DEF Shown
<1>3. IsFiniteSet(Shown(tr)) /\ Cardinality(Shown(tr)) \in Nat BY <1>1, <1>2, CountedParts
<1>4. ASSUME NEW k PROVE IsFiniteSet(ShownTo(tr, k)) /\ Cardinality(ShownTo(tr, k)) \in Nat
  <2>1. ShownTo(tr, k) \in SUBSET (1 .. Len(tr)) BY <1>2 DEF ShownTo
  <2> QED BY <1>1, <2>1, CountedParts
<1>5. \A j : NthShown(tr, j) = {k \in Shown(tr) : Cardinality(ShownTo(tr, k)) = j} BY DEF NthShown, ShownTo
<1> QED BY <1>1, <1>2, <1>3, <1>4, <1>5

LEMMA NthExists ==
  ASSUME NEW tr \in Seq(Call), NEW j \in 1 .. Cardinality(Shown(tr))
  PROVE  NthShown(tr, j) # {} /\ NthShown(tr, j) \in SUBSET (1 .. Len(tr))
<1> DEFINE n == Len(tr)
           W == Shown(tr)
           V(k) == ShownTo(tr, k)
           D(k) == Cardinality(V(k))
           S == {k \in Nat : k <= n /\ D(k) >= j}
<1>1. /\ n \in Nat /\ W \in SUBSET (1 .. n) /\ IsFiniteSet(W) /\ Cardinality(W) \in Nat
      /\ \A k : IsFiniteSet(V(k)) /\ D(k) \in Nat BY ShownType
<1>2. NthShown(tr, j) = {k \in W : D(k) = j} BY ShownType
<1>3. j \in Nat /\ j >= 1 /\ j <= Cardinality(W) BY <1>1
<1>4. V(n) = W
  <2>1. \A i \in W : i <= n BY <1>1
  <2> QED BY <2>1 DEF ShownTo
<1>5. V(0) = {}
  <2>1. \A i \in W : ~(i <= 0) BY <1>1
  <2> QED BY <2>1 DEF ShownTo
<1>6. ASSUME NEW k \in Nat, k # 0, ~(k \in W) PROVE V(k) = V(k-1)
  <2>1. \A i \in W : i <= k <=> i <= k-1
    <3>1. \A i \in W : i \in Nat /\ i # k BY <1>1, <1>6
    <3> QED BY <3>1
  <2> QED BY <2>1 DEF ShownTo
<1>7. ASSUME NEW k \in Nat, k # 0, k \in W PROVE D(k) = D(k-1) + 1
  <2>1. \A i \in W : i <= k <=> i <= k-1 \/ i = k
    <3>1. \A i \in W : i \in Nat BY <1>1
    <3> QED BY <3>1
  <2>2. V(k) = V(k-1) \cup {k} BY <1>7, <2>1 DEF ShownTo
  <2>3. k \notin V(k-1)
    <3>1. ~(k <= k-1) OBVIOUS
    <3> QED BY <3>1 DEF ShownTo
  <2> HIDE DEF V
  <2>4. Cardinality(V(k-1) \cup {k}) = Cardinality(V(k-1)) + 1 BY <1>1, <2>3, FS_AddElement
  <2> QED BY <2>2, <2>4
<1>8. n \in S BY <1>1, <1>3, <1>4
<1>9. PICK m \in S : \A k \in S : m <= k
  <2>1. S \in SUBSET Nat /\ S # {} BY <1>8
  <2> HIDE DEF S
  <2> QED BY <2>1, Least
<1>10. D(0) = 0 BY <1>5, FS_EmptySet
<1> HIDE DEF D, W
<1>11. m \in Nat /\ m <= n /\ D(m) >= j /\ m # 0 BY <1>3, <1>9, <1>10
<1>12. D(m-1) < j
  <2>1. m-1 \in Nat /\ m-1 <= n /\ ~(m <= m-1) BY <1>1, <1>11
  <2>2. m-1 \notin S BY <1>9, <2>1
  <2>3. ~(D(m-1) >= j) BY <2>1, <2>2
  <2>4. D(m-1) \in Nat BY <1>1
  <2> HIDE DEF D
  <2> QED BY <1>3, <2>3, <2>4
<1>13. m \in W
  <2>1. ASSUME ~(m \in W) PROVE FALSE
    <3>1. D(m) = D(m-1) BY <1>6, <1>11, <2>1 DEF D
    <3> QED BY <1>1, <1>3, <1>11, <1>12, <3>1
  <2> QED BY <2>1
<1>14. D(m) = j
  <2>1. D(m) = D(m-1) + 1 BY <1>7, <1>11, <1>13
  <2>2. D(m-1) \in Nat BY <1>1
  <2> QED BY <1>3, <1>11, <1>12, <2>1, <2>2
<1> QED BY <1>1, <1>2, <1>13, <1>14

\* The j-th call that is shown.
Nth(tr, j) == tr[CHOOSE k \in NthShown(tr, j) : TRUE]

LEMMA Chosen == ASSUME NEW S, S # {} PROVE (CHOOSE k \in S : TRUE) \in S
OBVIOUS

LEMMA VisibleType ==
  ASSUME NEW tr \in Seq(Call)
  PROVE  /\ VisibleIn(tr) \in Seq(Call) /\ Len(VisibleIn(tr)) = Cardinality(Shown(tr)) /\ Cardinality(Shown(tr)) \in Nat
         /\ \A j \in 1 .. Cardinality(Shown(tr)) : VisibleIn(tr)[j] = Nth(tr, j)
<1> DEFINE C == Cardinality(Shown(tr))
           v == VisibleIn(tr)
<1>1. C \in Nat /\ DOMAIN tr = 1 .. Len(tr) BY ShownType, LenProperties
<1>2. \A j \in 1 .. C : Nth(tr, j) \in Call
  <2>1. ASSUME NEW j \in 1 .. C PROVE Nth(tr, j) \in Call
    <3> DEFINE S == NthShown(tr, j)
               m == CHOOSE k \in S : TRUE
    <3>1. S # {} /\ S \in SUBSET (1 .. Len(tr)) BY NthExists
    <3> HIDE DEF S
    <3>2. m \in S BY <3>1, Chosen
    <3>3. m \in 1 .. Len(tr) BY <3>1, <3>2
    <3>4. tr[m] \in Call
      <4> HIDE DEF m
      <4> QED BY <3>3, ElementOfSeq
    <3> QED BY <3>4 DEF Nth, S
  <2> QED BY <2>1
<1>3. v = [j \in 1 .. C |-> Nth(tr, j)] BY DEF VisibleIn, Nth
<1> HIDE DEF v, C
<1>4. v \in [1 .. C -> Call] BY <1>2, <1>3
<1>5. v \in Seq(Call) /\ Len(v) = C BY <1>1, <1>4, FunctionIsSeq
<1>6. \A j \in 1 .. C : v[j] = Nth(tr, j) BY <1>3
<1> QED BY <1>1, <1>5, <1>6 DEF v, C

\* What a call that is shown adds to the ones shown.
ShowsMore(tr, u) ==
  /\ Cardinality(Shown(u)) = Cardinality(Shown(tr)) + 1
  /\ \A j \in 1 .. Cardinality(Shown(tr)) : NthShown(u, j) = NthShown(tr, j)
  /\ NthShown(u, Cardinality(Shown(tr)) + 1) = {Len(tr)+1}

LEMMA ShownMore ==
  ASSUME NEW tr \in Seq(Call), NEW c \in Call, ~Inserted(c), NEW u, u = Append(tr, c)
  PROVE  ShowsMore(tr, u)
<1> DEFINE n == Len(tr)
           S == Shown(tr)
           T == Shown(u)
           C == Cardinality(S)
           V(k) == ShownTo(tr, k)
           W(k) == ShownTo(u, k)
<1>1. u \in Seq(Call) /\ n \in Nat /\ DOMAIN tr = 1 .. n /\ DOMAIN u = 1 .. n+1 /\ (\A i \in 1 .. n : u[i] = tr[i]) /\ u[n+1] = c
  BY Extended
<1>2. S \in SUBSET (1 .. n) /\ IsFiniteSet(S) /\ C \in Nat /\ (\A k : IsFiniteSet(V(k)) /\ Cardinality(V(k)) \in Nat)
      /\ \A j : NthShown(tr, j) = {k \in S : Cardinality(V(k)) = j} BY ShownType
<1>3. \A j : NthShown(u, j) = {k \in T : Cardinality(W(k)) = j} BY <1>1, ShownType
<1> HIDE DEF n
<1>4. n+1 \notin S /\ \A k : k \in 1 .. n+1 <=> k \in 1 .. n \/ k = n+1
  <2>1. n+1 \notin 1 .. n /\ \A k : k \in 1 .. n+1 <=> k \in 1 .. n \/ k = n+1 BY <1>1
  <2> QED BY <1>2, <2>1
<1>5. T = S \cup {n+1} BY <1>1, <1>4 DEF Shown
<1> HIDE DEF S, T
<1>6. Cardinality(T) = C+1 BY <1>2, <1>4, <1>5, FS_AddElement
<1>7. \A k \in S : W(k) = V(k)
  <2>1. \A k \in S : k \in 1 .. n /\ ~(n+1 <= k)
    <3>1. \A k \in 1 .. n : ~(n+1 <= k) BY <1>1
    <3> QED BY <1>2, <3>1
  <2> QED BY <1>5, <2>1 DEF ShownTo, S, T
<1>8. W(n+1) = T
  <2>1. \A k \in T : k <= n+1
    <3>1. \A k \in S : k <= n+1 BY <1>1, <1>2
    <3>2. n+1 <= n+1 BY <1>1
    <3> QED BY <1>5, <3>1, <3>2
  <2> QED BY <2>1 DEF ShownTo, T
<1>9. \A k \in S : Cardinality(V(k)) # C+1
  <2>1. ASSUME NEW k \in S PROVE Cardinality(V(k)) # C+1
    <3> DEFINE x == V(k)
    <3>1. x \in SUBSET S BY DEF ShownTo, S
    <3> HIDE DEF x
    <3>2. Cardinality(x) <= C BY <1>2, <3>1, FS_Subset
    <3>3. Cardinality(x) \in Nat BY <1>2 DEF x
    <3>4. Cardinality(x) # C+1
      <4> HIDE DEF C
      <4> QED BY <1>2, <3>2, <3>3
    <3> QED BY <3>4 DEF x
  <2> QED BY <2>1
<1> HIDE DEF V, W
<1>10. \A k \in T : Cardinality(W(k)) = IF k = n+1 THEN C+1 ELSE Cardinality(V(k)) BY <1>4, <1>5, <1>6, <1>7, <1>8
<1>11. \A j \in 1 .. C : j # C+1
  <2> HIDE DEF C
  <2> QED BY <1>2
<1> HIDE DEF C
<1>12. \A j \in 1 .. C : NthShown(u, j) = NthShown(tr, j)
  <2>1. ASSUME NEW j \in 1 .. C PROVE NthShown(u, j) = NthShown(tr, j)
    <3> DEFINE P == {k \in S : Cardinality(V(k)) = j}
               Q == {k \in T : Cardinality(W(k)) = j}
    <3>1. \A k \in S : k \in T /\ (Cardinality(W(k)) = j <=> Cardinality(V(k)) = j) BY <1>4, <1>5, <1>10
    <3>2. Cardinality(W(n+1)) # j BY <1>5, <1>10, <1>11
    <3>3. \A k : k \in P <=> k \in Q BY <1>5, <3>1, <3>2
    <3>4. P = Q BY <3>3
    <3>5. NthShown(u, j) = Q /\ NthShown(tr, j) = P BY <1>2, <1>3
    <3> QED BY <3>4, <3>5
  <2> QED BY <2>1
<1>13. NthShown(u, C+1) = {n+1} BY <1>3, <1>4, <1>5, <1>9, <1>10
<1> QED BY <1>6, <1>12, <1>13 DEF ShowsMore, C, S, T, n

LEMMA VisibleMore ==
  ASSUME NEW tr \in Seq(Call), NEW c \in Call, ~Inserted(c), NEW u, u = Append(tr, c)
  PROVE  VisibleIn(u) = Append(VisibleIn(tr), c)
<1> DEFINE n == Len(tr)
           C == Cardinality(Shown(tr))
           v == VisibleIn(tr)
           w == VisibleIn(u)
           z == Append(v, c)
<1>1. u \in Seq(Call) /\ n \in Nat /\ (\A i \in 1 .. n : u[i] = tr[i]) /\ u[n+1] = c
  BY Extended
<1>2. ShowsMore(tr, u) BY ShownMore
<1>3. v \in Seq(Call) /\ Len(v) = C /\ C \in Nat /\ \A j \in 1 .. C : v[j] = Nth(tr, j) BY VisibleType
<1>4. w \in Seq(Call) /\ Len(w) = C+1 /\ \A j \in 1 .. C+1 : w[j] = Nth(u, j) BY <1>1, <1>2, VisibleType DEF ShowsMore
<1>5. z \in Seq(Call) /\ Len(z) = C+1 /\ (\A j \in 1 .. C : z[j] = v[j]) /\ z[C+1] = c BY <1>3, AppendProperties
<1>6. \A j \in 1 .. C : w[j] = z[j]
  <2>1. ASSUME NEW j \in 1 .. C PROVE w[j] = z[j]
    <3> DEFINE S == NthShown(tr, j)
               m == CHOOSE k \in S : TRUE
    <3>1. S # {} /\ S \in SUBSET (1 .. n) /\ NthShown(u, j) = S BY <1>2, NthExists DEF ShowsMore
    <3>2. Nth(u, j) = u[m] /\ Nth(tr, j) = tr[m] BY <3>1 DEF Nth
    <3> HIDE DEF S
    <3>3. m \in S BY <3>1, Chosen
    <3> HIDE DEF m
    <3>4. u[m] = tr[m] BY <1>1, <3>1, <3>3
    <3> HIDE DEF C, z, w, v
    <3>5. j \in 1 .. C+1 BY <1>3
    <3> QED BY <1>3, <1>4, <1>5, <3>2, <3>4, <3>5
  <2> QED BY <2>1
<1>7. w[C+1] = c
  <2>1. NthShown(u, C+1) = {n+1} BY <1>2 DEF ShowsMore
  <2>2. Nth(u, C+1) = u[n+1] BY <2>1 DEF Nth
  <2> HIDE DEF C, w
  <2>3. C+1 \in 1 .. C+1 BY <1>3
  <2> QED BY <1>1, <1>4, <2>2, <2>3
<1>8. \A j \in 1 .. C+1 : w[j] = z[j]
  <2> HIDE DEF C, w, z
  <2>1. \A j \in 1 .. C+1 : j \in 1 .. C \/ j = C+1 BY <1>3
  <2> QED BY <1>5, <1>6, <1>7, <2>1
<1> HIDE DEF w, z
<1>9. w = z BY <1>4, <1>5, <1>8, SeqEqual
<1> QED BY <1>9 DEF w, z

LEMMA VisibleSame ==
  ASSUME NEW tr \in Seq(Call), NEW c \in Call, Inserted(c), NEW u, u = Append(tr, c)
  PROVE  VisibleIn(u) = VisibleIn(tr)
<1> DEFINE n == Len(tr)
           S == Shown(tr)
           C == Cardinality(S)
           v == VisibleIn(tr)
           w == VisibleIn(u)
<1>1. u \in Seq(Call) /\ n \in Nat /\ DOMAIN tr = 1 .. n /\ DOMAIN u = 1 .. n+1 /\ (\A i \in 1 .. n : u[i] = tr[i]) /\ u[n+1] = c
  BY Extended
<1>2. Shown(u) = S
  <2>1. \A k : k \in 1 .. n+1 <=> k \in 1 .. n \/ k = n+1 BY <1>1
  <2> QED BY <1>1, <2>1 DEF Shown
<1>3. v \in Seq(Call) /\ Len(v) = C /\ C \in Nat /\ \A j \in 1 .. C : v[j] = Nth(tr, j) BY VisibleType
<1>4. w \in Seq(Call) /\ Len(w) = C /\ \A j \in 1 .. C : w[j] = Nth(u, j) BY <1>1, <1>2, VisibleType
<1>5. \A j \in 1 .. C : w[j] = v[j]
  <2>1. ASSUME NEW j \in 1 .. C PROVE w[j] = v[j]
    <3> DEFINE P == NthShown(tr, j)
               m == CHOOSE k \in P : TRUE
    <3>1. P # {} /\ P \in SUBSET (1 .. n) /\ NthShown(u, j) = P BY <1>2, NthExists DEF NthShown
    <3>2. Nth(u, j) = u[m] /\ Nth(tr, j) = tr[m] BY <3>1 DEF Nth
    <3> HIDE DEF P
    <3>3. m \in P BY <3>1, Chosen
    <3> HIDE DEF m
    <3>4. u[m] = tr[m] BY <1>1, <3>1, <3>3
    <3> QED BY <1>3, <1>4, <3>2, <3>4
  <2> QED BY <2>1
<1> HIDE DEF w, v
<1>6. w = v BY <1>3, <1>4, <1>5, SeqEqual
<1> QED BY <1>6 DEF w, v

\* Without calls of inserted guards, a trace is what it shows.
Apart(tr) == \A k \in DOMAIN tr : ~Inserted(tr[k])

LEMMA VisibleApart == ASSUME NEW tr \in Seq(Call), Apart(tr) PROVE VisibleIn(tr) = tr
<1> DEFINE n == Len(tr)
           v == VisibleIn(tr)
<1>1. n \in Nat /\ DOMAIN tr = 1 .. n BY LenProperties
<1>2. Shown(tr) = 1 .. n BY <1>1 DEF Shown, Apart
<1>3. \A j : IsFiniteSet(ShownTo(tr, j)) BY ShownType
<1>4. \A k \in 1 .. n : ShownTo(tr, k) = 1 .. k
  <2>1. \A k \in 1 .. n : \A i : (i \in 1 .. n /\ i <= k) <=> i \in 1 .. k BY <1>1
  <2> QED BY <1>2, <2>1 DEF ShownTo
<1> HIDE DEF n
<1>5. \A k \in 1 .. n : k \in Nat /\ Cardinality(1 .. k) = k
  <2>1. ASSUME NEW k \in 1 .. n PROVE k \in Nat /\ Cardinality(1 .. k) = k
    <3>1. k \in Nat BY <1>1
    <3>2. Cardinality(1 .. k) = IF 1 > k THEN 0 ELSE k-1+1 BY <3>1, FS_Interval
    <3> QED BY <1>1, <3>1, <3>2
  <2> QED BY <2>1
<1>6. \A j \in 1 .. n : NthShown(tr, j) = {j}
  <2>1. \A j : NthShown(tr, j) = {k \in Shown(tr) : Cardinality(ShownTo(tr, k)) = j} BY ShownType
  <2>2. \A k \in 1 .. n : Cardinality(ShownTo(tr, k)) = k BY <1>4, <1>5
  <2> QED BY <1>2, <2>1, <2>2
<1>7. Cardinality(Shown(tr)) = n
  <2>1. Cardinality(1 .. n) = IF 1 > n THEN 0 ELSE n-1+1 BY <1>1, FS_Interval
  <2> QED BY <1>1, <1>2, <2>1
<1>8. v \in Seq(Call) /\ Len(v) = n /\ \A j \in 1 .. n : v[j] = Nth(tr, j) BY <1>7, VisibleType
<1>9. \A j \in 1 .. n : v[j] = tr[j]
  <2>1. \A j \in 1 .. n : Nth(tr, j) = tr[j] BY <1>6 DEF Nth
  <2> QED BY <1>8, <2>1
<1> HIDE DEF v
<1>10. v = tr BY <1>8, <1>9, SeqEqual DEF n
<1> QED BY <1>10 DEF v

\* Where the active function of the input is.
LEMMA ActivePlace ==
  ASSUME NEW p \in Programs, NEW q, Good(p, q), Running(q)
  PROVE  /\ Active(q) \in Frame(p) /\ Active(q).fn \in DOMAIN p.funcs /\ Active(q).stack \in Seq(Nat)
         /\ Active(q).stack \o <<>> = Active(q).stack
         /\ Landing(p, Active(q).fn, Active(q).pc) \in Int
         /\ Moved(p, Active(q).fn, Active(q).pc)
              = Landing(p, Active(q).fn, Active(q).pc) + (IF AtSite(p, q) THEN 4 ELSE 0)
<1> DEFINE f == Active(q).fn
           y == Active(q).pc
           k == y-1
           st == Active(q).stack
<1>1. q.frames \in Seq(Frame(p)) /\ q.frames # <<>> BY DEF Good
<1>2. Len(q.frames) \in Nat \ {0} BY <1>1, EmptySeq, LenProperties
<1>3. Active(q) \in Frame(p) BY <1>1, <1>2, ElementOfSeq DEF Active
<1>4. f \in DOMAIN p.funcs /\ y \in 1 .. Len(p.funcs[f].body)+1 /\ st \in Seq(Nat) BY <1>3, FrameParts
<1>5. Len(p.funcs[f].body) \in Nat BY <1>4, OldBody
<1>6. AtSite(p, q) <=> k \in Unguarded(p, f) BY DEF AtSite
<1> HIDE DEF f, y, st
<1>7. k \in Int /\ k+1 = y /\ y \in Int BY <1>4, <1>5
<1> HIDE DEF k
<1>8. Moved(p, f, k+1) = Landing(p, f, k+1) + (IF k \in Unguarded(p, f) THEN 4 ELSE 0) BY <1>4, <1>7, NextPlace
<1>9. Landing(p, f, y) \in Int BY <1>4, <1>7, ShiftType
<1>10. st \o <<>> = st
  <2>1. 0 \in Nat OBVIOUS
  <2>2. Stacked(st, 0, 0) BY <1>4, <2>1, GuardStacks
  <2> QED BY <2>2 DEF Stacked
<1> QED BY <1>3, <1>4, <1>6, <1>7, <1>8, <1>9, <1>10 DEF f, y, st

LEMMA LandedTwin ==
  ASSUME NEW p \in Programs, NEW o, NEW q, NEW s, Pair(p, o, q, s), Running(q), s.trace \in Seq(Call)
  PROVE  /\ AtSite(p, q) => Within(p, o, q, s, 0)
         /\ ~AtSite(p, q) => Facing(p, o, q, s)
<1> DEFINE a == Active(q)
           x == Landing(p, a.fn, a.pc)
           y == Moved(p, a.fn, a.pc)
           F == q.frames
<1>1. Good(p, q) /\ s.status = q.status /\ s.result = q.result /\ s.frames = AllLanded(p, o, q) BY DEF Pair
<1>2. a.stack \o <<>> = a.stack /\ x \in Int /\ y = x + (IF AtSite(p, q) THEN 4 ELSE 0) BY <1>1, ActivePlace
<1>3. s.frames = FramesOf(p, o, q, FrameAt(p, o, a, x, a.stack))
  <2>1. Landed(p, o, F[Len(F)]) = FrameAt(p, o, a, x, a.stack) BY DEF Landed, Active
  <2>2. AllLanded(p, o, q) = FramesOf(p, o, q, Landed(p, o, F[Len(F)])) BY DEF AllLanded, FramesOf
  <2> QED BY <1>1, <2>1, <2>2
<1>4. CASE AtSite(p, q)
  <2>1. Behind(p, o, q, s, x, a.stack) BY <1>1, <1>3 DEF Behind
  <2>2. Pushed(p, q, 0) = <<>> BY DEF Pushed
  <2>3. x + 0 = x
    <3> HIDE DEF x
    <3> QED BY <1>2
  <2>4. Within(p, o, q, s, 0) BY <1>2, <2>1, <2>2, <2>3 DEF Within
  <2> QED BY <1>4, <2>4
<1>5. CASE ~AtSite(p, q)
  <2>1. y = x
    <3> HIDE DEF x, y
    <3> QED BY <1>2, <1>5
  <2>2. FrameAt(p, o, a, x, a.stack) = Ready(p, o, a) BY <2>1 DEF Ready
  <2> QED BY <1>1, <1>3, <1>5, <2>2 DEF Facing
<1> QED BY <1>4, <1>5

LEMMA PastGuard ==
  ASSUME NEW p \in Programs, NEW o, NEW q, NEW s, Within(p, o, q, s, 4), AtSite(p, q)
  PROVE  Facing(p, o, q, s)
<1> DEFINE a == Active(q)
           x == Landing(p, a.fn, a.pc)
           y == Moved(p, a.fn, a.pc)
<1>1. Behind(p, o, q, s, x+4, a.stack \o Pushed(p, q, 4)) BY DEF Within
<1>2. Good(p, q) /\ Running(q) BY <1>1 DEF Behind
<1>3. a.stack \o <<>> = a.stack /\ y = x + 4 BY <1>2, ActivePlace
<1>4. Pushed(p, q, 4) = <<>> BY DEF Pushed
<1>5. FrameAt(p, o, a, x+4, a.stack \o Pushed(p, q, 4)) = Ready(p, o, a) BY <1>3, <1>4 DEF Ready
<1> QED BY <1>1, <1>5 DEF Behind, Facing

-----------------------------------------------------------------------------
(* Iterations and budgets *)

LapsOk(ls) == ls = [l \in DOMAIN ls |-> ls[l]] /\ \A l \in DOMAIN ls : ls[l] \in Nat
LapsOf(ls, l) == IF l \in DOMAIN ls THEN ls[l] ELSE 0
NoLess(a, b) == \A l : LapsOf(a, l) <= LapsOf(b, l)

LEMMA LapsType == ASSUME NEW ls, LapsOk(ls), NEW l PROVE LapsOf(ls, l) \in Nat
BY DEF LapsOk, LapsOf

LEMMA CountedIs ==
  ASSUME NEW p, NEW q, NEW ls, LapsOk(ls), NEW t, t = Counted(p, q, ls)
  PROVE  /\ LapsOk(t) /\ DOMAIN ls \subseteq DOMAIN t /\ NoLess(ls, t)
         /\ Lap(p, q) = {} => t = ls
         /\ \A l : LapsOf(t, l) = IF l \in Lap(p, q) /\ LapsOf(ls, l) <= MaxIter THEN LapsOf(ls, l) + 1 ELSE LapsOf(ls, l)
<1> DEFINE D == DOMAIN ls \cup Lap(p, q)
           N(l) == IF l \in Lap(p, q) /\ LapsOf(ls, l) <= MaxIter THEN LapsOf(ls, l) + 1 ELSE LapsOf(ls, l)
<1>1. t = [l \in D |-> N(l)] BY DEF Counted, LapsOf
<1>2. \A l : LapsOf(ls, l) \in Nat BY LapsType
<1>3. \A l : N(l) \in Nat /\ LapsOf(ls, l) <= N(l) BY <1>2
<1>4. \A l : l \notin D => N(l) = 0 BY DEF LapsOf
<1>5. ASSUME Lap(p, q) = {} PROVE t = ls
  <2>1. D = DOMAIN ls /\ \A l \in D : N(l) = ls[l] BY <1>5 DEF LapsOf
  <2> HIDE DEF N, D
  <2>2. t = [l \in DOMAIN ls |-> ls[l]] BY <1>1, <2>1
  <2> QED BY <2>2 DEF LapsOk
<1>6. DOMAIN ls \subseteq D OBVIOUS
<1> HIDE DEF N, D
<1>7. DOMAIN t = D /\ \A l \in D : t[l] = N(l) BY <1>1
<1>8. \A l : LapsOf(t, l) = N(l) BY <1>4, <1>7 DEF LapsOf
<1>9. LapsOk(t)
  <2>1. t = [l \in D |-> t[l]] BY <1>1, <1>7
  <2> QED BY <1>3, <1>7, <2>1 DEF LapsOk
<1>10. NoLess(ls, t) BY <1>3, <1>8 DEF NoLess
<1>11. Lap(p, q) = {} => t = ls BY <1>5
<1>12. \A l : LapsOf(t, l) = IF l \in Lap(p, q) /\ LapsOf(ls, l) <= MaxIter THEN LapsOf(ls, l) + 1 ELSE LapsOf(ls, l)
  BY <1>8 DEF N
<1> QED BY <1>6, <1>7, <1>9, <1>10, <1>11, <1>12

\* In front of its guard, a loop begins an iteration.
Site(q) == <<Active(q).fn, Active(q).pc - 1>>

LEMMA SiteBegins ==
  ASSUME NEW p \in Programs, NEW q, Good(p, q), Running(q), AtSite(p, q)
  PROVE  /\ Site(q) \in Lap(p, q) /\ Site(q) \in Sites(p) /\ SiteId(p, q) = GuardId(p, Site(q)[1], Site(q)[2])
<1> DEFINE f == Active(q).fn
           y == Active(q).pc
           k == y-1
           b == p.funcs[f].body
<1>1. Active(q) \in Frame(p) /\ f \in DOMAIN p.funcs BY ActivePlace
<1>2. y \in 1 .. Len(b)+1 /\ Len(b) \in Nat BY <1>1, FrameParts, OldBody
<1>3. k \in Unguarded(p, f) BY DEF AtSite
<1>4. Site(q) = <<f, k>> BY DEF Site
<1>5. k \in Loops(b) BY <1>3 DEF Unguarded
<1>6. k + 1 = y
  <2> HIDE DEF y
  <2> QED BY <1>2
<1>7. Lap(p, q) = {<<f, i>> : i \in {j \in Loops(b) : j + 1 = y}} BY DEF Lap
<1>8. SiteId(p, q) = GuardId(p, f, k) BY DEF SiteId
<1>9. Site(q)[1] = f /\ Site(q)[2] = k BY <1>4
<1> HIDE DEF k, f, b, y
<1>10. Site(q) \in Lap(p, q) BY <1>4, <1>5, <1>6, <1>7
<1>11. Site(q) \in Sites(p) BY <1>1, <1>3, <1>4, SiteOf
<1> QED BY <1>8, <1>9, <1>10, <1>11

\* Calls of an inserted guard, against the iterations of its loop.
Budgets(p, ls, tr) ==
  \A l \in Sites(p) : LapsOf(ls, l) > MaxIter \/ Calls(tr, GuardId(p, l[1], l[2])) <= LapsOf(ls, l)

LEMMA BudgetsNoLess ==
  ASSUME NEW p, NEW a, NEW b, NEW tr \in Seq(Call), LapsOk(a), LapsOk(b), NoLess(a, b), Budgets(p, a, tr)
  PROVE  Budgets(p, b, tr)
<1>1. ASSUME NEW l \in Sites(p)
      PROVE  LapsOf(b, l) > MaxIter \/ Calls(tr, GuardId(p, l[1], l[2])) <= LapsOf(b, l)
  <2> DEFINE x == LapsOf(a, l)
             y == LapsOf(b, l)
             n == Calls(tr, GuardId(p, l[1], l[2]))
  <2>1. x \in Nat /\ y \in Nat /\ x <= y BY LapsType DEF NoLess
  <2>2. n \in Nat BY CallsType
  <2>3. x > MaxIter \/ n <= x BY DEF Budgets
  <2> HIDE DEF x, y, n
  <2>4. y > MaxIter \/ n <= y BY <2>1, <2>2, <2>3, GuardParameters
  <2> QED BY <2>4 DEF x, y, n
<1> QED BY <1>1 DEF Budgets

LEMMA BudgetsKept ==
  ASSUME NEW p \in Programs, NEW ls, NEW tr \in Seq(Call), NEW c \in Call, ~Inserted(c), NEW u, u = Append(tr, c),
         Budgets(p, ls, tr)
  PROVE  Budgets(p, ls, u)
<1>1. ASSUME NEW l \in Sites(p) PROVE Calls(u, GuardId(p, l[1], l[2])) = Calls(tr, GuardId(p, l[1], l[2]))
  <2> DEFINE id == GuardId(p, l[1], l[2])
  <2>1. id \in AutoBase .. UserBase-1 BY GuardIdsApart
  <2> HIDE DEF id
  <2>2. ~Of(c, id) BY <2>1 DEF Of, Inserted
  <2>3. Calls(u, id) = Calls(tr, id) + 0 BY <2>2, CallsMore
  <2>4. Calls(tr, id) \in Nat BY CallsType
  <2>5. Calls(u, id) = Calls(tr, id) BY <2>3, <2>4
  <2> QED BY <2>5 DEF id
<1> QED BY <1>1 DEF Budgets

\* A call of the guard in front of q is paid for by the iteration that begins.
LEMMA BudgetsPaid ==
  ASSUME NEW p \in Programs, NEW q, Good(p, q), Running(q), AtSite(p, q), NEW ls, LapsOk(ls),
         NEW tr \in Seq(Call), Budgets(p, ls, tr), NEW c \in Call, c = GuardCall(p, q), NEW u, u = Append(tr, c)
  PROVE  /\ Budgets(p, Counted(p, q, ls), u)
         /\ Calls(u, SiteId(p, q)) > MaxIter => LapsOf(Counted(p, q, ls), Site(q)) > MaxIter
<1> DEFINE s == Site(q)
           t == Counted(p, q, ls)
           id(l) == GuardId(p, l[1], l[2])
<1>1. s \in Lap(p, q) /\ s \in Sites(p) /\ SiteId(p, q) = id(s) BY SiteBegins
<1>2. LapsOk(t) /\ NoLess(ls, t)
      /\ \A l : LapsOf(t, l) = IF l \in Lap(p, q) /\ LapsOf(ls, l) <= MaxIter THEN LapsOf(ls, l) + 1 ELSE LapsOf(ls, l)
  BY CountedIs
<1>3. LapsOf(t, s) = IF LapsOf(ls, s) <= MaxIter THEN LapsOf(ls, s) + 1 ELSE LapsOf(ls, s) BY <1>1, <1>2
<1>4. c[1] = "_g" /\ c[2][1] = id(s) BY <1>1 DEF GuardCall
<1> HIDE DEF t, s
<1>5. Budgets(p, t, tr) BY <1>2, BudgetsNoLess
<1>6. ASSUME NEW l \in Sites(p), l # s PROVE Calls(u, id(l)) = Calls(tr, id(l))
  <2>1. id(l) # id(s) BY <1>1, <1>6, GuardIdsApart
  <2> HIDE DEF id
  <2>2. ~Of(c, id(l)) BY <1>4, <2>1 DEF Of
  <2>3. Calls(u, id(l)) = Calls(tr, id(l)) + 0 BY <2>2, CallsMore
  <2>4. Calls(tr, id(l)) \in Nat BY CallsType
  <2> QED BY <2>3, <2>4
<1>7. Calls(u, id(s)) = Calls(tr, id(s)) + 1
  <2> HIDE DEF id
  <2>1. Of(c, id(s)) BY <1>4 DEF Of
  <2> QED BY <2>1, CallsMore
<1>8. LapsOf(ls, s) > MaxIter \/ Calls(tr, id(s)) <= LapsOf(ls, s) BY <1>1 DEF Budgets
<1>9. LapsOf(ls, s) \in Nat /\ Calls(tr, id(s)) \in Nat BY LapsType, CallsType
<1> HIDE DEF id
<1>10. /\ LapsOf(t, s) > MaxIter \/ Calls(u, id(s)) <= LapsOf(t, s)
       /\ Calls(u, id(s)) > MaxIter => LapsOf(t, s) > MaxIter
  <2> DEFINE x == LapsOf(ls, s)
             y == LapsOf(t, s)
             m == Calls(tr, id(s))
             n == Calls(u, id(s))
  <2>1. x \in Nat /\ m \in Nat /\ MaxIter \in Nat /\ n = m+1 /\ (x > MaxIter \/ m <= x)
        /\ y = IF x <= MaxIter THEN x+1 ELSE x BY <1>3, <1>7, <1>8, <1>9, GuardParameters
  <2> HIDE DEF x, y, m, n
  <2>2. (y > MaxIter \/ n <= y) /\ (n > MaxIter => y > MaxIter) BY <2>1
  <2> QED BY <2>2 DEF x, y, m, n
<1>11. ASSUME NEW l \in Sites(p) PROVE LapsOf(t, l) > MaxIter \/ Calls(u, id(l)) <= LapsOf(t, l)
  <2>1. CASE l = s BY <1>10, <2>1
  <2>2. CASE l # s
    <3>1. LapsOf(t, l) > MaxIter \/ Calls(tr, id(l)) <= LapsOf(t, l) BY <1>5 DEF Budgets, id
    <3> QED BY <1>6, <2>2, <3>1
  <2> QED BY <2>1, <2>2
<1>12. Budgets(p, t, u) BY <1>11 DEF Budgets, id
<1>13. Calls(u, SiteId(p, q)) > MaxIter => LapsOf(t, s) > MaxIter BY <1>1, <1>10
<1> QED BY <1>12, <1>13 DEF t, s

-----------------------------------------------------------------------------
(* The host's verdict on a call of _g *)

Violated(t) == [frames |-> t.frames, trace |-> t.trace, status |-> "violation", result |-> t.result]
Beyond(c, u) == c[1] = "_g" /\ Calls(u, c[2][1]) > c[2][2]

\* s goes on to t.
LEMMA MeteredStops == ASSUME NEW p, NEW s, ~Running(s), s.trace \in Seq(Call) PROVE Metered(p, s) = s
<1>1. Advance(p, s) = s BY DEF Advance
<1>2. Len(s.trace) \in Nat BY LenProperties
<1>3. ~(Len(s.trace) > Len(s.trace)) BY <1>2
<1> QED BY <1>1, <1>3 DEF Metered

LEMMA MeteredQuiet ==
  ASSUME NEW p, NEW s, Running(s), s.trace \in Seq(Call), NEW t, t = Step(p, s), t.trace = s.trace
  PROVE  Metered(p, s) = t
<1>1. Advance(p, s) = t BY DEF Advance
<1>2. Len(s.trace) \in Nat BY LenProperties
<1>3. ~(Len(t.trace) > Len(s.trace)) BY <1>2
<1> QED BY <1>1, <1>3 DEF Metered

LEMMA MeteredCalls ==
  ASSUME NEW p, NEW s, Running(s), s.trace \in Seq(Call), NEW t, t = Step(p, s), NEW c \in Call,
         t.trace = Append(s.trace, c)
  PROVE  Metered(p, s) = IF Beyond(c, t.trace) THEN Violated(t) ELSE t
<1> DEFINE n == Len(s.trace)
           m == Len(t.trace)
<1>1. Advance(p, s) = t BY DEF Advance
<1>2. n \in Nat /\ m = n+1 /\ t.trace[n+1] = c BY Extended
<1> HIDE DEF n, m
<1>3. m > n /\ t.trace[m] = c BY <1>2
<1>4. Cardinality(GuardCalls(t, c[2][1])) = Calls(t.trace, c[2][1]) BY DEF GuardCalls, Calls, CallsAt
<1>5. Metered(p, s) = IF m > n /\ t.trace[m][1] = "_g"
                         /\ Cardinality(GuardCalls(t, t.trace[m][2][1])) > t.trace[m][2][2]
                      THEN Violated(t) ELSE t
  BY <1>1 DEF Metered, Violated, n, m
<1> QED BY <1>3, <1>4, <1>5 DEF Beyond

\* Traces with the same calls but for those of inserted guards.
SameCalls(a, b) == \A id : id \notin AutoBase .. UserBase-1 => Calls(a, id) = Calls(b, id)

LEMMA SameCallsMore ==
  ASSUME NEW a \in Seq(Call), NEW b \in Seq(Call), NEW c \in Call, SameCalls(a, b)
  PROVE  SameCalls(Append(a, c), Append(b, c))
<1> DEFINE a1 == Append(a, c)
           b1 == Append(b, c)
<1>1. ASSUME NEW id, id \notin AutoBase .. UserBase-1 PROVE Calls(a1, id) = Calls(b1, id)
  <2>1. Calls(a1, id) = Calls(a, id) + (IF Of(c, id) THEN 1 ELSE 0) BY CallsMore
  <2>2. Calls(b1, id) = Calls(b, id) + (IF Of(c, id) THEN 1 ELSE 0) BY CallsMore
  <2>3. Calls(a, id) = Calls(b, id) BY <1>1 DEF SameCalls
  <2> QED BY <2>1, <2>2, <2>3
<1> QED BY <1>1 DEF SameCalls

LEMMA SameCallsInserted ==
  ASSUME NEW a \in Seq(Call), NEW b \in Seq(Call), NEW c \in Call, Inserted(c), SameCalls(a, b)
  PROVE  SameCalls(a, Append(b, c))
<1> DEFINE b1 == Append(b, c)
<1>1. ASSUME NEW id, id \notin AutoBase .. UserBase-1 PROVE Calls(a, id) = Calls(b1, id)
  <2>1. ~Of(c, id) BY <1>1 DEF Of, Inserted
  <2>2. Calls(b1, id) = Calls(b, id) + 0 BY <2>1, CallsMore
  <2>3. Calls(b, id) \in Nat BY CallsType
  <2>4. Calls(a, id) = Calls(b, id) BY <1>1 DEF SameCalls
  <2> QED BY <2>2, <2>3, <2>4
<1> QED BY <1>1 DEF SameCalls


\* After a step of both, metered.
Metering(p, o, q, s, q1, s1) ==
  /\ Pair(p, o, q1, s1) /\ q1.trace \in Seq(Call) /\ s1.trace \in Seq(Call)
  /\ \/ q1.trace = q.trace /\ s1.trace = s.trace
     \/ \E c \in Call : q1.trace = Append(q.trace, c) /\ s1.trace = Append(s.trace, c) /\ ~Inserted(c)
  /\ ~EndedByInserted(s1)

LEMMA ViolatedPair ==
  ASSUME NEW p, NEW o, NEW q, NEW s, Pair(p, o, q, s)
  PROVE  Pair(p, o, Violated(q), Violated(s))
<1>1. Violated(q).frames = q.frames /\ Violated(q).trace = q.trace /\ Violated(q).status = "violation"
      /\ Violated(q).result = q.result BY DEF Violated
<1>2. Violated(s).frames = s.frames /\ Violated(s).status = "violation" /\ Violated(s).result = s.result BY DEF Violated
<1>3. ~Running(Violated(q)) BY <1>1 DEF Running
<1>4. Good(p, Violated(q)) BY <1>1, <1>3 DEF Good, Pair
<1>5. AllLanded(p, o, Violated(q)) = AllLanded(p, o, q) BY <1>1 DEF AllLanded
<1> QED BY <1>1, <1>2, <1>4, <1>5 DEF Pair

\* No step of the interpreter is a violation; that is the host's verdict.
Fine(t) == t.status \in {"run", "invalid", "done", "ended", "trap"}

LEMMA StepFine ==
  ASSUME NEW p \in Programs, NEW q, Good(p, q), Running(q)
  PROVE  Fine(Step(p, q))
<1> DEFINE f == Active(q).fn
           x == Active(q).pc
           b == p.funcs[f].body
           i == Current(p, q)
           t == Step(p, q)
<1>1. f \in DOMAIN p.funcs BY ActivePlace
<1>2. b \in Bodies /\ Len(b) \in Nat /\ \A k \in 1 .. Len(b) : b[k] \in Operator BY <1>1, OldBody
<1>3. DOMAIN b = 1 .. Len(b) BY <1>2, LenProperties DEF Bodies
<1>4. q.status = "run" BY DEF Running
<1>5. \A k, st, ls, loc : Fine(GoOn(q, k, st, ls, loc)) BY <1>4 DEF GoOn, Fine
<1>6. \A st, ls : Fine(Then(q, st, ls)) BY <1>5 DEF Then
<1>7. Fine(Invalid(q)) BY DEF Invalid, Halt, Fine
<1>8. \A st : Fine(Leave(p, q, st)) BY <1>4, <1>7 DEF Leave, Halt, Fine
<1>9. \A d, st : Fine(Branch(p, q, d, st)) BY <1>5, <1>7, <1>8 DEF Branch
<1>10. \A k : Fine(HostCall(p, q, k)) BY <1>4 DEF HostCall, Fine
<1>11. \A k : Fine(GuestCall(p, q, k)) BY <1>4 DEF GuestCall, Fine
<1>12. \A st : Fine(Otherwise(b, q, i, st)) BY <1>5 DEF Otherwise
<1>13. Fine(Halt(q, "trap", q.result)) BY DEF Halt, Fine
<1>14. /\ x \notin DOMAIN b \/ Len(Active(q).stack) < Takes(p, i) => t = Invalid(q)
       /\ ~(x \notin DOMAIN b \/ Len(Active(q).stack) < Takes(p, i)) => Arms(p, q, Active(q), b, i, t) BY StepIs
<1> HIDE DEF t
<1>15. CASE x \notin DOMAIN b \/ Len(Active(q).stack) < Takes(p, i) BY <1>7, <1>14, <1>15 DEF t
<1>16. CASE ~(x \notin DOMAIN b \/ Len(Active(q).stack) < Takes(p, i))
  <2>1. i.op \in Ops
    <3>1. i = b[x] BY DEF Current
    <3> HIDE DEF i
    <3>2. i \in Operator BY <1>2, <1>3, <1>16, <3>1
    <3> QED BY <3>2 DEF Operator
  <2>2. Arms(p, q, Active(q), b, i, t) BY <1>14, <1>16
  <2> HIDE DEF i, b
  <2>3. Fine(t)
    BY <1>5, <1>6, <1>8, <1>9, <1>10, <1>11, <1>12, <1>13, <2>1, <2>2 DEF Arms, Ops, i, b
  <2> QED BY <2>3 DEF t
<1> QED BY <1>15, <1>16

\* No step of the loop's own: what the two make of a call is the same.
LEMMA MeteredPair ==
  ASSUME NEW p \in Programs, NEW o, Shaped(p, o), NEW q, NEW s, Facing(p, o, q, s), SameCalls(q.trace, s.trace),
         Apart(Metered(p, q).trace)
  PROVE  Metering(p, o, q, s, Metered(p, q), Metered(o, s))
<1> DEFINE q1 == Step(p, q)
           s1 == Step(o, s)
           q2 == Metered(p, q)
           s2 == Metered(o, s)
<1>1. Paired(p, o, q, s, q1, s1) BY StepPair
<1>2. Pair(p, o, q1, s1) /\ SameCall(q, s, q1, s1) BY <1>1 DEF Paired
<1>3. q.trace \in Seq(Call) /\ s.trace \in Seq(Call) /\ Running(q) /\ Running(s) BY DEF Facing, Good, Running
<1> HIDE DEF q1, s1
<1>4. CASE q1.trace = q.trace /\ s1.trace = s.trace
  <2>1. q2 = q1 BY <1>3, <1>4, MeteredQuiet DEF q1
  <2>2. s2 = s1 BY <1>3, <1>4, MeteredQuiet DEF s1
  <2>4. Fine(q1) BY <1>3 , StepFine DEF q1, Facing
  <2>5. ~EndedByInserted(s1)
    <3>1. s1.status = q1.status BY <1>2 DEF Pair
    <3> QED BY <2>4, <3>1 DEF Fine, EndedByInserted
  <2> HIDE DEF q2, s2
  <2>3. Metering(p, o, q, s, q2, s2) BY <1>2, <1>3, <1>4, <2>1, <2>2, <2>5 DEF Metering
  <2> QED BY <2>3 DEF q2, s2
<1>5. ASSUME NEW c \in Call, q1.trace = Append(q.trace, c), s1.trace = Append(s.trace, c)
      PROVE  Metering(p, o, q, s, q2, s2)
  <2> DEFINE u == q1.trace
             v == s1.trace
  <2>1. q2 = IF Beyond(c, u) THEN Violated(q1) ELSE q1 BY <1>3, <1>5, MeteredCalls DEF q1
  <2>2. s2 = IF Beyond(c, v) THEN Violated(s1) ELSE s1 BY <1>3, <1>5, MeteredCalls DEF s1
  <2>3. q2.trace = u /\ s2.trace = v BY <2>1, <2>2 DEF Violated
  <2>4. DOMAIN u = 1 .. Len(q.trace)+1 /\ u[Len(q.trace)+1] = c /\ Len(q.trace) \in Nat /\ u \in Seq(Call)
    BY <1>3, <1>5, Extended
  <2>5. v[Len(s.trace)+1] = c /\ Len(s.trace) \in Nat /\ v \in Seq(Call) /\ Len(v) = Len(s.trace)+1
    BY <1>3, <1>5, Extended
  <2>6. ~Inserted(c)
    <3> DEFINE n == Len(q.trace)
    <3> HIDE DEF n, u
    <3>1. n+1 \in DOMAIN u BY <2>4 DEF n
    <3>2. ~Inserted(u[n+1]) BY <2>3, <3>1 DEF Apart
    <3> QED BY <2>4, <3>2 DEF n
  <2> HIDE DEF q2, s2
  <2>7. SameCalls(u, v)
    <3>1. SameCalls(Append(q.trace, c), Append(s.trace, c)) BY <1>3, SameCallsMore
    <3> QED BY <1>5, <3>1
  <2>8. Beyond(c, u) <=> Beyond(c, v)
    <3>1. c[1] = "_g" => c[2][1] \notin AutoBase .. UserBase-1 BY <2>6 DEF Inserted
    <3>2. c[1] = "_g" => Calls(u, c[2][1]) = Calls(v, c[2][1]) BY <2>7, <3>1 DEF SameCalls
    <3> QED BY <3>2 DEF Beyond
  <2> HIDE DEF u, v
  <2>9. Pair(p, o, q2, s2)
    <3>1. CASE Beyond(c, u) BY <1>2, <2>1, <2>2, <2>8, <3>1, ViolatedPair
    <3>2. CASE ~Beyond(c, u) BY <1>2, <2>1, <2>2, <2>8, <3>2
    <3> QED BY <3>1, <3>2
  <2>10. q2.trace = Append(q.trace, c) /\ s2.trace = Append(s.trace, c) BY <1>5, <2>3 DEF u, v
  <2>11. ~Inserted(s2.trace[Len(s2.trace)]) BY <2>3, <2>5, <2>6
  <2>12. ~EndedByInserted(s2) BY <2>11 DEF EndedByInserted
  <2> QED BY <2>3, <2>4, <2>5, <2>6, <2>9, <2>10, <2>12 DEF Metering
<1>6. Metering(p, o, q, s, q2, s2)
  <2> HIDE DEF q2, s2
  <2> QED BY <1>2, <1>4, <1>5 DEF SameCall, q2, s2
<1> QED BY <1>6

\* Any execution of the input has one of the output that faces it.
LEMMA MeteredGood ==
  ASSUME NEW p \in Programs, NEW o, Shaped(p, o), NEW q, Good(p, q)
  PROVE  /\ Good(p, Metered(p, q))
         /\ Metered(p, q).trace = q.trace \/ \E c \in Call : Metered(p, q).trace = Append(q.trace, c)
         /\ ~Running(q) => Metered(p, q) = q
<1> DEFINE q1 == Step(p, q)
           q2 == Metered(p, q)
<1>1. q.trace \in Seq(Call) BY DEF Good
<1>2. CASE ~Running(q)
  <2>1. q2 = q BY <1>1, <1>2, MeteredStops
  <2> QED BY <1>2, <2>1
<1>3. CASE Running(q)
  <2> DEFINE g == FramesOf(p, o, q, Ready(p, o, Active(q)))
             s == [frames |-> g, trace |-> q.trace, status |-> q.status, result |-> q.result]
  <2> HIDE DEF g
  <2>1. s.frames = g /\ s.trace = q.trace /\ s.status = q.status /\ s.result = q.result OBVIOUS
  <2> HIDE DEF s
  <2>2. Facing(p, o, q, s) BY <1>1, <1>3, <2>1 DEF Facing, g
  <2>3. Paired(p, o, q, s, q1, Step(o, s)) BY <2>2, StepPair
  <2>4. Pair(p, o, q1, Step(o, s)) /\ SameCall(q, s, q1, Step(o, s)) BY <2>3 DEF Paired
  <2> HIDE DEF q1
  <2>5. Good(p, q1) BY <2>4 DEF Pair
  <2>6. CASE q1.trace = q.trace
    <3>1. q2 = q1 BY <1>1, <1>3, <2>6, MeteredQuiet DEF q1
    <3> HIDE DEF q2
    <3> QED BY <1>3, <2>5, <2>6, <3>1 DEF q2
  <2>7. ASSUME NEW c \in Call, q1.trace = Append(q.trace, c)
        PROVE  Good(p, q2) /\ q2.trace = Append(q.trace, c)
    <3>1. q2 = IF Beyond(c, q1.trace) THEN Violated(q1) ELSE q1 BY <1>1, <1>3, <2>7, MeteredCalls DEF q1
    <3> HIDE DEF q2
    <3>2. Violated(q1).frames = q1.frames /\ Violated(q1).trace = q1.trace /\ ~Running(Violated(q1))
      BY DEF Violated, Running
    <3>3. Good(p, Violated(q1)) /\ Violated(q1).trace = q1.trace BY <2>5, <3>2 DEF Good
    <3> QED BY <2>5, <2>7, <3>1, <3>3
  <2>8. q1.trace = q.trace \/ \E c \in Call : q1.trace = Append(q.trace, c) BY <2>4 DEF SameCall
  <2> HIDE DEF q2
  <2> QED BY <1>3, <2>6, <2>7, <2>8 DEF q2
<1> QED BY <1>2, <1>3

-----------------------------------------------------------------------------
(* The output follows the input *)

\* s is where q is, or j operators into the guard in front of q; from 3 on,
\* the guard has been called.
Near(p, o, q, s, j) ==
  /\ Good(p, q) /\ s.status = q.status /\ s.result = q.result /\ s.trace \in Seq(Call)
  /\ \/ ~Running(q) /\ j = 0
     \/ Running(q) /\ AtSite(p, q) /\ j \in 0 .. 3 /\ Within(p, o, q, s, j)
     \/ Running(q) /\ j = 4 /\ Facing(p, o, q, s)

\* A state of the input with its iterations, and the next one.
Fwd(p, e) == [s |-> Metered(p, e.s), laps |-> Counted(p, e.s, e.laps)]
Begun(p, e, j) == IF j >= 3 THEN Counted(p, e.s, e.laps) ELSE e.laps

Follows(p, o, e, s, j) ==
  /\ Near(p, o, e.s, s, j) /\ LapsOk(e.laps)
  /\ VisibleIn(s.trace) = e.s.trace /\ SameCalls(e.s.trace, s.trace)
  /\ Budgets(p, Begun(p, e, j), s.trace)
  /\ ~EndedByInserted(s)

\* A guard has ended the output at e.
Overrun(p, e, s) ==
  /\ EndedByInserted(s) /\ s.trace \in Seq(Call) /\ VisibleIn(s.trace) = e.s.trace
  /\ \E l \in Sites(p) : LapsOf(Fwd(p, e).laps, l) > MaxIter

Going(p, o, e, s1) ==
  \/ \E i \in 0 .. 4 : Follows(p, o, e, s1, i)
  \/ \E i \in 0 .. 4 : Follows(p, o, Fwd(p, e), s1, i)
  \/ Overrun(p, e, s1)

LEMMA FollowGuard ==
  ASSUME NEW p \in Programs, NEW o, Shaped(p, o), NEW e, NEW s, NEW j \in 0 .. 3, Follows(p, o, e, s, j),
         Running(e.s), AtSite(p, e.s), Within(p, o, e.s, s, j)
  PROVE  Going(p, o, e, Metered(o, s))
<1> DEFINE q == e.s
           t == Step(o, s)
           s1 == Metered(o, s)
           c == GuardCall(p, q)
           i == j+1
<1>1. /\ Good(p, q) /\ s.status = q.status /\ s.result = q.result /\ s.trace \in Seq(Call) /\ LapsOk(e.laps)
      /\ VisibleIn(s.trace) = q.trace /\ SameCalls(q.trace, s.trace) /\ Budgets(p, Begun(p, e, j), s.trace)
  BY DEF Follows, Near
<1>2. /\ Within(p, o, q, t, i) /\ t.trace = IF j = 2 THEN Append(s.trace, c) ELSE s.trace
      /\ c \in Call /\ SiteId(p, q) \in AutoBase .. UserBase-1
  <2>1. Passing(p, o, q, s, j, t) BY GuardStep
  <2> QED BY <2>1 DEF Passing
<1>3. t.status = q.status /\ t.result = q.result /\ t.trace \in Seq(Call) BY <1>2 DEF Within, Behind
<1>4. q.trace \in Seq(Call) /\ q.status = "run" /\ Running(s) BY <1>1 DEF Good, Running
<1>5. ~EndedByInserted(t) BY <1>3, <1>4 DEF EndedByInserted
<1> HIDE DEF t
<1>6. ASSUME i \in 0 .. 4, VisibleIn(t.trace) = q.trace, SameCalls(q.trace, t.trace), Budgets(p, Begun(p, e, i), t.trace)
      PROVE  Follows(p, o, e, t, i)
  <2>1. Near(p, o, q, t, i)
    <3>1. CASE j = 3
      <4>1. Within(p, o, q, t, 4) BY <1>2, <3>1
      <4>2. Facing(p, o, q, t) BY <4>1, PastGuard
      <4> QED BY <1>1, <1>3, <3>1, <4>2 DEF Near
    <3>2. CASE j # 3
      <4>1. i \in 0 .. 3 BY <3>2
      <4> HIDE DEF i
      <4> QED BY <1>1, <1>2, <1>3, <4>1 DEF Near
    <3> QED BY <3>1, <3>2
  <2> HIDE DEF i
  <2> QED BY <1>1, <1>5, <1>6, <2>1 DEF Follows
<1>7. CASE j # 2
  <2>1. s1 = t BY <1>1, <1>2, <1>4, <1>7, MeteredQuiet DEF t
  <2>2. i \in 0 .. 4 /\ (i >= 3 <=> j >= 3) BY <1>7
  <2>3. Begun(p, e, i) = Begun(p, e, j)
    <3> HIDE DEF i
    <3> QED BY <2>2 DEF Begun
  <2>4. t.trace = s.trace BY <1>2, <1>7
  <2> HIDE DEF s1
  <2>5. Follows(p, o, e, t, i) BY <1>1, <1>6, <2>2, <2>3, <2>4
  <2> HIDE DEF i
  <2>6. Going(p, o, e, s1) BY <2>1, <2>2, <2>5 DEF Going
  <2> QED BY <2>6 DEF s1
<1>8. CASE j = 2
  <2> DEFINE u == t.trace
             id == SiteId(p, q)
  <2>1. u = Append(s.trace, c) /\ i = 3 BY <1>2, <1>8
  <2>2. s1 = IF Beyond(c, u) THEN Violated(t) ELSE t BY <1>1, <1>2, <1>4, <2>1, MeteredCalls DEF t
  <2>3. c[1] = "_g" /\ c[2][1] = id /\ c[2][2] = MaxIter BY DEF GuardCall
  <2>4. Inserted(c) BY <1>2, <2>3 DEF Inserted
  <2> HIDE DEF i, id, u, c
  <2>5. VisibleIn(u) = q.trace BY <1>1, <1>2, <2>1, <2>4, VisibleSame
  <2>6. SameCalls(q.trace, u)
    <3>1. SameCalls(q.trace, Append(s.trace, c)) BY <1>1, <1>2, <1>4, <2>4, SameCallsInserted
    <3> QED BY <2>1, <3>1
  <2>7. Begun(p, e, j) = e.laps /\ Begun(p, e, i) = Counted(p, q, e.laps) BY <1>8, <2>1 DEF Begun
  <2>8. /\ Budgets(p, Counted(p, q, e.laps), u)
        /\ Calls(u, id) > MaxIter => LapsOf(Counted(p, q, e.laps), Site(q)) > MaxIter
    <3>1. Budgets(p, e.laps, s.trace) BY <1>1, <2>7
    <3>2. c = GuardCall(p, q) BY DEF c
    <3> HIDE DEF q
    <3> QED BY <1>1, <1>2, <2>1, <3>1, <3>2, BudgetsPaid DEF id, q
  <2>9. CASE Beyond(c, u)
    <3>1. Calls(u, id) > MaxIter BY <2>3, <2>9 DEF Beyond
    <3>2. LapsOf(Fwd(p, e).laps, Site(q)) > MaxIter BY <2>8, <3>1 DEF Fwd
    <3>3. Site(q) \in Sites(p) BY <1>1, SiteBegins
    <3>4. s1.trace = u /\ s1.status = "violation" BY <2>2, <2>9 DEF Violated, u
    <3>5. u[Len(u)] = c /\ u \in Seq(Call)
      <4>1. Len(s.trace) \in Nat /\ Len(u) = Len(s.trace)+1 /\ u[Len(s.trace)+1] = c /\ u \in Seq(Call)
        BY <1>1, <1>2, <2>1, Extended
      <4> QED BY <4>1
    <3> HIDE DEF s1
    <3>6. EndedByInserted(s1) BY <2>4, <3>4, <3>5 DEF EndedByInserted
    <3>7. Overrun(p, e, s1) BY <2>5, <3>2, <3>3, <3>4, <3>5, <3>6 DEF Overrun
    <3> QED BY <3>7 DEF Going, s1
  <2>10. CASE ~Beyond(c, u)
    <3>1. s1 = t BY <2>2, <2>10
    <3>2. i \in 0 .. 4 BY <2>1
    <3>3. Follows(p, o, e, t, i) BY <1>6, <2>5, <2>6, <2>7, <2>8, <3>2 DEF u
    <3> HIDE DEF s1
    <3>4. Going(p, o, e, s1) BY <3>1, <3>2, <3>3 DEF Going
    <3> QED BY <3>4 DEF s1
  <2> QED BY <2>9, <2>10
<1> QED BY <1>7, <1>8

LEMMA FollowStep ==
  ASSUME NEW p \in Programs, NEW o, Shaped(p, o), NEW e, NEW s, Follows(p, o, e, s, 4), Facing(p, o, e.s, s),
         Apart(Fwd(p, e).s.trace)
  PROVE  Going(p, o, e, Metered(o, s))
<1> DEFINE q == e.s
           q1 == Metered(p, q)
           s1 == Metered(o, s)
           ls == Counted(p, q, e.laps)
           e1 == Fwd(p, e)
<1>1. /\ Good(p, q) /\ s.trace \in Seq(Call) /\ LapsOk(e.laps)
      /\ VisibleIn(s.trace) = q.trace /\ SameCalls(q.trace, s.trace) /\ Budgets(p, Begun(p, e, 4), s.trace)
  BY DEF Follows, Near
<1>2. e1.s = q1 /\ e1.laps = ls BY DEF Fwd
<1>3. Metering(p, o, q, s, q1, s1) BY <1>1, <1>2, MeteredPair
<1>4. q.trace \in Seq(Call) BY <1>1 DEF Good
<1>5. Budgets(p, ls, s.trace)
  <2>1. Begun(p, e, 4) = ls BY DEF Begun
  <2> QED BY <1>1, <2>1
<1>6. LapsOk(ls) BY <1>1, CountedIs
<1> HIDE DEF q1, s1, ls
<1>7. /\ Pair(p, o, q1, s1) /\ q1.trace \in Seq(Call) /\ s1.trace \in Seq(Call) /\ ~EndedByInserted(s1)
      /\ \/ q1.trace = q.trace /\ s1.trace = s.trace
         \/ \E c \in Call : q1.trace = Append(q.trace, c) /\ s1.trace = Append(s.trace, c) /\ ~Inserted(c)
  BY <1>3 DEF Metering
<1>8. VisibleIn(s1.trace) = q1.trace /\ SameCalls(q1.trace, s1.trace) /\ Budgets(p, ls, s1.trace)
  <2>1. CASE q1.trace = q.trace /\ s1.trace = s.trace BY <1>1, <1>5, <2>1
  <2>2. ASSUME NEW c \in Call, q1.trace = Append(q.trace, c), s1.trace = Append(s.trace, c), ~Inserted(c)
        PROVE  VisibleIn(s1.trace) = q1.trace /\ SameCalls(q1.trace, s1.trace) /\ Budgets(p, ls, s1.trace)
    <3>1. VisibleIn(s1.trace) = Append(VisibleIn(s.trace), c) BY <1>1, <2>2, VisibleMore
    <3>2. SameCalls(Append(q.trace, c), Append(s.trace, c)) BY <1>1, <1>4, SameCallsMore
    <3>3. Budgets(p, ls, s1.trace) BY <1>1, <1>5, <2>2, BudgetsKept
    <3> QED BY <1>1, <2>2, <3>1, <3>2, <3>3
  <2> QED BY <1>7, <2>1, <2>2
<1>9. Good(p, q1) /\ s1.status = q1.status /\ s1.result = q1.result BY <1>7 DEF Pair
<1>10. ASSUME NEW i \in 0 .. 4, Near(p, o, q1, s1, i) PROVE Going(p, o, e, s1)
  <2>1. Budgets(p, Begun(p, e1, i), s1.trace)
    <3>1. CASE i >= 3
      <4> DEFINE l1 == Counted(p, q1, ls)
      <4>1. LapsOk(l1) /\ NoLess(ls, l1) BY <1>6, CountedIs
      <4>2. Begun(p, e1, i) = l1 BY <1>2, <3>1 DEF Begun
      <4> HIDE DEF l1
      <4>3. Budgets(p, l1, s1.trace) BY <1>6, <1>7, <1>8, <4>1, BudgetsNoLess
      <4> QED BY <4>2, <4>3
    <3>2. CASE ~(i >= 3)
      <4>1. Begun(p, e1, i) = ls BY <1>2, <3>2 DEF Begun
      <4> QED BY <1>8, <4>1
    <3> QED BY <3>1, <3>2
  <2> HIDE DEF e1
  <2>2. Follows(p, o, e1, s1, i) BY <1>2, <1>6, <1>7, <1>8, <1>10, <2>1 DEF Follows
  <2> QED BY <2>2 DEF Going, e1
<1>11. CASE ~Running(q1)
  <2>1. Near(p, o, q1, s1, 0) BY <1>7, <1>9, <1>11 DEF Near
  <2> QED BY <1>10, <2>1 DEF s1
<1>12. CASE Running(q1) /\ AtSite(p, q1)
  <2>1. Within(p, o, q1, s1, 0) BY <1>7, <1>12, LandedTwin
  <2>2. Near(p, o, q1, s1, 0) BY <1>7, <1>9, <1>12, <2>1 DEF Near
  <2> QED BY <1>10, <2>2 DEF s1
<1>13. CASE Running(q1) /\ ~AtSite(p, q1)
  <2>1. Facing(p, o, q1, s1) BY <1>7, <1>13, LandedTwin
  <2>2. Near(p, o, q1, s1, 4) BY <1>7, <1>9, <1>13, <2>1 DEF Near
  <2> QED BY <1>10, <2>2 DEF s1
<1> QED BY <1>11, <1>12, <1>13

\* What a step of the output, under the host's rule, is of the input.
LEMMA Followed ==
  ASSUME NEW p \in Programs, NEW o, Shaped(p, o), NEW e, NEW s, NEW j \in 0 .. 4, Follows(p, o, e, s, j),
         Apart(Fwd(p, e).s.trace)
  PROVE  Going(p, o, e, Metered(o, s))
<1> DEFINE q == e.s
<1>1. Near(p, o, q, s, j) BY DEF Follows
<1>2. CASE ~Running(q) /\ j = 0
  <2>1. ~Running(s) /\ s.trace \in Seq(Call) BY <1>1, <1>2 DEF Near, Running
  <2>2. Metered(o, s) = s BY <2>1, MeteredStops
  <2>3. Follows(p, o, e, s, j) OBVIOUS
  <2> QED BY <2>2, <2>3 DEF Going
<1>3. CASE Running(q) /\ AtSite(p, q) /\ j \in 0 .. 3 /\ Within(p, o, q, s, j) BY <1>3, FollowGuard
<1>4. CASE Running(q) /\ j = 4 /\ Facing(p, o, q, s) BY <1>4, FollowStep
<1> QED BY <1>1, <1>2, <1>3, <1>4 DEF Near

-----------------------------------------------------------------------------
(* The output is behind *)

LEMMA PrefixSame == ASSUME NEW a \in Seq(Call) PROVE PrefixOf(a, a)
<1>1. Len(a) \in Nat BY LenProperties
<1> QED BY <1>1 DEF PrefixOf

LEMMA PrefixThen ==
  ASSUME NEW a \in Seq(Call), NEW b \in Seq(Call), NEW c \in Seq(Call), PrefixOf(a, b), PrefixOf(b, c)
  PROVE  PrefixOf(a, c)
<1> DEFINE m == Len(a)
           n == Len(b)
           k == Len(c)
<1>1. m \in Nat /\ n \in Nat /\ k \in Nat BY LenProperties
<1>2. m <= n /\ n <= k /\ (\A i \in 1 .. m : a[i] = b[i]) /\ \A i \in 1 .. n : b[i] = c[i] BY DEF PrefixOf
<1> HIDE DEF m, n, k
<1>3. m <= k /\ \A i \in 1 .. m : i \in 1 .. n BY <1>1, <1>2
<1>4. \A i \in 1 .. m : a[i] = c[i] BY <1>2, <1>3
<1> QED BY <1>3, <1>4 DEF PrefixOf, m, k

LEMMA PrefixMore == ASSUME NEW a \in Seq(Call), NEW c \in Call PROVE PrefixOf(a, Append(a, c))
<1> DEFINE u == Append(a, c)
           n == Len(a)
           k == Len(u)
<1>1. n \in Nat /\ k = n+1 /\ \A i \in 1 .. n : u[i] = a[i] BY Extended
<1> HIDE DEF n, k, u
<1>2. n <= k BY <1>1
<1> QED BY <1>1, <1>2 DEF PrefixOf, n, k, u

LEMMA NoLessThen ==
  ASSUME NEW a, NEW b, NEW c, LapsOk(a), LapsOk(b), LapsOk(c), NoLess(a, b), NoLess(b, c) PROVE NoLess(a, c)
<1>1. ASSUME NEW l PROVE LapsOf(a, l) <= LapsOf(c, l)
  <2>1. LapsOf(a, l) \in Nat /\ LapsOf(b, l) \in Nat /\ LapsOf(c, l) \in Nat BY LapsType
  <2>2. LapsOf(a, l) <= LapsOf(b, l) /\ LapsOf(b, l) <= LapsOf(c, l) BY DEF NoLess
  <2> QED BY <2>1, <2>2
<1> QED BY <1>1 DEF NoLess

At(q, ls) == [s |-> q, laps |-> ls]

\* e was on the way to where the input is now, at <<q, ls>>.
Earlier(p, e, q, ls) ==
  /\ Good(p, e.s) /\ LapsOk(e.laps) /\ PrefixOf(e.s.trace, q.trace) /\ NoLess(e.laps, ls)
  /\ ~Running(e.s) => e.s = q

\* h has the states of the input from e on, which are n+1.
Way(p, n, h, q, ls) ==
  /\ h[n] = At(q, ls) /\ \A i \in 0 .. n : i = n \/ h[i+1] = Fwd(p, h[i])
  /\ \A i \in 0 .. n : Earlier(p, h[i], q, ls)
Reaches(p, e, q, ls) == \E n \in Nat : \E h : h[0] = e /\ Way(p, n, h, q, ls)

LEMMA ReachesNow ==
  ASSUME NEW p, NEW q, NEW ls, Good(p, q), LapsOk(ls)
  PROVE  Reaches(p, At(q, ls), q, ls)
<1> DEFINE e == At(q, ls)
           h == [i \in 0 .. 0 |-> e]
<1>1. e.s = q /\ e.laps = ls BY DEF At
<1>2. q.trace \in Seq(Call) BY DEF Good
<1>3. NoLess(ls, ls)
  <2>1. \A l : LapsOf(ls, l) \in Nat BY LapsType
  <2> QED BY <2>1 DEF NoLess
<1> HIDE DEF e
<1>4. Earlier(p, e, q, ls) BY <1>1, <1>2, <1>3, PrefixSame DEF Earlier
<1>5. h[0] = e /\ \A i \in 0 .. 0 : i = 0 /\ h[i] = e OBVIOUS
<1> HIDE DEF h
<1>6. Way(p, 0, h, q, ls) BY <1>4, <1>5 DEF Way, e
<1>7. 0 \in Nat OBVIOUS
<1>8. Reaches(p, e, q, ls) BY <1>5, <1>6, <1>7 DEF Reaches
<1> QED BY <1>8 DEF e

LEMMA ReachesParts ==
  ASSUME NEW p, NEW e, NEW q, NEW ls, Reaches(p, e, q, ls)
  PROVE  Earlier(p, e, q, ls) /\ Good(p, q) /\ LapsOk(ls)
<1>1. PICK n \in Nat : \E h : h[0] = e /\ Way(p, n, h, q, ls) BY DEF Reaches
<1>2. PICK h : h[0] = e /\ Way(p, n, h, q, ls) BY <1>1
<1>3. 0 \in 0 .. n /\ n \in 0 .. n OBVIOUS
<1>4. Earlier(p, h[0], q, ls) /\ Earlier(p, h[n], q, ls) /\ h[n] = At(q, ls) BY <1>2, <1>3 DEF Way
<1>5. At(q, ls).s = q /\ At(q, ls).laps = ls BY DEF At
<1> QED BY <1>2, <1>4, <1>5 DEF Earlier

\* The input goes on.
LEMMA EarlierStill ==
  ASSUME NEW p \in Programs, NEW o, Shaped(p, o), NEW q, NEW ls, Good(p, q), LapsOk(ls),
         NEW e, Earlier(p, e, q, ls), NEW e1, e1 = Fwd(p, At(q, ls))
  PROVE  Earlier(p, e, e1.s, e1.laps) /\ Earlier(p, e1, e1.s, e1.laps)
<1> DEFINE q1 == e1.s
           l1 == e1.laps
<1>1. q1 = Metered(p, q) /\ l1 = Counted(p, q, ls) BY DEF Fwd, At
<1>2. Good(p, q1) /\ (q1.trace = q.trace \/ \E c \in Call : q1.trace = Append(q.trace, c)) /\ (~Running(q) => q1 = q)
  BY <1>1, MeteredGood
<1>3. LapsOk(l1) /\ NoLess(ls, l1) BY <1>1, CountedIs
<1> HIDE DEF q1, l1
<1>4. q.trace \in Seq(Call) /\ q1.trace \in Seq(Call) /\ e.s.trace \in Seq(Call) BY <1>2 DEF Good, Earlier
<1>5. PrefixOf(q.trace, q1.trace) BY <1>2, <1>4, PrefixSame, PrefixMore
<1>6. PrefixOf(e.s.trace, q1.trace)
  <2>1. PrefixOf(e.s.trace, q.trace) BY DEF Earlier
  <2> QED BY <1>4, <1>5, <2>1, PrefixThen
<1>7. NoLess(e.laps, l1) BY <1>3, NoLessThen DEF Earlier
<1>8. ~Running(e.s) => e.s = q1 BY <1>2 DEF Earlier
<1>9. Earlier(p, e, q1, l1) BY <1>6, <1>7, <1>8 DEF Earlier
<1>10. NoLess(l1, l1)
  <2>1. \A l : LapsOf(l1, l) \in Nat BY <1>3, LapsType
  <2> QED BY <2>1 DEF NoLess
<1>11. Earlier(p, e1, q1, l1) BY <1>2, <1>3, <1>4, <1>10, PrefixSame DEF Earlier, q1, l1
<1> QED BY <1>9, <1>11 DEF q1, l1

LEMMA ReachesMore ==
  ASSUME NEW p \in Programs, NEW o, Shaped(p, o), NEW e, NEW q, NEW ls, Reaches(p, e, q, ls),
         NEW e1, e1 = Fwd(p, At(q, ls))
  PROVE  Reaches(p, e, e1.s, e1.laps) /\ Reaches(p, Fwd(p, e), e1.s, e1.laps)
<1> DEFINE q1 == e1.s
           l1 == e1.laps
<1>1. Good(p, q) /\ LapsOk(ls) BY ReachesParts
<1>2. PICK n \in Nat : \E h : h[0] = e /\ Way(p, n, h, q, ls) BY DEF Reaches
<1>3. PICK h : h[0] = e /\ Way(p, n, h, q, ls) BY <1>2
<1>4. h[n] = At(q, ls) /\ (\A i \in 0 .. n : i = n \/ h[i+1] = Fwd(p, h[i])) /\ \A i \in 0 .. n : Earlier(p, h[i], q, ls)
  BY <1>3 DEF Way
<1>5. ASSUME NEW i \in 0 .. n PROVE Earlier(p, h[i], q1, l1)
  <2> DEFINE d == h[i]
  <2>1. Earlier(p, d, q, ls) BY <1>4
  <2> HIDE DEF d
  <2>2. Earlier(p, d, e1.s, e1.laps) BY <1>1, <2>1, EarlierStill
  <2> QED BY <2>2 DEF d
<1>6. Earlier(p, e1, q1, l1)
  <2>1. n \in 0 .. n OBVIOUS
  <2>2. Earlier(p, h[n], q, ls) BY <1>4, <2>1
  <2> DEFINE d == h[n]
  <2> HIDE DEF d
  <2>3. Earlier(p, e1, e1.s, e1.laps) BY <1>1, <2>2, EarlierStill DEF d
  <2> QED BY <2>3
<1>7. e1 = At(q1, l1) BY DEF At, Fwd
<1> HIDE DEF q1, l1
<1> DEFINE g == [i \in 0 .. n+1 |-> IF i = n+1 THEN e1 ELSE h[i]]
           k == [i \in 0 .. n |-> g[i+1]]
<1>8. g[n+1] = e1 /\ \A i \in 0 .. n : g[i] = h[i] OBVIOUS
<1>9. \A i \in 0 .. n : k[i] = g[i+1] OBVIOUS
<1> HIDE DEF g, k
<1>10. \A i : i \in 0 .. n+1 <=> i \in 0 .. n \/ i = n+1 OBVIOUS
<1>11. \A i \in 0 .. n : g[i+1] = Fwd(p, g[i])
  <2>1. ASSUME NEW i \in 0 .. n PROVE g[i+1] = Fwd(p, g[i])
    <3>1. CASE i = n BY <1>4, <1>8, <3>1
    <3>2. CASE i # n
      <4>1. i+1 \in 0 .. n BY <3>2
      <4>2. h[i+1] = Fwd(p, h[i]) BY <1>4, <3>2
      <4> QED BY <1>8, <4>1, <4>2
    <3> QED BY <3>1, <3>2
  <2> QED BY <2>1
<1>12. \A i \in 0 .. n+1 : Earlier(p, g[i], q1, l1) BY <1>5, <1>6, <1>8, <1>10
<1>13. Reaches(p, e, q1, l1)
  <2>1. n+1 \in Nat OBVIOUS
  <2>2. g[n+1] = At(q1, l1) BY <1>7, <1>8
  <2>3. \A i \in 0 .. n+1 : i = n+1 \/ g[i+1] = Fwd(p, g[i]) BY <1>10, <1>11
  <2>4. Way(p, n+1, g, q1, l1) BY <1>12, <2>2, <2>3 DEF Way
  <2>5. 0 \in 0 .. n OBVIOUS
  <2>6. g[0] = e BY <1>3, <1>8, <2>5
  <2> DEFINE m == n+1
  <2>7. m \in Nat /\ Way(p, m, g, q1, l1) BY <2>1, <2>4
  <2> HIDE DEF m
  <2> QED BY <2>6, <2>7 DEF Reaches
<1>14. Reaches(p, Fwd(p, e), q1, l1)
  <2>1. n \in 0 .. n /\ 0 \in 0 .. n /\ 0+1 = 1 OBVIOUS
  <2>2. k[n] = At(q1, l1) BY <1>7, <1>8, <1>9, <2>1
  <2>3. ASSUME NEW i \in 0 .. n PROVE (i = n \/ k[i+1] = Fwd(p, k[i])) /\ Earlier(p, k[i], q1, l1)
    <3>1. i+1 \in 0 .. n+1 OBVIOUS
    <3>2. k[i] = g[i+1] BY <1>9
    <3>3. Earlier(p, k[i], q1, l1) BY <1>12, <3>1, <3>2
    <3>4. ASSUME i # n PROVE k[i+1] = Fwd(p, k[i])
      <4>1. i+1 \in 0 .. n BY <3>4
      <4>2. k[i+1] = g[(i+1)+1] BY <1>9, <4>1
      <4>3. g[(i+1)+1] = Fwd(p, g[i+1]) BY <1>11, <4>1
      <4> QED BY <3>2, <4>2, <4>3
    <3> QED BY <3>3, <3>4
  <2>4. Way(p, n, k, q1, l1) BY <2>2, <2>3 DEF Way
  <2>5. k[0] = Fwd(p, e)
    <3>1. k[0] = g[0+1] BY <1>9, <2>1
    <3>2. g[0+1] = Fwd(p, g[0]) BY <1>11, <2>1
    <3>3. g[0] = e BY <1>3, <1>8, <2>1
    <3> QED BY <3>1, <3>2, <3>3
  <2> QED BY <2>4, <2>5 DEF Reaches
<1> QED BY <1>13, <1>14 DEF q1, l1

-----------------------------------------------------------------------------
(* Guards are not observable *)

\* A guard has ended the output.
Ended(p, e, s, ls) ==
  /\ EndedByInserted(s) /\ s.trace \in Seq(Call) /\ VisibleIn(s.trace) = e.s.trace
  /\ \E l \in Sites(p) : LapsOf(ls, l) > MaxIter

\* The output is at a state that the input was in, or has ended there.
Trails(p, o, e, s, ls) == (\E j \in 0 .. 4 : Follows(p, o, e, s, j)) \/ Ended(p, e, s, ls)
Behaves(p, o, q, s, ls) == \E e : Reaches(p, e, q, ls) /\ Trails(p, o, e, s, ls)

LEMMA ApartPrefix ==
  ASSUME NEW a \in Seq(Call), NEW b \in Seq(Call), PrefixOf(a, b), Apart(b)
  PROVE  Apart(a)
<1> DEFINE m == Len(a)
           n == Len(b)
<1>1. m \in Nat /\ n \in Nat /\ DOMAIN a = 1 .. m /\ DOMAIN b = 1 .. n BY LenProperties
<1>2. m <= n /\ \A i \in 1 .. m : a[i] = b[i] BY DEF PrefixOf
<1> HIDE DEF m, n
<1>3. \A i \in 1 .. m : i \in 1 .. n BY <1>1, <1>2
<1> QED BY <1>1, <1>2, <1>3 DEF Apart

LEMMA EndedStill ==
  ASSUME NEW p, NEW e, NEW s, NEW a, NEW b, LapsOk(a), LapsOk(b), NoLess(a, b), Ended(p, e, s, a)
  PROVE  Ended(p, e, s, b)
<1>1. PICK l \in Sites(p) : LapsOf(a, l) > MaxIter BY DEF Ended
<1>2. LapsOf(a, l) \in Nat /\ LapsOf(b, l) \in Nat /\ LapsOf(a, l) <= LapsOf(b, l) BY LapsType DEF NoLess
<1>3. LapsOf(b, l) > MaxIter BY <1>1, <1>2, GuardParameters
<1> QED BY <1>3 DEF Ended

\* One step of both executions.
LEMMA BehavesOn ==
  ASSUME NEW p \in Programs, NEW o, Shaped(p, o), NEW q, NEW s, NEW ls, Behaves(p, o, q, s, ls),
         Apart(Metered(p, q).trace)
  PROVE  Behaves(p, o, Metered(p, q), Metered(o, s), Counted(p, q, ls))
<1> DEFINE q1 == Metered(p, q)
           s1 == Metered(o, s)
           l1 == Counted(p, q, ls)
<1>1. PICK e : Reaches(p, e, q, ls) /\ Trails(p, o, e, s, ls) BY DEF Behaves
<1> DEFINE f == Fwd(p, At(q, ls))
<1>2. f.s = q1 /\ f.laps = l1 BY DEF Fwd, At
<1>3. Reaches(p, e, q1, l1) /\ Reaches(p, Fwd(p, e), q1, l1)
  <2>1. Reaches(p, e, f.s, f.laps) /\ Reaches(p, Fwd(p, e), f.s, f.laps) BY <1>1, ReachesMore
  <2> HIDE DEF f, q1, l1
  <2> QED BY <1>2, <2>1
<1>4. LapsOk(ls) BY <1>1, ReachesParts
<1>5. NoLess(ls, l1) BY <1>4, CountedIs
<1> HIDE DEF q1, l1, f
<1>6. LapsOk(l1) /\ Good(p, q1) /\ Earlier(p, Fwd(p, e), q1, l1) BY <1>3, ReachesParts
<1>7. Apart(Fwd(p, e).s.trace)
  <2> DEFINE g == Fwd(p, e)
  <2>1. PrefixOf(g.s.trace, q1.trace) /\ g.s.trace \in Seq(Call) /\ q1.trace \in Seq(Call) BY <1>6 DEF Earlier, Good
  <2>2. Apart(q1.trace) BY DEF q1
  <2> HIDE DEF g
  <2>3. Apart(g.s.trace) BY <2>1, <2>2, ApartPrefix
  <2> QED BY <2>3 DEF g
<1>8. CASE Ended(p, e, s, ls)
  <2>1. ~Running(s) /\ s.trace \in Seq(Call) BY <1>8 DEF Ended, EndedByInserted, Running
  <2>2. s1 = s BY <2>1, MeteredStops
  <2>3. Ended(p, e, s, l1) BY <1>4, <1>5, <1>6, <1>8, EndedStill
  <2> HIDE DEF s1
  <2>4. Behaves(p, o, q1, s1, l1) BY <1>3, <2>2, <2>3 DEF Behaves, Trails
  <2> QED BY <2>4 DEF q1, s1, l1
<1>9. ASSUME NEW j \in 0 .. 4, Follows(p, o, e, s, j) PROVE Behaves(p, o, q1, s1, l1)
  <2>1. Going(p, o, e, s1) BY <1>7, <1>9, Followed
  <2> HIDE DEF s1
  <2>2. CASE \E i \in 0 .. 4 : Follows(p, o, e, s1, i) BY <1>3, <2>2 DEF Behaves, Trails
  <2>3. CASE \E i \in 0 .. 4 : Follows(p, o, Fwd(p, e), s1, i)
    <3> DEFINE g == Fwd(p, e)
    <3>1. Reaches(p, g, q1, l1) /\ \E i \in 0 .. 4 : Follows(p, o, g, s1, i) BY <1>3, <2>3
    <3> HIDE DEF g
    <3> QED BY <3>1 DEF Behaves, Trails
  <2>4. CASE Overrun(p, e, s1)
    <3> DEFINE l0 == Fwd(p, e).laps
    <3>1. Ended(p, e, s1, l0) BY <2>4 DEF Overrun, Ended
    <3>2. LapsOk(l0) /\ NoLess(l0, l1) BY <1>6 DEF Earlier
    <3> HIDE DEF l0
    <3>3. Ended(p, e, s1, l1) BY <1>6, <3>1, <3>2, EndedStill
    <3> QED BY <1>3, <3>3 DEF Behaves, Trails
  <2> QED BY <2>1, <2>2, <2>3, <2>4 DEF Going
<1> QED BY <1>1, <1>8, <1>9 DEF Trails, q1, s1, l1

LEMMA BehavesFirst ==
  ASSUME NEW p \in Programs, NEW o, Shaped(p, o), NEW a \in Nat, NEW ls, LapsOk(ls)
  PROVE  Behaves(p, o, Start(p, p.hook, a), Start(o, o.hook, a), ls)
<1> DEFINE q == Start(p, p.hook, a)
           s == Start(o, o.hook, a)
           k == p.hook
           args == <<a>>
           x == Enter(p.funcs[k], k, args)
           y == Enter(o.funcs[o.hook], o.hook, args)
<1>1. k \in DOMAIN p.funcs /\ p.funcs[k].params = 1 BY GuardInputs
<1>2. o.hook = Renumber(p, o, k) BY DEF Shaped
<1>3. args \in Seq(Nat) /\ Len(args) = 1 OBVIOUS
<1>4. q.frames = <<x>> /\ q.trace = <<>> /\ q.status = "run" /\ q.result = <<>> BY DEF Start
<1>5. s.frames = <<y>> /\ s.trace = <<>> /\ s.status = "run" /\ s.result = <<>> BY DEF Start
<1> HIDE DEF q, s, args
<1>6. x \in Frame(p) /\ y = Landed(p, o, x)
  <2> DEFINE r == Renumber(p, o, k)
             z == Enter(o.funcs[r], r, args)
  <2>1. Len(args) = p.funcs[k].params BY <1>1, <1>3
  <2> HIDE DEF k
  <2>2. Enter(p.funcs[k], k, args) \in Frame(p)
        /\ Enter(o.funcs[Renumber(p, o, k)], Renumber(p, o, k), args) = Landed(p, o, Enter(p.funcs[k], k, args))
    BY <1>1, <1>3, <2>1, EnterLanded
  <2>3. y = z BY <1>2
  <2> QED BY <2>2, <2>3
<1> HIDE DEF x, y
<1>7. Running(q) BY <1>4 DEF Running
<1>8. <<x>> \in Seq(Frame(p)) /\ Len(<<x>>) = 1 /\ <<x>>[1] = x /\ <<x>> # <<>> BY <1>6
<1>9. <<>> \in Seq(Call) /\ Len(<<>>) = 0 OBVIOUS
<1>10. Good(p, q) BY <1>4, <1>8, <1>9 DEF Good
<1>11. AllLanded(p, o, q) = <<y>>
  <2>1. AllLanded(p, o, q) = [i \in 1 .. 1 |-> y]
    <3>1. \A i \in 1 .. 1 : i = 1 OBVIOUS
    <3>2. \A i \in 1 .. 1 : Landed(p, o, q.frames[i]) = y BY <1>4, <1>6, <1>8, <3>1
    <3> QED BY <1>4, <1>8, <3>2 DEF AllLanded
  <2>2. <<y>> = [i \in 1 .. 1 |-> y] OBVIOUS
  <2> QED BY <2>1, <2>2
<1>12. Pair(p, o, q, s) BY <1>4, <1>5, <1>10, <1>11 DEF Pair
<1> DEFINE e == At(q, ls)
<1>13. e.s = q /\ e.laps = ls BY DEF At
<1>14. Reaches(p, e, q, ls) BY <1>10, ReachesNow
<1> HIDE DEF e
<1>15. Apart(<<>>) BY DEF Apart
<1>16. VisibleIn(s.trace) = q.trace /\ SameCalls(q.trace, s.trace)
  <2>1. VisibleIn(<<>>) = <<>> BY <1>9, <1>15, VisibleApart
  <2> QED BY <1>4, <1>5, <2>1 DEF SameCalls
<1>17. ~EndedByInserted(s) BY <1>5 DEF EndedByInserted
<1>18. ASSUME NEW j PROVE Budgets(p, Begun(p, e, j), s.trace)
  <2> DEFINE b == Begun(p, e, j)
  <2>1. LapsOk(b)
    <3>1. LapsOk(Counted(p, q, ls)) BY CountedIs
    <3> QED BY <1>13, <3>1 DEF Begun
  <2> HIDE DEF b
  <2>2. ASSUME NEW id PROVE Calls(s.trace, id) = 0
    <3>1. CallsAt(<<>>, id) = {} BY DEF CallsAt
    <3> QED BY <1>5, <3>1, FS_EmptySet DEF Calls
  <2>3. \A l : LapsOf(b, l) \in Nat BY <2>1, LapsType
  <2>4. \A l : 0 <= LapsOf(b, l) BY <2>3
  <2>5. Budgets(p, b, s.trace) BY <2>2, <2>4 DEF Budgets
  <2> QED BY <2>5 DEF b
<1>19. ASSUME NEW j \in 0 .. 4, Near(p, o, q, s, j) PROVE Behaves(p, o, q, s, ls)
  <2>1. Follows(p, o, e, s, j) BY <1>13, <1>16, <1>17, <1>18, <1>19 DEF Follows
  <2> QED BY <1>14, <2>1 DEF Behaves, Trails
<1>20. Good(p, q) /\ s.status = q.status /\ s.result = q.result /\ s.trace \in Seq(Call) BY <1>4, <1>5, <1>9, <1>10
<1>21. Behaves(p, o, q, s, ls)
  <2>1. CASE AtSite(p, q)
    <3>1. Within(p, o, q, s, 0) BY <1>7, <1>12, <1>20, <2>1, LandedTwin
    <3>2. Near(p, o, q, s, 0) BY <1>7, <1>20, <2>1, <3>1 DEF Near
    <3> QED BY <1>19, <3>2
  <2>2. CASE ~AtSite(p, q)
    <3>1. Facing(p, o, q, s) BY <1>7, <1>12, <1>20, <2>2, LandedTwin
    <3>2. Near(p, o, q, s, 4) BY <1>7, <1>20, <3>1 DEF Near
    <3> QED BY <1>19, <3>2
  <2> QED BY <2>1, <2>2
<1> QED BY <1>21 DEF q, s

\* The inductive invariant of the two executions.
RunInv ==
  /\ LapsOk(laps)
  /\ \/ pre = Idle /\ post = Idle
     \/ pc = "done" /\ Behaves(prog, out, pre, post, laps)

LEMMA RunsInitially == Init => RunInv
<1>1. ASSUME Init PROVE LapsOk(laps)
  <2> DEFINE ls == [l \in {} |-> 0]
  <2>1. DOMAIN ls = {} /\ ls = [l \in {} |-> ls[l]] OBVIOUS
  <2>2. laps = ls BY <1>1 DEF Init
  <2> HIDE DEF ls
  <2> QED BY <2>1, <2>2 DEF LapsOk
<1> QED BY <1>1 DEF Init, RunInv

LEMMA RunsPreserved ==
  ASSUME GuardInv, ShapeInv, RunInv, UserIdsApart', [Next]_vars
  PROVE  RunInv'
<1>1. prog \in Programs BY DEF GuardInv, GuardTypes
<1>2. CASE UNCHANGED <<prog, pc, out, pre, post, laps>> BY <1>2 DEF RunInv
<1>3. CASE UNCHANGED runs /\ pc # "done"
  <2>1. pre = Idle /\ post = Idle BY <1>3 DEF RunInv
  <2> QED BY <1>3, <2>1 DEF RunInv, runs
<1>4. CASE Instantiate
  <2>1. PICK a \in Args : pre' = Start(prog, prog.hook, a) /\ post' = Start(out, out.hook, a) BY <1>4 DEF Instantiate
  <2>2. pc = "done" /\ prog' = prog /\ out' = out /\ laps' = laps /\ pc' = pc BY <1>4 DEF Instantiate
  <2>3. Shaped(prog, out) /\ LapsOk(laps) BY <2>2 DEF ShapeInv, RunInv
  <2>4. a \in Nat BY GuardParameters
  <2>5. Behaves(prog, out, Start(prog, prog.hook, a), Start(out, out.hook, a), laps) BY <1>1, <2>3, <2>4, BehavesFirst
  <2> QED BY <2>1, <2>2, <2>3, <2>5 DEF RunInv
<1>5. CASE Execute
  <2>1. /\ pc = "done" /\ (Running(pre) \/ Running(post)) /\ prog' = prog /\ out' = out /\ pc' = pc
        /\ pre' = Metered(prog, pre) /\ post' = Metered(out, post) /\ laps' = Counted(prog, pre, laps)
    BY <1>5 DEF Execute
  <2>2. Shaped(prog, out) BY <2>1 DEF ShapeInv
  <2>3. ~Running(Idle) BY DEF Running, Idle
  <2>4. Behaves(prog, out, pre, post, laps) BY <2>1, <2>3 DEF RunInv
  <2>5. Apart(pre'.trace) BY DEF UserIdsApart, Apart
  <2>6. Behaves(prog, out, Metered(prog, pre), Metered(out, post), Counted(prog, pre, laps))
    BY <1>1, <2>1, <2>2, <2>4, <2>5, BehavesOn
  <2>7. LapsOk(Counted(prog, pre, laps)) BY CountedIs DEF RunInv
  <2> QED BY <2>1, <2>6, <2>7 DEF RunInv
<1>6. CASE Unchanged \/ Import \/ Copy \/ Insert \/ EndBody
  <2>1. UNCHANGED runs /\ pc # "done" BY <1>6 DEF Unchanged, Import, Copy, Insert, EndBody
  <2> QED BY <1>3, <2>1
<1> QED BY <1>2, <1>4, <1>5, <1>6 DEF Next, vars

LEMMA RunsShow == ASSUME GuardInv, ShapeInv, RunInv, UserIdsApart PROVE GuardsInvisible
<1>1. prog \in Programs BY DEF GuardInv, GuardTypes
<1>2. \A s : Visible(s) = VisibleIn(s.trace) BY DEF Visible, VisibleIn
<1>3. CASE pre = Idle /\ post = Idle
  <2>1. <<>> \in Seq(Call) /\ Apart(<<>>) BY DEF Apart
  <2>2. VisibleIn(<<>>) = <<>> BY <2>1, VisibleApart
  <2>3. PrefixOf(<<>>, <<>>) BY <2>1, PrefixSame
  <2>4. IsPrefix(<<>>, <<>>) BY <2>1, <2>3, PrefixIs
  <2>5. pre.trace = <<>> /\ post.trace = <<>> /\ post.status = "idle" BY <1>3 DEF Idle
  <2>6. Visible(pre) = <<>> /\ Visible(post) = <<>> BY <1>2, <2>2, <2>5
  <2> QED BY <1>3, <2>4, <2>5, <2>6 DEF GuardsInvisible, Transparent, NoEarlyStop, Stopped, EndedByInserted
<1>4. ASSUME NEW e, Reaches(prog, e, pre, laps), Trails(prog, out, e, post, laps) PROVE GuardsInvisible
  <2>1. Earlier(prog, e, pre, laps) /\ Good(prog, pre) BY <1>4, ReachesParts
  <2>2. /\ pre.trace \in Seq(Call) /\ e.s.trace \in Seq(Call) /\ PrefixOf(e.s.trace, pre.trace)
        /\ ~Running(e.s) => e.s = pre
    BY <2>1 DEF Earlier, Good
  <2>3. Visible(pre) = pre.trace
    <3>1. Apart(pre.trace) BY DEF UserIdsApart, Apart
    <3>2. VisibleIn(pre.trace) = pre.trace BY <2>2, <3>1, VisibleApart
    <3> QED BY <1>2, <3>2
  <2>4. Visible(post) = e.s.trace BY <1>2, <1>4 DEF Trails, Follows, Ended
  <2>5. IsPrefix(Visible(post), Visible(pre))
    <3>1. IsPrefix(e.s.trace, pre.trace) BY <2>2, PrefixIs
    <3> QED BY <2>3, <2>4, <3>1
  <2>6. CASE \E j \in 0 .. 4 : Follows(prog, out, e, post, j)
    <3>1. post.status = e.s.status /\ post.result = e.s.result /\ ~EndedByInserted(post) BY <2>6 DEF Follows, Near
    <3>2. Stopped(post) => ~Running(e.s) BY <3>1 DEF Stopped, Running
    <3>3. Transparent BY <2>2, <2>3, <2>4, <2>5, <3>1, <3>2 DEF Transparent
    <3> QED BY <3>1, <3>3 DEF GuardsInvisible, NoEarlyStop
  <2>7. CASE Ended(prog, e, post, laps)
    <3>1. EndedByInserted(post) BY <2>7 DEF Ended
    <3>2. PICK l \in Sites(prog) : LapsOf(laps, l) > MaxIter BY <2>7 DEF Ended
    <3>3. l[2] \in Unguarded(prog, l[1]) BY <1>1, SiteParts
    <3>4. l \in DOMAIN laps /\ laps[l] > MaxIter
      <4>1. ~(0 > MaxIter) BY GuardParameters
      <4> QED BY <3>2, <4>1 DEF LapsOf
    <3>5. Transparent BY <2>5, <3>1 DEF Transparent
    <3> QED BY <3>3, <3>4, <3>5 DEF GuardsInvisible, NoEarlyStop
  <2> QED BY <1>4, <2>6, <2>7 DEF Trails
<1> QED BY <1>3, <1>4 DEF RunInv, Behaves

\* Guards that auto_guard inserts show in nothing, for every program whose own
\* calls of _g use the ids of guard!: the output makes the host calls of the
\* input in their order and with the same end, until the guard of a loop that
\* has begun more than MaxIter iterations ends it.
THEOREM GuardsNotObservable == Spec /\ []UserIdsApart => []GuardsInvisible
<1>1. Init => GuardInv /\ ShapeInv /\ RunInv BY Initially, RunsInitially DEF Init, ShapeInv
<1>2. GuardInv /\ [Next]_vars => GuardInv' BY Preserved
<1>3. GuardInv /\ GuardInv' /\ ShapeInv /\ [Next]_vars => ShapeInv' BY ShapePreserved
<1>4. GuardInv /\ ShapeInv /\ RunInv /\ UserIdsApart' /\ [Next]_vars => RunInv' BY RunsPreserved
<1>5. GuardInv /\ ShapeInv /\ RunInv /\ UserIdsApart => GuardsInvisible BY RunsShow
<1> QED BY <1>1, <1>2, <1>3, <1>4, <1>5, PTL DEF Spec
=============================================================================
