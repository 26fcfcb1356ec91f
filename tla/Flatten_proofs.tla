---------------------------- MODULE Flatten_proofs ----------------------------
(***************************************************************************)
(* Proofs that the inliner leaves no call to a defined function behind,    *)
(* and that what it returns is valid with an exact type section, for every *)
(* program and every order that lists callees first (what CallGraph_proofs *)
(* shows of topo_post_order).                                              *)
(*                                                                         *)
(* InlineInv says who has been inlined where.  For validity, a body is     *)
(* seen as a concatenation: Depth adds up over one (DepthConcat), what is  *)
(* spliced is a Piece, which leaves no construct it did not enter and ends *)
(* as deep as it began (InlinedPiece), and ValidInv says that the body     *)
(* being written has got as deep as its original.                          *)
(***************************************************************************)
EXTENDS Flatten, SequenceTheorems, FunctionTheorems, FiniteSetTheorems,
        WellFoundedInduction, TLAPS

\* Operators as far as the argument needs them; that a rewritten "return" has
\* a depth in Nat is a matter of valid bodies, not of calls.
Code == [op : Ops, n : Int]
Bodies == Seq(Code)

Done == DOMAIN funcs \ ToSet(order)
Clean(b) == Calls(b) \cap Defined = {}

Flat == [params : Nat, extra : Nat, result : 0 .. 1, body : Bodies]

InlineTypes ==
  /\ prog \in Programs /\ rest \in Bodies /\ cur \in Flat
  /\ order \in Seq(Defined) /\ at \in Defined \cup {None}
  /\ \A f \in DOMAIN funcs : funcs[f] \in Flat

\* While the pass runs: what is finished calls imports only, what waits is as
\* it came and waits for finished functions, or for ones that come before it.
Inlining ==
  /\ DOMAIN funcs = Defined \ {at}
  /\ \A i, j \in DOMAIN order : order[i] = order[j] => i = j
  /\ at \notin ToSet(order)
  /\ \A f \in ToSet(order) : funcs[f] = prog.funcs[f]
  /\ \A i \in DOMAIN order : \A c \in DefinedCalls(order[i]) :
       c \in Done \/ c = at \/ \E j \in 1 .. i-1 : order[j] = c
  /\ \A f \in Done : Clean(funcs[f].body)
  /\ at # None => Clean(cur.body) /\ Calls(rest) \cap Defined \subseteq Done

InlineInv ==
  /\ InlineTypes
  /\ pc = "check" => at = None
  /\ pc = "inline" => Inlining
  /\ pc \in {"types", "done"} => \A f \in DOMAIN funcs \ ToSet(order) : Clean(funcs[f].body)

LEMMA DepthType == ASSUME NEW b, NEW k \in Nat PROVE Depth(b, k) \in Int
<1>1. IsFiniteSet(1 .. k)
  BY FS_Interval
<1>2. ASSUME NEW S \in SUBSET (1 .. k) PROVE Cardinality(S) \in Int
  <2>1. IsFiniteSet(S)
    BY <1>1, FS_Subset
  <2>2. Cardinality(S) \in Nat
    BY <2>1, FS_CardinalityType
  <2> QED
    BY <2>2
<1> DEFINE A == {j \in 1 .. k : Opens(b[j])}
           E == {j \in 1 .. k : b[j].op = "end"}
<1>3. A \in SUBSET (1 .. k) /\ E \in SUBSET (1 .. k)
  OBVIOUS
<1> HIDE DEF A, E
<1>4. Cardinality(A) \in Int /\ Cardinality(E) \in Int
  BY <1>2, <1>3
<1> QED
  BY <1>4 DEF Depth, A, E

LEMMA CallsOfConcat ==
  ASSUME NEW s \in Bodies, NEW t \in Bodies
  PROVE  s \o t \in Bodies /\ Calls(s \o t) \subseteq Calls(s) \cup Calls(t)
<1>1. /\ s \o t \in Bodies /\ Len(s \o t) = Len(s) + Len(t)
      /\ \A i \in 1 .. Len(s) + Len(t) :
           (s \o t)[i] = IF i <= Len(s) THEN s[i] ELSE t[i - Len(s)]
  BY ConcatProperties DEF Bodies
<1>2. /\ Len(s) \in Nat /\ Len(t) \in Nat
      /\ DOMAIN s = 1 .. Len(s) /\ DOMAIN t = 1 .. Len(t)
      /\ DOMAIN (s \o t) = 1 .. Len(s) + Len(t)
  BY <1>1, LenProperties DEF Bodies
<1> DEFINE u == s \o t
<1> HIDE DEF u
<1>3. ASSUME NEW k \in DOMAIN u, u[k].op = "call" PROVE u[k].n \in Calls(s) \cup Calls(t)
  <2>1. CASE k <= Len(s)
    <3>1. k \in DOMAIN s /\ u[k] = s[k]
      BY <1>1, <1>2, <2>1 DEF u
    <3> QED
      BY <1>3, <3>1 DEF Calls
  <2>2. CASE ~(k <= Len(s))
    <3>1. k - Len(s) \in DOMAIN t /\ u[k] = t[k - Len(s)]
      BY <1>1, <1>2, <2>2 DEF u
    <3> QED
      BY <1>3, <3>1 DEF Calls
  <2> QED
    BY <2>1, <2>2
<1>4. Calls(u) \subseteq Calls(s) \cup Calls(t)
  BY <1>3 DEF Calls
<1> QED
  BY <1>1, <1>4 DEF u

LEMMA CodeOf == ASSUME NEW o \in Ops, NEW n \in Int PROVE I(o, n) \in Code /\ I(o, n).op = o /\ I(o, n).n = n
BY DEF I, Code

\* The parts of Inlined.
Spilled(f, args) == [k \in 1 .. f.params |-> I("set", args + (f.params - k))]
Renamed(f, args, base, k) ==
  IF f.body[k].op \in LocalOps
    THEN I(f.body[k].op, RemapLocal(f, args, base, f.body[k].n)) ELSE f.body[k]
Bare(f, args, base, m) == [k \in 1 .. m |-> Renamed(f, args, base, k)]
Rewritten(f, args, base) ==
  [k \in 1 .. Len(f.body) |->
     IF f.body[k].op = "ret" THEN I("br", Depth(f.body, k)) ELSE Renamed(f, args, base, k)]
Wrapped(f, args, base) == <<I("block", f.result)>> \o Rewritten(f, args, base)

LEMMA InlinedIs ==
  ASSUME NEW f, NEW args, NEW base
  PROVE  LET b == f.body IN
         /\ Shape(b) = "NeedsWrapper" => Inlined(f, args, base) = Spilled(f, args) \o Wrapped(f, args, base)
         /\ Shape(b) = "TrailingOnly" => Inlined(f, args, base) = Spilled(f, args) \o Bare(f, args, base, Len(b)-2)
         /\ Shape(b) = "NoReturn" => Inlined(f, args, base) = Spilled(f, args) \o Bare(f, args, base, Len(b)-1)
         /\ Shape(b) \in {"NeedsWrapper", "TrailingOnly", "NoReturn"}
<1>1. Inlined(f, args, base) =
        Spilled(f, args) \o (CASE Shape(f.body) = "NeedsWrapper" -> Wrapped(f, args, base)
                               [] Shape(f.body) = "TrailingOnly" -> Bare(f, args, base, Len(f.body)-2)
                               [] Shape(f.body) = "NoReturn" -> Bare(f, args, base, Len(f.body)-1))
  BY DEF Inlined, Spilled, Renamed, Bare, Rewritten, Wrapped
<1>2. Shape(f.body) \in {"NeedsWrapper", "TrailingOnly", "NoReturn"} BY DEF Shape
<1>3. CASE Shape(f.body) = "NeedsWrapper" BY <1>1, <1>2, <1>3
<1>4. CASE Shape(f.body) = "TrailingOnly" BY <1>1, <1>2, <1>4
<1>5. CASE Shape(f.body) = "NoReturn" BY <1>1, <1>2, <1>5
<1> QED BY <1>2, <1>3, <1>4, <1>5

\* Operators keep their kind, but for "ret", and calls their callee.
LEMMA InlinedParts ==
  ASSUME NEW f, f.body \in Bodies, f.params \in Nat, f.result \in Int,
         NEW args \in Int, NEW base \in Int
  PROVE  LET b == f.body
             n == Len(b) IN
         /\ n \in Nat /\ DOMAIN b = 1 .. n
         /\ \A k \in 1 .. n : b[k] \in Code /\ b[k].op \in Ops /\ b[k].n \in Int
         /\ \A k \in 1 .. n : /\ Renamed(f, args, base, k) \in Code
                              /\ Renamed(f, args, base, k).op = b[k].op
                              /\ b[k].op \notin LocalOps => Renamed(f, args, base, k) = b[k]
         /\ \A k \in 1 .. n : Depth(b, k) \in Int /\ I("br", Depth(b, k)) \in Code
         /\ Spilled(f, args) \in Bodies /\ Rewritten(f, args, base) \in Bodies
         /\ <<I("block", f.result)>> \in Bodies /\ Wrapped(f, args, base) \in Bodies
         /\ \A m \in Int : m <= n => Bare(f, args, base, m) \in Bodies
<1> DEFINE b == f.body
           n == Len(b)
<1>1. n \in Nat /\ DOMAIN b = 1 .. n /\ \A k \in 1 .. n : b[k] \in Code
  BY LenProperties, ElementOfSeq DEF Bodies
<1>2. \A k \in 1 .. n : b[k].op \in Ops /\ b[k].n \in Int
  BY <1>1 DEF Code
<1>3. ASSUME NEW k \in 1 .. n
      PROVE  /\ Renamed(f, args, base, k) \in Code
             /\ Renamed(f, args, base, k).op = b[k].op
             /\ b[k].op \notin LocalOps => Renamed(f, args, base, k) = b[k]
  <2>1. CASE b[k].op \in LocalOps
    <3>1. Renamed(f, args, base, k) = I(b[k].op, RemapLocal(f, args, base, b[k].n))
      BY <2>1 DEF Renamed
    <3>2. RemapLocal(f, args, base, b[k].n) \in Int
      BY <1>2 DEF RemapLocal
    <3> QED
      BY <1>2, <2>1, <3>1, <3>2, CodeOf
  <2>2. CASE b[k].op \notin LocalOps
    BY <1>1, <2>2 DEF Renamed
  <2> QED
    BY <2>1, <2>2
<1>4. ASSUME NEW k \in 1 .. n PROVE Depth(b, k) \in Int /\ I("br", Depth(b, k)) \in Code
  <2>1. Depth(b, k) \in Int /\ "br" \in Ops
    BY <1>1, DepthType DEF Ops
  <2> QED
    BY <2>1, CodeOf
<1>5. Spilled(f, args) \in Bodies
  <2>1. \A k \in 1 .. f.params : I("set", args + (f.params - k)) \in Code
    BY CodeOf DEF Ops
  <2>2. Spilled(f, args) \in [1 .. f.params -> Code]
    BY <2>1 DEF Spilled
  <2> QED
    BY <2>2 DEF Bodies
<1>6. Rewritten(f, args, base) \in Bodies
  <2>1. \A k \in 1 .. n :
          (IF b[k].op = "ret" THEN I("br", Depth(b, k)) ELSE Renamed(f, args, base, k)) \in Code
    BY <1>3, <1>4
  <2> QED
    BY <1>1, <2>1 DEF Rewritten, Bodies
<1>7. <<I("block", f.result)>> \in Bodies
  <2>1. I("block", f.result) \in Code
    BY CodeOf DEF Ops
  <2> QED
    BY <2>1 DEF Bodies
<1>8. Wrapped(f, args, base) \in Bodies
  BY <1>6, <1>7, ConcatProperties DEF Wrapped, Bodies
<1>9. ASSUME NEW m \in Int, m <= n PROVE Bare(f, args, base, m) \in Bodies
  <2>0. \A k \in 1 .. m : Renamed(f, args, base, k) \in Code
    BY <1>1, <1>3, <1>9
  <2>1. Bare(f, args, base, m) \in [1 .. m -> Code]
    BY <2>0 DEF Bare
  <2>2. CASE m \in Nat
    BY <2>1, <2>2 DEF Bodies
  <2>3. CASE m \notin Nat
    <3>1. 1 .. m = 1 .. 0 /\ 0 \in Nat
      BY <1>9, <2>3
    <3> QED
      BY <2>1, <3>1 DEF Bodies
  <2> QED
    BY <2>2, <2>3
<1> QED
  BY <1>1, <1>2, <1>3, <1>4, <1>5, <1>6, <1>7, <1>8, <1>9

\* A spliced body calls nothing that the callee does not call.
LEMMA CallsOfInlined ==
  ASSUME NEW f, f.body \in Bodies, f.params \in Nat, f.result \in Int,
         NEW args \in Int, NEW base \in Int
  PROVE  Inlined(f, args, base) \in Bodies /\ Calls(Inlined(f, args, base)) \subseteq Calls(f.body)
<1> DEFINE b == f.body
           n == Len(b)
           spilled == Spilled(f, args)
           open == <<I("block", f.result)>>
           rewritten == Rewritten(f, args, base)
           bare(m) == Bare(f, args, base, m)
<1>1. /\ n \in Nat /\ DOMAIN b = 1 .. n
      /\ \A k \in 1 .. n : /\ Renamed(f, args, base, k).op = b[k].op
                           /\ b[k].op \notin LocalOps => Renamed(f, args, base, k) = b[k]
      /\ spilled \in Bodies /\ open \in Bodies /\ rewritten \in Bodies
      /\ \A m \in Int : m <= n => bare(m) \in Bodies
  BY InlinedParts
<1>2. \A k \in 1 .. n : Renamed(f, args, base, k).op = "call" => Renamed(f, args, base, k) = b[k]
  BY <1>1 DEF LocalOps
<1>3. Calls(spilled) = {} /\ Calls(open) = {}
  <2>1. \A k \in DOMAIN spilled : spilled[k].op = "set"
    BY DEF Spilled, I
  <2>2. \A k \in DOMAIN open : open[k].op = "block"
    BY DEF I
  <2> HIDE DEF spilled, open
  <2> QED
    BY <2>1, <2>2 DEF Calls
<1>4. Calls(rewritten) \subseteq Calls(b)
  <2>1. \A k \in DOMAIN rewritten : k \in DOMAIN b /\ (rewritten[k].op = "call" => rewritten[k] = b[k])
    BY <1>1, <1>2 DEF Rewritten, I
  <2> HIDE DEF rewritten
  <2> QED
    BY <2>1 DEF Calls
<1>5. ASSUME NEW m \in Int, m <= n PROVE Calls(bare(m)) \subseteq Calls(b)
  <2> DEFINE r == bare(m)
  <2>1. \A k \in DOMAIN r : k \in DOMAIN b /\ (r[k].op = "call" => r[k] = b[k])
    BY <1>1, <1>2, <1>5 DEF Bare
  <2> HIDE DEF r
  <2>2. Calls(r) \subseteq Calls(b)
    BY <2>1 DEF Calls
  <2> QED
    BY <2>2 DEF r
<1>6. n-1 \in Int /\ n-1 <= n /\ n-2 \in Int /\ n-2 <= n
  BY <1>1
<1> HIDE DEF n, spilled, open, rewritten, bare
<1>7. open \o rewritten \in Bodies /\ Calls(open \o rewritten) \subseteq Calls(b)
  BY <1>1, <1>3, <1>4, CallsOfConcat
<1>8. ASSUME NEW r \in Bodies, Calls(r) \subseteq Calls(b)
      PROVE  spilled \o r \in Bodies /\ Calls(spilled \o r) \subseteq Calls(b)
  BY <1>1, <1>3, <1>8, CallsOfConcat
<1>9. CASE Shape(b) = "NeedsWrapper"
  <2>1. Inlined(f, args, base) = spilled \o (open \o rewritten)
    BY <1>9, InlinedIs DEF spilled, open, rewritten, Wrapped
  <2> QED
    BY <1>7, <1>8, <2>1
<1>10. CASE Shape(b) = "TrailingOnly"
  <2>1. Inlined(f, args, base) = spilled \o bare(n-2)
    BY <1>10, InlinedIs DEF spilled, bare, n
  <2> QED
    BY <1>1, <1>5, <1>6, <1>8, <2>1
<1>11. CASE Shape(b) = "NoReturn"
  <2>1. Inlined(f, args, base) = spilled \o bare(n-1)
    BY <1>11, InlinedIs DEF spilled, bare, n
  <2> QED
    BY <1>1, <1>5, <1>6, <1>8, <2>1
<1> QED
  BY <1>9, <1>10, <1>11, InlinedIs

-----------------------------------------------------------------------------
(* The invariant *)

LEMMA TailOf ==
  ASSUME NEW T, NEW s \in Seq(T), s # <<>>
  PROVE  /\ Tail(s) \in Seq(T) /\ s[1] \in T /\ 1 \in DOMAIN s
         /\ DOMAIN Tail(s) = 1 .. Len(s)-1 /\ Len(s) \in Nat /\ DOMAIN s = 1 .. Len(s)
         /\ \A i \in 1 .. Len(s)-1 : i+1 \in DOMAIN s /\ Tail(s)[i] = s[i+1]
<1>1. Len(s) \in Nat /\ Len(s) > 0 /\ DOMAIN s = 1 .. Len(s)
  BY EmptySeq, LenProperties
<1>2. Tail(s) \in Seq(T) /\ Len(Tail(s)) = Len(s)-1 /\ \A i \in 1 .. Len(s)-1 : Tail(s)[i] = s[i+1]
  BY HeadTailProperties
<1>3. DOMAIN Tail(s) = 1 .. Len(s)-1
  BY <1>2, LenProperties
<1>4. s[1] \in T /\ 1 \in DOMAIN s /\ \A i \in 1 .. Len(s)-1 : i+1 \in 1 .. Len(s)
  BY <1>1, ElementOfSeq
<1> QED
  BY <1>1, <1>2, <1>3, <1>4

LEMMA CallsOfTail ==
  ASSUME NEW b \in Bodies, b # <<>>
  PROVE  /\ Tail(b) \in Bodies /\ b[1] \in Code /\ Calls(Tail(b)) \subseteq Calls(b)
         /\ b[1].op = "call" => b[1].n \in Calls(b)
<1>1. /\ Tail(b) \in Bodies /\ b[1] \in Code /\ 1 \in DOMAIN b
      /\ \A i \in DOMAIN Tail(b) : i+1 \in DOMAIN b /\ Tail(b)[i] = b[i+1]
  BY TailOf DEF Bodies
<1> DEFINE t == Tail(b)
<1> HIDE DEF t
<1>2. \A i \in DOMAIN t : i+1 \in DOMAIN b /\ t[i] = b[i+1]
  BY <1>1 DEF t
<1>3. Calls(t) \subseteq Calls(b)
  BY <1>2 DEF Calls
<1> QED
  BY <1>1, <1>3 DEF t, Calls

LEMMA CallsOfAppend ==
  ASSUME NEW b \in Bodies, NEW i \in Code
  PROVE  /\ Append(b, i) \in Bodies
         /\ Calls(Append(b, i)) \subseteq Calls(b) \cup (IF i.op = "call" THEN {i.n} ELSE {})
<1> DEFINE u == Append(b, i)
           n == Len(b)
<1>1. n \in Nat /\ DOMAIN b = 1 .. n
  BY LenProperties DEF Bodies
<1>2. u \in Bodies /\ Len(u) = n+1 /\ u[n+1] = i /\ \A k \in 1 .. n : u[k] = b[k]
  BY AppendProperties DEF Bodies
<1>3. DOMAIN u = 1 .. n+1
  BY <1>2, LenProperties DEF Bodies
<1> HIDE DEF u, n
<1>4. \A k \in DOMAIN u : k = n+1 \/ k \in DOMAIN b
  BY <1>1, <1>3
<1>5. Calls(u) \subseteq Calls(b) \cup (IF i.op = "call" THEN {i.n} ELSE {})
  BY <1>1, <1>2, <1>4 DEF Calls
<1> QED
  BY <1>2, <1>5 DEF u

LEMMA InputsType ==
  ASSUME prog \in Programs
  PROVE  /\ None \notin Defined
         /\ \A f \in Defined : prog.funcs[f] \in Flat
<1>1. None \notin Defined /\ \A f \in Defined : prog.funcs[f] \in Function
  BY FlattenInputs DEF Defined
<1>2. Seq(Operator) \subseteq Bodies
  <2>1. Operator \subseteq Code
    BY DEF Operator, Code
  <2> QED
    BY <2>1 DEF Bodies
<1>3. Function \subseteq Flat
  BY <1>2 DEF Function, Flat
<1> QED
  BY <1>1, <1>3

LEMMA EmptyBody == <<>> \in Bodies /\ Calls(<<>>) = {}
BY DEF Bodies, Calls

LEMMA NextInlineInv == InlineInv /\ [Next]_vars => InlineInv'
<1> SUFFICES ASSUME InlineInv, [Next]_vars PROVE InlineInv'
  OBVIOUS
<1>t. InlineTypes
  BY DEF InlineInv
<1>n. None \notin Defined /\ \A f \in Defined : prog.funcs[f] \in Flat
  BY <1>t, InputsType DEF InlineTypes
<1>e. NoFunc \in Flat
  BY EmptyBody DEF NoFunc, Flat
<1>p. ASSUME prog' = prog
      PROVE  /\ Defined' = Defined /\ \A b : Clean(b)' <=> Clean(b)
             /\ \A f : DefinedCalls(f)' = DefinedCalls(f)
  BY <1>p DEF Defined, Clean, DefinedCalls
<1>1. CASE Refuse
  <2>1. pc' = "bail" /\ UNCHANGED <<prog, rest, cur, order, at, funcs>>
    BY <1>1 DEF Refuse, result, runs
  <2> QED
    BY <1>t, <1>p, <2>1 DEF InlineInv, InlineTypes
<1>2. CASE Collect
  <2>1. /\ pc = "check" /\ pc' = "inline" /\ funcs' = prog.funcs /\ order' \in PostOrders
        /\ UNCHANGED <<prog, at, cur, rest>>
    BY <1>2 DEF Collect
  <2>2. at = None
    BY <2>1 DEF InlineInv
  <2> DEFINE N == Cardinality(Defined)
  <2>3. /\ order' \in [1 .. N -> Defined]
        /\ \A f \in Defined : \E i \in DOMAIN order' : order'[i] = f
        /\ \A i, j \in DOMAIN order' : order'[i] = order'[j] => i = j
        /\ \A i \in DOMAIN order' : \A c \in DefinedCalls(order'[i]) : \E j \in 1 .. i-1 : order'[j] = c
    BY <2>1 DEF PostOrders
  <2>4. order' \in Seq(Defined)
    <3>1. N \in Nat
      BY <1>t, FlattenInputs, FS_CardinalityType DEF InlineTypes, Defined
    <3> HIDE DEF N
    <3> QED
      BY <2>3, <3>1
  <2>5. DOMAIN funcs' = Defined /\ ToSet(order') = Defined
    BY <2>1, <2>3 DEF Defined, ToSet
  <2>6. InlineTypes'
    BY <1>t, <1>n, <1>p, <2>1, <2>4, <2>5 DEF InlineTypes
  <2>7. Done' = {}
    BY <2>5 DEF Done
  <2>8. /\ DOMAIN funcs' = Defined \ {at'} /\ at' \notin ToSet(order')
    BY <1>n, <2>1, <2>2, <2>5
  <2>9. \A i \in DOMAIN order' : \A c \in DefinedCalls(order'[i]) : \E j \in 1 .. i-1 : order'[j] = c
    BY <2>3
  <2>10. Inlining'
    BY <1>p, <2>1, <2>2, <2>3, <2>7, <2>8, <2>9 DEF Inlining
  <2> QED
    BY <2>1, <2>6, <2>10 DEF InlineInv
<1>3. CASE Take
  <2> DEFINE f == order[1]
  <2>1. /\ pc = "inline" /\ pc' = "inline" /\ at = None /\ order # <<>> /\ at' = f
        /\ order' = Tail(order) /\ cur' = [funcs[f] EXCEPT !.body = <<>>]
        /\ rest' = funcs[f].body /\ funcs' = Without(funcs, f) /\ prog' = prog
    BY <1>3 DEF Take
  <2>2. /\ order' \in Seq(Defined) /\ f \in Defined /\ 1 \in DOMAIN order
        /\ DOMAIN order' = 1 .. Len(order)-1 /\ Len(order) \in Nat
        /\ DOMAIN order = 1 .. Len(order)
        /\ \A i \in 1 .. Len(order)-1 : i+1 \in DOMAIN order /\ order'[i] = order[i+1]
    BY <1>t, <2>1, TailOf DEF InlineTypes
  <2> HIDE DEF f
  <2>i. Inlining
    BY <2>1 DEF InlineInv
  <2>3. ToSet(order) = ToSet(order') \cup {f} /\ f \notin ToSet(order')
    <3>1. \A i \in DOMAIN order : i = 1 \/ (i-1 \in DOMAIN order' /\ order'[i-1] = order[i])
      <4> SUFFICES ASSUME NEW i \in DOMAIN order, i # 1
                   PROVE  i-1 \in DOMAIN order' /\ order'[i-1] = order[i]
        OBVIOUS
      <4>1. i-1 \in 1 .. Len(order)-1 /\ (i-1)+1 = i
        BY <2>2
      <4> QED
        BY <2>2, <4>1
    <3>2. \A i \in DOMAIN order' : i+1 \in DOMAIN order /\ i+1 # 1 /\ order'[i] = order[i+1]
      BY <2>2
    <3>3. order[1] = f
      BY DEF f
    <3>4. ToSet(order') \subseteq ToSet(order) /\ f \in ToSet(order)
      BY <2>2, <3>2, <3>3 DEF ToSet
    <3>5. ToSet(order) \subseteq ToSet(order') \cup {f}
      BY <3>1, <3>3 DEF ToSet
    <3>6. f \notin ToSet(order')
      BY <2>2, <2>i, <3>2, <3>3 DEF ToSet, Inlining
    <3> QED
      BY <3>4, <3>5, <3>6
  <2>4. DOMAIN funcs = Defined /\ DOMAIN funcs' = Defined \ {f}
        /\ \A g \in Defined \ {f} : funcs'[g] = funcs[g]
    BY <1>n, <2>1, <2>i DEF Inlining, Without
  <2>5. Done' = Done
    BY <2>3, <2>4 DEF Done
  <2>6. funcs[f] \in Flat /\ cur' \in Flat /\ cur'.body = <<>> /\ rest' \in Bodies
    BY <1>t, <2>1, <2>2, <2>4, EmptyBody DEF InlineTypes, Flat
  <2>7. InlineTypes'
    BY <1>t, <1>p, <2>1, <2>2, <2>4, <2>6 DEF InlineTypes
  <2>8. \A i, j \in DOMAIN order' : order'[i] = order'[j] => i = j
    <3> SUFFICES ASSUME NEW i \in DOMAIN order', NEW j \in DOMAIN order', order'[i] = order'[j]
                 PROVE  i = j
      OBVIOUS
    <3>1. i+1 \in DOMAIN order /\ j+1 \in DOMAIN order /\ order[i+1] = order[j+1]
      BY <2>2
    <3>2. i+1 = j+1 /\ i \in Int /\ j \in Int
      BY <2>2, <2>i, <3>1 DEF Inlining
    <3> QED
      BY <3>2
  <2>9. \A i \in DOMAIN order' : \A c \in DefinedCalls(order'[i]) :
          c \in Done' \/ c = at' \/ \E j \in 1 .. i-1 : order'[j] = c
    <3> SUFFICES ASSUME NEW i \in DOMAIN order', NEW c \in DefinedCalls(order'[i]),
                        c \notin Done', c # at'
                 PROVE  \E j \in 1 .. i-1 : order'[j] = c
      OBVIOUS
    <3>1. i+1 \in DOMAIN order /\ order'[i] = order[i+1] /\ i \in 1 .. Len(order)-1
      BY <2>2
    <3>2. c \in Defined
      BY DEF DefinedCalls
    <3>3. PICK j \in 1 .. i : order[j] = c
      <4>1. (i+1)-1 = i
        BY <3>1
      <4>2. c # None
        BY <1>n, <3>2
      <4>3. c \in Done \/ c = at \/ \E j \in 1 .. (i+1)-1 : order[j] = c
        BY <2>i, <3>1 DEF Inlining
      <4> QED
        BY <2>1, <2>5, <4>1, <4>2, <4>3
    <3>4. j # 1
      BY <2>1, <3>3 DEF f
    <3>5. j-1 \in 1 .. i-1 /\ j-1 \in 1 .. Len(order)-1 /\ (j-1)+1 = j
      BY <2>2, <3>1, <3>4
    <3> QED
      BY <2>2, <3>3, <3>5
  <2>10. Calls(rest') \cap Defined \subseteq Done'
    <3> SUFFICES ASSUME NEW c \in Calls(rest') \cap Defined PROVE c \in Done
      BY <2>5
    <3>1. c \in DefinedCalls(order[1])
      BY <2>1, <2>3, <2>i DEF Inlining, DefinedCalls, f
    <3>2. c \in Done \/ c = at \/ \E j \in 1 .. 1-1 : order[j] = c
      BY <2>2, <2>i, <3>1 DEF Inlining
    <3>3. 1 .. 1-1 = {}
      OBVIOUS
    <3> QED
      BY <1>n, <2>1, <3>2, <3>3
  <2>11. Clean(cur'.body)
    BY <2>6, EmptyBody DEF Clean
  <2>12. \A g \in ToSet(order') : funcs'[g] = prog'.funcs[g]
    <3>1. \A g \in ToSet(order') : g \in Defined /\ g # f /\ g \in ToSet(order)
      <4>1. \A i \in DOMAIN order' : order'[i] \in Defined
        BY <2>2, ElementOfSeq, LenProperties
      <4> QED
        BY <2>3, <4>1 DEF ToSet
    <3> QED
      BY <2>1, <2>4, <2>i, <3>1 DEF Inlining
  <2>13. \A g \in Done' : Clean(funcs'[g].body)
    BY <2>3, <2>4, <2>5, <2>i DEF Inlining, Done
  <2> HIDE DEF f
  <2>14. Inlining'
    BY <1>p, <2>1, <2>3, <2>4, <2>8, <2>9, <2>10, <2>11, <2>12, <2>13 DEF Inlining
  <2> QED
    BY <2>1, <2>7, <2>14 DEF InlineInv
<1>4. CASE Copy
  <2>1. /\ pc = "inline" /\ pc' = "inline" /\ at # None /\ rest # <<>> /\ ~Inlinable(rest[1])
        /\ cur' = [cur EXCEPT !.body = Append(@, rest[1])] /\ rest' = Tail(rest)
        /\ UNCHANGED <<prog, order, funcs, at>>
    BY <1>4 DEF Copy
  <2>2. /\ rest' \in Bodies /\ rest[1] \in Code /\ Calls(rest') \subseteq Calls(rest)
        /\ rest[1].op = "call" => rest[1].n \in Calls(rest)
    BY <1>t, <2>1, CallsOfTail DEF InlineTypes
  <2>i. Inlining
    BY <2>1 DEF InlineInv
  <2>3. /\ Append(cur.body, rest[1]) \in Bodies
        /\ Calls(Append(cur.body, rest[1])) \subseteq
             Calls(cur.body) \cup (IF rest[1].op = "call" THEN {rest[1].n} ELSE {})
    BY <1>t, <2>2, CallsOfAppend DEF InlineTypes, Flat
  <2>4. rest[1].op = "call" => rest[1].n \notin Defined
    BY <2>1, <2>2, <2>i DEF Inlining, Inlinable, Done
  <2>5. cur' \in Flat /\ cur'.body = Append(cur.body, rest[1])
    BY <1>t, <2>1, <2>3 DEF InlineTypes, Flat
  <2>6. Clean(cur'.body)
    BY <2>1, <2>3, <2>4, <2>5, <2>i DEF Inlining, Clean
  <2>7. Done' = Done
    BY <2>1 DEF Done
  <2>8. Inlining'
    BY <1>p, <2>1, <2>2, <2>6, <2>7, <2>i DEF Inlining
  <2> QED
    BY <1>t, <1>p, <2>1, <2>2, <2>5, <2>8 DEF InlineInv, InlineTypes
<1>5. CASE Splice
  <2> DEFINE callee == funcs[rest[1].n]
             args == cur.params + cur.extra
             base == args + callee.params
             spliced == Inlined(callee, args, base)
  <2>1. /\ pc = "inline" /\ pc' = "inline" /\ at # None /\ rest # <<>> /\ Inlinable(rest[1])
        /\ cur' = [cur EXCEPT !.extra = @ + callee.params + callee.extra, !.body = @ \o spliced]
        /\ rest' = Tail(rest) /\ UNCHANGED <<prog, order, funcs, at>>
    BY <1>5 DEF Splice
  <2>2. /\ rest' \in Bodies /\ Calls(rest') \subseteq Calls(rest)
        /\ rest[1].op = "call" => rest[1].n \in Calls(rest)
    BY <1>t, <2>1, CallsOfTail DEF InlineTypes
  <2>i. Inlining
    BY <2>1 DEF InlineInv
  <2>3. rest[1].n \in DOMAIN funcs /\ rest[1].n \in Done
    BY <2>1, <2>2, <2>i DEF Inlinable, Inlining
  <2>4. callee \in Flat /\ Clean(callee.body)
    BY <1>t, <2>3, <2>i DEF InlineTypes, Inlining
  <2> HIDE DEF callee
  <2>5. /\ callee.body \in Bodies /\ callee.params \in Nat /\ callee.extra \in Nat
        /\ callee.result \in Int /\ args \in Int /\ base \in Int
        /\ cur.extra \in Nat /\ cur.body \in Bodies
    BY <1>t, <2>4 DEF InlineTypes, Flat
  <2> HIDE DEF args, base
  <2>6. spliced \in Bodies /\ Calls(spliced) \subseteq Calls(callee.body)
    BY <2>5, CallsOfInlined
  <2> HIDE DEF spliced
  <2>7. cur.body \o spliced \in Bodies /\ Calls(cur.body \o spliced) \subseteq Calls(cur.body) \cup Calls(spliced)
    BY <2>5, <2>6, CallsOfConcat
  <2> DEFINE grown == cur.body \o spliced
             more == cur.extra + callee.params + callee.extra
  <2>7a. grown \in Bodies /\ more \in Nat /\ cur' = [cur EXCEPT !.extra = more, !.body = grown]
    BY <2>1, <2>5, <2>7
  <2>7b. grown = cur.body \o spliced
    OBVIOUS
  <2> HIDE DEF grown, more
  <2>8. cur' \in Flat /\ cur'.body = cur.body \o spliced
    BY <1>t, <2>7a, <2>7b DEF InlineTypes, Flat
  <2>9. Clean(cur'.body)
    BY <2>1, <2>4, <2>6, <2>7, <2>8, <2>i DEF Inlining, Clean
  <2>10. Done' = Done
    BY <2>1 DEF Done
  <2>11. Inlining'
    BY <1>p, <2>1, <2>2, <2>9, <2>10, <2>i DEF Inlining
  <2> QED
    BY <1>t, <1>p, <2>1, <2>2, <2>8, <2>11 DEF InlineInv, InlineTypes
<1>6. CASE PutBack
  <2>1. /\ pc = "inline" /\ pc' = "inline" /\ at # None /\ funcs' = Insert(funcs, at, cur)
        /\ at' = None /\ cur' = NoFunc /\ UNCHANGED <<prog, order, rest>>
    BY <1>6 DEF PutBack
  <2>i. Inlining
    BY <2>1 DEF InlineInv
  <2>2. /\ at \in Defined /\ DOMAIN funcs' = Defined /\ funcs'[at] = cur
        /\ \A f \in DOMAIN funcs : funcs'[f] = funcs[f]
    <3>1. at \in Defined /\ DOMAIN funcs' = DOMAIN funcs \cup {at} /\ funcs'[at] = cur
          /\ \A f \in DOMAIN funcs : f # at => funcs'[f] = funcs[f]
      BY <1>t, <2>1 DEF InlineTypes, Insert
    <3> QED
      BY <2>i, <3>1 DEF Inlining
  <2>3. Done' = Done \cup {at}
    BY <2>1, <2>2, <2>i DEF Done, Inlining
  <2>4. InlineTypes'
    <3>1. \A f \in DOMAIN funcs' : funcs'[f] \in Flat
      BY <1>t, <2>2, <2>i DEF InlineTypes, Inlining
    <3> QED
      BY <1>t, <1>e, <1>p, <2>1, <3>1 DEF InlineTypes
  <2>5. \A f \in Done' : Clean(funcs'[f].body)
    BY <2>1, <2>2, <2>3, <2>i DEF Inlining, Done
  <2>6. at' \notin ToSet(order') /\ \A f \in ToSet(order') : f \in Defined /\ f # at
    <3>1. \A i \in DOMAIN order : order[i] \in Defined
      BY <1>t, ElementOfSeq, LenProperties DEF InlineTypes
    <3> QED
      BY <1>n, <2>1, <2>i, <3>1 DEF Inlining, ToSet
  <2>7. \A f \in ToSet(order') : funcs'[f] = prog'.funcs[f]
    BY <2>1, <2>2, <2>6, <2>i DEF Inlining
  <2>8. Inlining'
    BY <1>n, <1>p, <2>1, <2>2, <2>3, <2>5, <2>6, <2>7, <2>i DEF Inlining
  <2> QED
    BY <2>1, <2>4, <2>8 DEF InlineInv
<1>7. CASE AllInlined
  <2>1. /\ pc = "inline" /\ pc' = "types" /\ UNCHANGED <<prog, order, funcs, at, cur, rest>>
    BY <1>7 DEF AllInlined
  <2> QED
    BY <1>t, <1>p, <2>1 DEF InlineInv, InlineTypes, Inlining, Done
<1>8. CASE ImportType \/ Emit
  <2>1. pc = "types" /\ pc' \in {"types", "done"} /\ UNCHANGED <<prog, order, funcs, at, cur, rest>>
    BY <1>8, Zenon DEF ImportType, Emit
  <2> QED
    BY <1>t, <1>p, <2>1 DEF InlineInv, InlineTypes
<1>9. CASE Instantiate \/ Execute \/ UNCHANGED vars
  <2>1. UNCHANGED <<prog, pc, order, funcs, at, cur, rest>>
    BY <1>9 DEF Instantiate, Execute, vars
  <2>2. Done' = Done
    BY <2>1 DEF Done
  <2>3. Inlining' <=> Inlining
    BY <1>p, <2>1, <2>2 DEF Inlining
  <2> QED
    BY <1>t, <1>p, <2>1, <2>3 DEF InlineInv, InlineTypes
<1> QED
  BY <1>1, <1>2, <1>3, <1>4, <1>5, <1>6, <1>7, <1>8, <1>9 DEF Next

LEMMA InitInlineInv == Init => InlineInv
<1> SUFFICES ASSUME Init PROVE InlineInv
  OBVIOUS
<1>1. cur \in Flat /\ rest \in Bodies /\ DOMAIN funcs = {}
  BY EmptyBody DEF Init, NoFunc, Flat
<1> QED
  BY <1>1 DEF Init, InlineInv, InlineTypes

\* Whatever the program and whichever order puts callees first, no function
\* that is finished calls a defined function.
THEOREM NoCallLeftBehind == Spec => []NoCallLeft
<1>1. InlineInv => NoCallLeft
  BY DEF InlineInv, Inlining, NoCallLeft, Done, Clean
<1> QED
  BY <1>1, InitInlineInv, NextInlineInv, PTL DEF Spec

-----------------------------------------------------------------------------
(* Depths *)

LEMMA PartsFinite ==
  ASSUME NEW k \in Nat, NEW S \in SUBSET (1 .. k)
  PROVE  IsFiniteSet(S) /\ Cardinality(S) \in Nat
<1>1. IsFiniteSet(1 .. k) BY FS_Interval
<1>2. IsFiniteSet(S) BY <1>1, FS_Subset
<1> QED BY <1>2, FS_CardinalityType

LEMMA Shifted ==
  ASSUME NEW k \in Nat, NEW S \in SUBSET (1 .. k), NEW m \in Nat
  PROVE  Cardinality({j + m : j \in S}) = Cardinality(S)
<1> DEFINE T == {j + m : j \in S}
           g == [j \in S |-> j + m]
<1>1. IsFiniteSet(S) BY PartsFinite
<1>2. g \in Bijection(S, T)
  <2>1. \A i, j \in S : g[i] = g[j] => i = j OBVIOUS
  <2>2. g \in [S -> T] OBVIOUS
  <2>3. g \in Injection(S, T) BY <2>1, <2>2, Fun_IsInj
  <2>4. \A t \in T : \E j \in S : g[j] = t OBVIOUS
  <2>5. g \in Surjection(S, T) BY <2>2, <2>4, Fun_IsSurj
  <2> QED BY <2>3, <2>5, Fun_IsBij
<1>3. ExistsBijection(S, T) BY <1>2 DEF ExistsBijection
<1> QED BY <1>1, <1>3, FS_Bijection

\* Counting positions up to m and the ones after it.
LEMMA PartsCount ==
  ASSUME NEW m \in Nat, NEW k \in Nat, NEW P \in SUBSET (1 .. m + k)
  PROVE  Cardinality(P) = Cardinality({j \in 1 .. m : j \in P}) + Cardinality({j \in 1 .. k : m + j \in P})
<1> DEFINE S == {j \in 1 .. m : j \in P}
           T == {j \in 1 .. k : m + j \in P}
           U == {j + m : j \in T}
<1>1. S \in SUBSET (1 .. m) /\ T \in SUBSET (1 .. k) OBVIOUS
<1>2. U \in SUBSET (1 .. k + m) /\ k + m \in Nat OBVIOUS
<1>3. S \cap U = {} OBVIOUS
<1>4. P \subseteq S \cup U
  <2>1. ASSUME NEW j \in P, j \notin S PROVE j \in U
    <3>1. j - m \in 1 .. k /\ (j - m) + m = j /\ m + (j - m) = j BY <2>1
    <3>2. j - m \in T BY <3>1
    <3> HIDE DEF T
    <3> QED BY <3>1, <3>2
  <2> QED BY <2>1
<1>5. S \subseteq P /\ U \subseteq P OBVIOUS
<1> HIDE DEF S, T
<1>6. Cardinality(U) = Cardinality(T) BY <1>1, Shifted
<1> HIDE DEF U
<1>7. /\ IsFiniteSet(S) /\ IsFiniteSet(T) /\ IsFiniteSet(U)
      /\ Cardinality(S) \in Nat /\ Cardinality(T) \in Nat
  BY <1>1, <1>2, PartsFinite
<1>8. P = S \cup U BY <1>4, <1>5
<1>9. Cardinality(S \cup U) = Cardinality(S) + Cardinality(U) - Cardinality(S \cap U)
  BY <1>7, FS_Union
<1>10. Cardinality(S \cap U) = 0 BY <1>3, FS_EmptySet
<1>11. Cardinality(P) = Cardinality(S) + Cardinality(T) BY <1>6, <1>7, <1>8, <1>9, <1>10
<1> QED BY <1>11 DEF S, T

\* Depths depend on where constructs open and end.
LEMMA DepthAgrees ==
  ASSUME NEW a, NEW b, NEW k \in Nat,
         \A j \in 1 .. k : (Opens(a[j]) <=> Opens(b[j])) /\ (a[j].op = "end" <=> b[j].op = "end")
  PROVE  Depth(a, k) = Depth(b, k)
<1>1. {j \in 1 .. k : Opens(a[j])} = {j \in 1 .. k : Opens(b[j])} OBVIOUS
<1>2. {j \in 1 .. k : a[j].op = "end"} = {j \in 1 .. k : b[j].op = "end"} OBVIOUS
<1> QED BY <1>1, <1>2 DEF Depth

LEMMA DepthZero == ASSUME NEW b PROVE Depth(b, 0) = 0
<1>1. {j \in 1 .. 0 : Opens(b[j])} = {} /\ {j \in 1 .. 0 : b[j].op = "end"} = {} OBVIOUS
<1> QED BY <1>1, FS_EmptySet DEF Depth

LEMMA ConcatIndices ==
  ASSUME NEW s \in Bodies, NEW t \in Bodies
  PROVE  /\ Len(s) \in Nat /\ Len(t) \in Nat /\ Len(s \o t) = Len(s) + Len(t)
         /\ \A i \in 1 .. Len(s) : (s \o t)[i] = s[i]
         /\ \A i \in 1 .. Len(t) : (s \o t)[Len(s) + i] = t[i]
<1> DEFINE u == s \o t
           m == Len(s)
<1>1. /\ m \in Nat /\ Len(t) \in Nat /\ Len(u) = m + Len(t)
      /\ \A i \in 1 .. m + Len(t) : u[i] = IF i <= m THEN s[i] ELSE t[i - m]
  BY ConcatProperties, LenProperties DEF Bodies
<1> HIDE DEF u, m
<1>2. \A i \in 1 .. m : u[i] = s[i] BY <1>1
<1>3. ASSUME NEW i \in 1 .. Len(t) PROVE u[m + i] = t[i]
  <2>1. m + i \in 1 .. m + Len(t) /\ ~(m + i <= m) /\ (m + i) - m = i BY <1>1
  <2> QED BY <1>1, <2>1
<1> QED BY <1>1, <1>2, <1>3 DEF u, m

LEMMA DepthConcat ==
  ASSUME NEW s \in Bodies, NEW t \in Bodies
  PROVE  /\ \A k \in 0 .. Len(s) : Depth(s \o t, k) = Depth(s, k)
         /\ \A k \in 0 .. Len(t) : Depth(s \o t, Len(s) + k) = Depth(s, Len(s)) + Depth(t, k)
<1> DEFINE u == s \o t
           m == Len(s)
<1>1. /\ m \in Nat /\ Len(t) \in Nat
      /\ \A i \in 1 .. m : u[i] = s[i]
      /\ \A i \in 1 .. Len(t) : u[m + i] = t[i]
  BY ConcatIndices
<1> HIDE DEF u, m
<1>2. ASSUME NEW k \in 0 .. m PROVE Depth(u, k) = Depth(s, k)
  <2>1. \A j \in 1 .. k : u[j] = s[j] BY <1>1
  <2> QED BY <1>1, <2>1, DepthAgrees
<1>3. ASSUME NEW k \in 0 .. Len(t) PROVE Depth(u, m + k) = Depth(s, m) + Depth(t, k)
  <2>1. k \in Nat /\ \A j \in 1 .. k : j \in 1 .. Len(t) BY <1>1
  <2> DEFINE P == {j \in 1 .. m + k : Opens(u[j])}
             Q == {j \in 1 .. m + k : u[j].op = "end"}
             A == {j \in 1 .. m : j \in P}
             B == {j \in 1 .. k : m + j \in P}
             E == {j \in 1 .. m : j \in Q}
             F == {j \in 1 .. k : m + j \in Q}
  <2>2. \A j \in 1 .. m : j \in 1 .. m + k /\ u[j] = s[j] BY <1>1, <2>1
  <2>3. \A j \in 1 .. k : m + j \in 1 .. m + k /\ u[m + j] = t[j] BY <1>1, <2>1
  <2>4. A = {j \in 1 .. m : Opens(s[j])} /\ E = {j \in 1 .. m : s[j].op = "end"} BY <2>2
  <2>5. B = {j \in 1 .. k : Opens(t[j])} /\ F = {j \in 1 .. k : t[j].op = "end"} BY <2>3
  <2>6. /\ Depth(u, m + k) = Cardinality(P) - Cardinality(Q)
        /\ Depth(s, m) = Cardinality(A) - Cardinality(E)
        /\ Depth(t, k) = Cardinality(B) - Cardinality(F)
    BY <2>4, <2>5 DEF Depth
  <2>7. /\ P \in SUBSET (1 .. m + k) /\ Q \in SUBSET (1 .. m + k)
        /\ A \in SUBSET (1 .. m) /\ E \in SUBSET (1 .. m)
        /\ B \in SUBSET (1 .. k) /\ F \in SUBSET (1 .. k)
    OBVIOUS
  <2> HIDE DEF P, Q
  <2>8. Cardinality(P) = Cardinality(A) + Cardinality(B) BY <1>1, <2>1, <2>7, PartsCount
  <2>9. Cardinality(Q) = Cardinality(E) + Cardinality(F) BY <1>1, <2>1, <2>7, PartsCount
  <2> HIDE DEF A, B, E, F
  <2>10. /\ Cardinality(A) \in Nat /\ Cardinality(B) \in Nat
         /\ Cardinality(E) \in Nat /\ Cardinality(F) \in Nat
    BY <1>1, <2>1, <2>7, PartsFinite
  <2> QED BY <2>6, <2>8, <2>9, <2>10
<1>4. \A k \in 0 .. m : Depth(u, k) = Depth(s, k) BY <1>2
<1>5. \A k \in 0 .. Len(t) : Depth(u, m + k) = Depth(s, m) + Depth(t, k) BY <1>3
<1> QED BY <1>4, <1>5 DEF u, m

\* One operator more.
Change(i) == (IF Opens(i) THEN 1 ELSE 0) - (IF i.op = "end" THEN 1 ELSE 0)

LEMMA DepthOfOne == ASSUME NEW i PROVE Depth(<<i>>, 1) = Change(i)
<1> DEFINE s == <<i>>
           A == {j \in 1 .. 1 : Opens(s[j])}
           E == {j \in 1 .. 1 : s[j].op = "end"}
<1>1. s[1] = i OBVIOUS
<1> HIDE DEF s
<1>2. A = (IF Opens(i) THEN {1} ELSE {}) /\ E = (IF i.op = "end" THEN {1} ELSE {}) BY <1>1
<1>3. Cardinality({1}) = 1 /\ Cardinality({}) = 0 BY FS_Singleton, FS_EmptySet
<1>4. Depth(s, 1) = Cardinality(A) - Cardinality(E) BY DEF Depth
<1> HIDE DEF A, E
<1>5. Cardinality(A) = (IF Opens(i) THEN 1 ELSE 0) /\ Cardinality(E) = (IF i.op = "end" THEN 1 ELSE 0)
  BY <1>2, <1>3
<1> QED BY <1>4, <1>5 DEF s, Change

LEMMA DepthStep ==
  ASSUME NEW b \in Bodies, NEW k \in 1 .. Len(b)
  PROVE  Depth(b, k) = Depth(b, k-1) + Change(b[k])
<1> DEFINE A == {j \in 1 .. k-1 : Opens(b[j])}
           E == {j \in 1 .. k-1 : b[j].op = "end"}
           A1 == {j \in 1 .. k : Opens(b[j])}
           E1 == {j \in 1 .. k : b[j].op = "end"}
<1>1. k \in Nat /\ k-1 \in Nat BY LenProperties DEF Bodies
<1>2. /\ A1 = IF Opens(b[k]) THEN A \cup {k} ELSE A
      /\ E1 = IF b[k].op = "end" THEN E \cup {k} ELSE E
  BY <1>1
<1>3. k \notin A /\ k \notin E /\ A \in SUBSET (1 .. k-1) /\ E \in SUBSET (1 .. k-1) BY <1>1
<1>4. Depth(b, k) = Cardinality(A1) - Cardinality(E1) /\ Depth(b, k-1) = Cardinality(A) - Cardinality(E)
  BY DEF Depth
<1> HIDE DEF A, E, A1, E1
<1>5. IsFiniteSet(A) /\ IsFiniteSet(E) /\ Cardinality(A) \in Nat /\ Cardinality(E) \in Nat
  BY <1>1, <1>3, PartsFinite
<1>6. Cardinality(A \cup {k}) = Cardinality(A) + 1 /\ Cardinality(E \cup {k}) = Cardinality(E) + 1
  BY <1>3, <1>5, FS_AddElement
<1> QED BY <1>2, <1>4, <1>5, <1>6 DEF Change

-----------------------------------------------------------------------------
(* Pieces of a body *)

\* What ValidBody asks of the operator at k, of bodies with bound locals that
\* call what is in C.
Fits(b, k, bound, C) ==
  /\ b[k].op \in LocalOps  => b[k].n < bound
  /\ b[k].op \in BranchOps => b[k].n <= Depth(b, k)
  /\ b[k].op = "call" => b[k].n \in C

\* A piece that leaves no construct it did not enter.
Piece(b, bound, C) == \A k \in 1 .. Len(b) : Depth(b, k) >= 0 /\ Fits(b, k, bound, C)

LEMMA DepthAtEnd == ASSUME NEW b \in Bodies, NEW bound, NEW C, Piece(b, bound, C) PROVE Depth(b, Len(b)) >= 0
<1>1. Len(b) \in Nat BY LenProperties DEF Bodies
<1>2. CASE Len(b) = 0 BY <1>2, DepthZero
<1>3. CASE Len(b) # 0 BY <1>1, <1>3 DEF Piece
<1> QED BY <1>2, <1>3

LEMMA PiecesConcat ==
  ASSUME NEW s \in Bodies, NEW t \in Bodies, NEW bound, NEW C,
         Piece(s, bound, C), Piece(t, bound, C)
  PROVE  /\ Piece(s \o t, bound, C)
         /\ Depth(s \o t, Len(s \o t)) = Depth(s, Len(s)) + Depth(t, Len(t))
<1> DEFINE u == s \o t
           m == Len(s)
           n == Len(t)
           d == Depth(s, m)
<1>1. /\ m \in Nat /\ n \in Nat /\ Len(u) = m + n
      /\ \A i \in 1 .. m : u[i] = s[i]
      /\ \A i \in 1 .. n : u[m + i] = t[i]
  BY ConcatIndices
<1>2. /\ \A k \in 0 .. m : Depth(u, k) = Depth(s, k)
      /\ \A k \in 0 .. n : Depth(u, m + k) = d + Depth(t, k)
  BY DepthConcat
<1>3. d \in Int /\ d >= 0 BY <1>1, DepthAtEnd, DepthType
<1> HIDE DEF u, d
<1>4. ASSUME NEW k \in 1 .. m + n PROVE Depth(u, k) >= 0 /\ Fits(u, k, bound, C)
  <2>1. CASE k \in 1 .. m
    <3>1. u[k] = s[k] /\ Depth(u, k) = Depth(s, k) BY <1>1, <1>2, <2>1
    <3> QED BY <2>1, <3>1 DEF Piece, Fits
  <2>2. CASE k \notin 1 .. m
    <3> DEFINE j == k - m
    <3>1. j \in 1 .. n /\ k = m + j BY <1>1, <2>2
    <3> HIDE DEF j
    <3>2. u[k] = t[j] /\ Depth(u, k) = d + Depth(t, j) BY <1>1, <1>2, <3>1
    <3>3. Depth(t, j) \in Int /\ Depth(t, j) >= 0 /\ Fits(t, j, bound, C)
      BY <3>1, DepthType DEF Piece
    <3>4. t[j] \in Code BY <3>1, ElementOfSeq DEF Bodies
    <3>5. t[j].n \in Int BY <3>4 DEF Code
    <3> QED BY <1>3, <3>2, <3>3, <3>5 DEF Fits
  <2> QED BY <2>1, <2>2
<1>5. Depth(u, m + n) = d + Depth(t, n) BY <1>1, <1>2
<1> QED BY <1>1, <1>4, <1>5 DEF Piece, u, d

\* One operator behind a piece: it need not be a piece any more.
LEMMA PieceAppend ==
  ASSUME NEW s \in Bodies, NEW i \in Code, NEW bound, NEW C, Piece(s, bound, C),
         i.op \in LocalOps => i.n < bound,
         i.op \in BranchOps => i.n <= Depth(s, Len(s)) + Change(i),
         i.op = "call" => i.n \in C
  PROVE  LET u == Append(s, i) IN
         /\ Len(u) = Len(s) + 1 /\ Len(s) \in Nat
         /\ \A k \in 1 .. Len(s) : Depth(u, k) >= 0
         /\ \A k \in 1 .. Len(u) : Fits(u, k, bound, C)
         /\ Depth(u, Len(u)) = Depth(s, Len(s)) + Change(i)
<1> DEFINE u == Append(s, i)
           m == Len(s)
           d == Depth(s, m)
           one == <<i>>
<1>1. /\ m \in Nat /\ Len(u) = m + 1 /\ u[m + 1] = i
      /\ \A k \in 1 .. m : u[k] = s[k]
  BY AppendProperties, LenProperties DEF Bodies
<1>2. u = s \o one /\ one \in Bodies /\ Len(one) = 1
  <2>1. u = s \o one BY AppendIsConcat DEF Bodies
  <2>2. one \in Seq(Code) /\ Len(one) = 1 OBVIOUS
  <2> QED BY <2>1, <2>2 DEF Bodies
<1> HIDE DEF u, one
<1>3. /\ \A k \in 0 .. m : Depth(u, k) = Depth(s, k)
      /\ \A k \in 0 .. 1 : Depth(u, m + k) = d + Depth(one, k)
  BY <1>2, DepthConcat
<1>4. Depth(u, m + 1) = d + Change(i) BY <1>3, DepthOfOne DEF one
<1> HIDE DEF d
<1>5. ASSUME NEW k \in 1 .. m PROVE Depth(u, k) >= 0 /\ Fits(u, k, bound, C)
  <2>1. u[k] = s[k] /\ Depth(u, k) = Depth(s, k) BY <1>1, <1>3
  <2> QED BY <2>1 DEF Piece, Fits
<1>6. Fits(u, m + 1, bound, C) BY <1>1, <1>4 DEF Fits, d
<1>7. \A k \in 1 .. Len(u) : k \in 1 .. m \/ k = m + 1 BY <1>1
<1> QED BY <1>1, <1>4, <1>5, <1>6, <1>7 DEF u, d

LEMMA PieceGrows ==
  ASSUME NEW b \in Bodies, NEW lo \in Int, NEW hi \in Int, lo <= hi, NEW C, Piece(b, lo, C)
  PROVE  Piece(b, hi, C)
<1> SUFFICES ASSUME NEW k \in 1 .. Len(b) PROVE Depth(b, k) >= 0 /\ Fits(b, k, hi, C)
  BY DEF Piece
<1>1. b[k] \in Code BY ElementOfSeq DEF Bodies
<1>2. b[k].n \in Int BY <1>1 DEF Code
<1> QED BY <1>2 DEF Piece, Fits

\* A valid body ends in the "end" that closes it.
LEMMA ValidEnds ==
  ASSUME NEW f, NEW C, f.body \in Bodies, ValidBody(f, C)
  PROVE  LET b == f.body
             n == Len(b) IN
         /\ n \in Nat \ {0} /\ b[n].op = "end" /\ Depth(b, n-1) = 0 /\ Depth(b, n) = -1
         /\ \A k \in 0 .. n-1 : Depth(b, k) >= 0
         /\ \A k \in 1 .. n : Fits(b, k, f.params + f.extra, C)
<1> DEFINE b == f.body
           n == Len(b)
<1>1. n \in Nat \ {0} /\ Depth(b, n) = -1
  <2>1. b # <<>> /\ Depth(b, n) = -1 BY DEF ValidBody
  <2> QED BY <2>1, EmptySeq, LenProperties DEF Bodies
<1>2. ASSUME NEW k \in 0 .. n-1 PROVE Depth(b, k) >= 0
  <2>1. CASE k = 0 BY <2>1, DepthZero
  <2>2. CASE k # 0 BY <1>1, <2>2 DEF ValidBody
  <2> QED BY <2>1, <2>2
<1>3. \A k \in 1 .. n : Fits(b, k, f.params + f.extra, C) BY DEF ValidBody, Fits
<1>4. Depth(b, n) = Depth(b, n-1) + Change(b[n]) BY <1>1, DepthStep
<1>5. n-1 \in Nat /\ n-1 \in 0 .. n-1 BY <1>1
<1>6. Depth(b, n-1) \in Int /\ Depth(b, n-1) >= 0 BY <1>2, <1>5, DepthType
<1> HIDE DEF b, n
<1>7. b[n].op = "end" /\ Depth(b, n-1) = 0 BY <1>1, <1>4, <1>6 DEF Change
<1> QED BY <1>1, <1>2, <1>3, <1>7 DEF b, n

-----------------------------------------------------------------------------
(* A spliced body is a piece *)

LEMMA SpilledPiece ==
  ASSUME NEW f, f.body \in Bodies, f.params \in Nat, f.result \in Int,
         NEW args \in Nat, NEW bound \in Int, args + f.params <= bound, NEW C
  PROVE  LET s == Spilled(f, args) IN
         s \in Bodies /\ Piece(s, bound, C) /\ Depth(s, Len(s)) = 0
<1> DEFINE s == Spilled(f, args)
<1>0. args \in Int /\ 0 \in Int OBVIOUS
<1>1. s \in Bodies BY <1>0, InlinedParts
<1>2. Len(s) = f.params /\ \A k \in 1 .. f.params : s[k] = I("set", args + (f.params - k))
  BY DEF Spilled
<1>3. \A k \in 1 .. f.params : s[k].op = "set" /\ s[k].n = args + (f.params - k)
  <2> SUFFICES ASSUME NEW k \in 1 .. f.params
               PROVE  s[k].op = "set" /\ s[k].n = args + (f.params - k)
    OBVIOUS
  <2>1. s[k] = I("set", args + (f.params - k)) BY <1>2
  <2>2. I("set", args + (f.params - k)).op = "set" /\ I("set", args + (f.params - k)).n = args + (f.params - k)
    BY DEF I
  <2> HIDE DEF s
  <2> QED BY <2>1, <2>2
<1> HIDE DEF s
<1>4. ASSUME NEW k \in 0 .. f.params PROVE Depth(s, k) = 0
  <2>1. \A j \in 1 .. k : s[j].op = "set" BY <1>3
  <2>2. {j \in 1 .. k : Opens(s[j])} = {} /\ {j \in 1 .. k : s[j].op = "end"} = {}
    BY <2>1 DEF Opens
  <2>3. Cardinality({}) = 0 BY FS_EmptySet
  <2>4. Depth(s, k) = Cardinality({j \in 1 .. k : Opens(s[j])})
                      - Cardinality({j \in 1 .. k : s[j].op = "end"})
    BY DEF Depth
  <2>5. Depth(s, k) = Cardinality({}) - Cardinality({}) BY <2>2, <2>4
  <2> QED BY <2>3, <2>5
<1>5. \A k \in 1 .. f.params : Fits(s, k, bound, C)
  BY <1>3 DEF Fits, LocalOps, BranchOps
<1> QED BY <1>1, <1>2, <1>4, <1>5 DEF Piece, s

\* What renaming does to an operator that fits.
LEMMA RenamedFits ==
  ASSUME NEW f \in Flat, NEW args \in Nat, NEW C, NEW k \in 1 .. Len(f.body),
         Fits(f.body, k, f.params + f.extra, C),
         NEW u, u[k] = Renamed(f, args, args + f.params, k), Depth(u, k) = Depth(f.body, k)
  PROVE  Fits(u, k, args + f.params + f.extra, C)
<1> DEFINE i == f.body[k]
           r == Renamed(f, args, args + f.params, k)
<1>1. /\ f.body \in Bodies /\ f.params \in Nat /\ f.extra \in Nat /\ f.result \in Int
      /\ args \in Int /\ args + f.params \in Int
  BY DEF Flat
<1>2. /\ i.n \in Int /\ r.op = i.op
      /\ i.op \notin LocalOps => r = i
  BY <1>1, InlinedParts
<1>3. ASSUME i.op \in LocalOps PROVE r.n < args + f.params + f.extra
  <2>1. r.n = RemapLocal(f, args, args + f.params, i.n)
    BY <1>3 DEF Renamed, I
  <2>2. i.n < f.params + f.extra BY <1>3 DEF Fits
  <2> HIDE DEF r, i
  <2> QED BY <1>1, <1>2, <2>1, <2>2 DEF RemapLocal
<1>4. LocalOps \cap BranchOps = {} /\ "call" \notin LocalOps BY DEF LocalOps, BranchOps
<1> QED BY <1>2, <1>3, <1>4 DEF Fits

LEMMA InlinedPiece ==
  ASSUME NEW f \in Flat, NEW args \in Nat, NEW C, ValidBody(f, C)
  PROVE  LET p == Inlined(f, args, args + f.params) IN
         /\ p \in Bodies /\ Piece(p, args + f.params + f.extra, C)
         /\ Depth(p, Len(p)) = 0
<1> DEFINE b == f.body
           n == Len(b)
           base == args + f.params
           bound == args + f.params + f.extra
           spilled == Spilled(f, args)
           open == I("block", f.result)
           rewritten == Rewritten(f, args, base)
           bare(m) == Bare(f, args, base, m)
           Whole(p) == p \in Bodies /\ Piece(p, bound, C) /\ Depth(p, Len(p)) = 0
<1>1. /\ b \in Bodies /\ f.params \in Nat /\ f.extra \in Nat /\ f.result \in Int
      /\ args \in Int /\ base \in Int /\ bound \in Int /\ base <= bound
  BY DEF Flat
<1>2. /\ DOMAIN b = 1 .. n
      /\ \A k \in 1 .. n : Renamed(f, args, base, k).op = b[k].op
      /\ \A k \in 1 .. n : Depth(b, k) \in Int
      /\ rewritten \in Bodies /\ <<open>> \in Bodies
      /\ \A m \in Int : m <= n => bare(m) \in Bodies
  BY <1>1, InlinedParts
<1>3. /\ n \in Nat \ {0} /\ Depth(b, n-1) = 0 /\ Depth(b, n) = -1
      /\ \A k \in 0 .. n-1 : Depth(b, k) >= 0
      /\ \A k \in 1 .. n : Fits(b, k, f.params + f.extra, C)
  BY <1>1, ValidEnds
<1>4. Whole(spilled) BY <1>1, SpilledPiece
<1>5. ASSUME NEW m \in 0 .. n-1, Depth(b, m) = 0 PROVE Whole(bare(m))
  <2> DEFINE r == bare(m)
  <2>1. m \in Int /\ m <= n /\ m \in Nat BY <1>3, <1>5
  <2>2. Len(r) = m /\ \A k \in 1 .. m : r[k] = Renamed(f, args, base, k)
    BY <2>1 DEF Bare
  <2>3. \A k \in 1 .. m : k \in 1 .. n /\ k \in 0 .. n-1 BY <1>3, <1>5
  <2>4. r \in Bodies BY <1>2, <2>1
  <2> HIDE DEF r
  <2>5. ASSUME NEW k \in 0 .. m PROVE Depth(r, k) = Depth(b, k)
    <3>1. \A j \in 1 .. k : r[j].op = b[j].op BY <1>2, <2>1, <2>2, <2>3
    <3>2. k \in Nat OBVIOUS
    <3> QED BY <3>1, <3>2, DepthAgrees DEF Opens
  <2>6. ASSUME NEW k \in 1 .. m PROVE Depth(r, k) >= 0 /\ Fits(r, k, bound, C)
    <3>1. Depth(r, k) = Depth(b, k) BY <2>1, <2>5
    <3>2. Fits(r, k, bound, C) BY <1>3, <2>2, <2>3, <3>1, RenamedFits
    <3> QED BY <1>3, <2>3, <3>1, <3>2
  <2>7. Depth(r, m) = 0 BY <1>5, <2>1, <2>5
  <2> QED BY <2>2, <2>4, <2>6, <2>7 DEF r, Piece
<1>6. Whole(<<open>> \o rewritten)
  <2> DEFINE u == <<open>> \o rewritten
  <2>1. Len(rewritten) = n
        /\ \A k \in 1 .. n : rewritten[k] = IF b[k].op = "ret" THEN I("br", Depth(b, k))
                                             ELSE Renamed(f, args, base, k)
    BY <1>3 DEF Rewritten
  <2>2. Len(<<open>>) = 1 /\ <<open>>[1] = open /\ open.op = "block" BY DEF I
  <2>3. Depth(<<open>>, 0) = 0 /\ Depth(<<open>>, 1) = 1
    BY <2>2, DepthZero, DepthOfOne DEF Change, Opens
  <2>4. ASSUME NEW k \in 0 .. n PROVE Depth(rewritten, k) = Depth(b, k)
    <3>1. \A j \in 1 .. k : j \in 1 .. n BY <1>3
    <3>2. ASSUME NEW j \in 1 .. k
          PROVE  (Opens(rewritten[j]) <=> Opens(b[j])) /\ (rewritten[j].op = "end" <=> b[j].op = "end")
      <4>1. CASE b[j].op = "ret"
        <5>1. rewritten[j] = I("br", Depth(b, j)) BY <2>1, <3>1, <4>1
        <5>2. rewritten[j].op = "br" BY <5>1 DEF I
        <5> QED BY <4>1, <5>2 DEF Opens
      <4>2. CASE b[j].op # "ret" BY <1>2, <2>1, <3>1, <4>2 DEF Opens
      <4> QED BY <4>1, <4>2
    <3>3. k \in Nat OBVIOUS
    <3> HIDE DEF rewritten
    <3> QED BY <3>2, <3>3, DepthAgrees
  <2> HIDE DEF rewritten, open
  <2>5. /\ u \in Bodies /\ Len(u) = 1 + n /\ u[1] = open
        /\ \A k \in 1 .. n : u[1 + k] = rewritten[k]
    <3>1. u \in Bodies BY <1>2, ConcatProperties DEF Bodies
    <3>2. 1 \in 1 .. 1 OBVIOUS
    <3> QED BY <1>2, <2>1, <2>2, <3>1, <3>2, ConcatIndices
  <2>6. /\ \A k \in 0 .. 1 : Depth(u, k) = Depth(<<open>>, k)
        /\ \A k \in 0 .. n : Depth(u, 1 + k) = 1 + Depth(rewritten, k)
    <3>1. /\ \A k \in 0 .. Len(<<open>>) : Depth(u, k) = Depth(<<open>>, k)
          /\ \A k \in 0 .. Len(rewritten) :
               Depth(u, Len(<<open>>) + k) = Depth(<<open>>, Len(<<open>>)) + Depth(rewritten, k)
      BY <1>2, DepthConcat
    <3> HIDE DEF u
    <3> QED BY <2>1, <2>2, <2>3, <3>1
  <2> HIDE DEF u
  <2>7. Depth(u, 1) = 1 BY <2>3, <2>6
  <2>8. \A k \in 0 .. n : Depth(u, 1 + k) = 1 + Depth(b, k) BY <2>4, <2>6
  <2>9. ASSUME NEW k \in 1 .. n PROVE Depth(u, 1 + k) >= 0 /\ Fits(u, 1 + k, bound, C)
    <3>1. Depth(b, k) \in Int /\ Depth(b, k) >= -1
      <4>1. k \in 0 .. n-1 \/ k = n BY <1>3
      <4> QED BY <1>2, <1>3, <4>1
    <3>2. Depth(u, 1 + k) = 1 + Depth(b, k) BY <2>8
    <3>3. CASE b[k].op = "ret"
      <4>1. u[1 + k].op = "br" /\ u[1 + k].n = Depth(b, k)
        <5>1. u[1 + k] = I("br", Depth(b, k)) BY <2>1, <2>5, <3>3
        <5> QED BY <5>1 DEF I
      <4> QED BY <3>1, <3>2, <4>1 DEF Fits, LocalOps, BranchOps
    <3>4. CASE b[k].op # "ret"
      <4>1. rewritten[k] = Renamed(f, args, base, k) BY <2>1, <3>4
      <4>2. Depth(rewritten, k) = Depth(b, k) BY <2>4
      <4>3. Fits(rewritten, k, bound, C) BY <1>3, <4>1, <4>2, RenamedFits
      <4>4. rewritten[k] \in Code BY <1>2, <2>1, ElementOfSeq DEF Bodies
      <4>5. rewritten[k].n \in Int BY <4>4 DEF Code
      <4>6. u[1 + k] = rewritten[k] BY <2>5
      <4> QED BY <3>1, <3>2, <4>2, <4>3, <4>5, <4>6 DEF Fits
    <3> QED BY <3>1, <3>2, <3>3, <3>4
  <2>10. Fits(u, 1, bound, C) BY <2>2, <2>5 DEF Fits, LocalOps, BranchOps
  <2>11. ASSUME NEW k \in 1 .. 1 + n PROVE Depth(u, k) >= 0 /\ Fits(u, k, bound, C)
    <3>1. k = 1 \/ (k - 1 \in 1 .. n /\ 1 + (k - 1) = k) BY <1>3
    <3>2. CASE k = 1 BY <2>7, <2>10, <3>2
    <3>3. CASE k - 1 \in 1 .. n /\ 1 + (k - 1) = k
      <4>1. Depth(u, 1 + (k-1)) >= 0 /\ Fits(u, 1 + (k-1), bound, C) BY <2>9, <3>3
      <4> QED BY <3>3, <4>1
    <3> QED BY <3>1, <3>2, <3>3
  <2>12. Depth(u, 1 + n) = 0 BY <1>3, <2>8
  <2> QED BY <2>5, <2>11, <2>12 DEF Piece, u
<1>7. Shape(b) = "TrailingOnly" => n-2 \in 0 .. n-1 /\ Depth(b, n-2) = 0
  <2> SUFFICES ASSUME Shape(b) = "TrailingOnly" PROVE n-2 \in 0 .. n-1 /\ Depth(b, n-2) = 0
    OBVIOUS
  <2> DEFINE rets == {k \in DOMAIN b : b[k].op = "ret"}
  <2>1. rets = {n-1}
    <3>1. ~(rets = {}) /\ (rets = {n-1} \/ ~(rets = {n-1} /\ Depth(b, n-1) = 0))
      BY DEF Shape
    <3> QED BY <3>1 DEF Shape
  <2>2. n-1 \in 1 .. n /\ b[n-1].op = "ret" BY <1>2, <2>1
  <2>3. Depth(b, n-1) = Depth(b, (n-1)-1) + Change(b[n-1]) BY <1>1, <2>2, DepthStep
  <2>4. Change(b[n-1]) = 0 BY <2>2 DEF Change, Opens
  <2>5. (n-1)-1 = n-2 /\ n-2 \in 0 .. n-1 /\ n-2 \in Nat BY <1>3, <2>2
  <2>6. Depth(b, n-2) \in Int BY <2>5, DepthType
  <2> QED BY <1>3, <2>3, <2>4, <2>5, <2>6
<1>8. n-1 \in 0 .. n-1 BY <1>3
<1> HIDE DEF bound, spilled, open, rewritten, bare, n
<1>9. ASSUME NEW r, Whole(r) PROVE Whole(spilled \o r)
  <2>1. spilled \o r \in Bodies BY <1>4, <1>9, ConcatProperties DEF Bodies
  <2>2. /\ Piece(spilled \o r, bound, C)
        /\ Depth(spilled \o r, Len(spilled \o r)) = Depth(spilled, Len(spilled)) + Depth(r, Len(r))
    BY <1>4, <1>9, PiecesConcat
  <2> QED BY <1>4, <1>9, <2>1, <2>2
<1> DEFINE p == Inlined(f, args, base)
<1>10. CASE Shape(b) = "NeedsWrapper"
  <2>1. p = spilled \o (<<open>> \o rewritten)
    BY <1>10, InlinedIs DEF spilled, open, rewritten, Wrapped
  <2>2. Whole(spilled \o (<<open>> \o rewritten)) BY <1>6, <1>9
  <2> QED BY <2>1, <2>2 DEF bound
<1>11. CASE Shape(b) = "TrailingOnly"
  <2>1. p = spilled \o bare(n-2) BY <1>11, InlinedIs DEF spilled, bare, n
  <2>2. Whole(spilled \o bare(n-2)) BY <1>5, <1>7, <1>9, <1>11
  <2> QED BY <2>1, <2>2 DEF bound
<1>12. CASE Shape(b) = "NoReturn"
  <2>1. p = spilled \o bare(n-1) BY <1>12, InlinedIs DEF spilled, bare, n
  <2>2. Whole(spilled \o bare(n-1)) BY <1>3, <1>5, <1>8, <1>9
  <2> QED BY <2>1, <2>2 DEF bound
<1> QED BY <1>10, <1>11, <1>12, InlinedIs

-----------------------------------------------------------------------------
(* Bodies stay valid *)

\* What a body may call while the pass runs.
Names == 0 .. NImp(prog)-1 \cup Defined

\* The body being written has got as deep as the operators it was copied and
\* spliced from, and does not end before they do.
Writing ==
  LET o == prog.funcs[at]
      m == Len(o.body) - Len(rest) IN
  /\ m \in Nat /\ \A i \in 1 .. Len(rest) : rest[i] = o.body[m + i]
  /\ o.params + o.extra <= cur.params + cur.extra
  /\ Depth(cur.body, Len(cur.body)) = Depth(o.body, m)
  /\ rest # <<>> => Piece(cur.body, cur.params + cur.extra, Names)
  /\ rest = <<>> => ValidBody(cur, Names)

ValidInv ==
  /\ pc \in {"inline", "types", "done"} => prog.hook # None
  /\ pc = "inline" =>
       /\ \A f \in DOMAIN funcs : ValidBody(funcs[f], Names)
       /\ at # None => Writing
  /\ pc \in {"types", "done"} =>
       /\ DOMAIN funcs = Defined
       /\ \A f \in Defined : ValidBody(funcs[f], 0 .. NImp(prog)-1)

LEMMA InputsValid ==
  ASSUME prog \in Programs
  PROVE  /\ \A f \in Defined : prog.funcs[f] \in Flat /\ ValidBody(prog.funcs[f], Names)
         /\ {prog.hook, prog.cbak} \subseteq Defined \cup {None} /\ None \notin Defined
         /\ prog.imports \in Seq(Import) /\ NImp(prog) \in Nat
<1>1. prog.imports \in Seq(Import) BY FlattenInputs
<1>2. NImp(prog) \in Nat BY <1>1, LenProperties DEF NImp
<1>3. \A f \in Defined : ValidBody(prog.funcs[f], Names)
  BY FlattenInputs DEF Defined, Names, NImp
<1> QED BY <1>1, <1>2, <1>3, InputsType, FlattenInputs DEF Defined

\* Without calls of defined functions a body is valid where there are none.
LEMMA CleanValid ==
  ASSUME NEW f, ValidBody(f, Names), Clean(f.body), f.body \in Bodies
  PROVE  ValidBody(f, 0 .. NImp(prog)-1)
<1>1. \A k \in 1 .. Len(f.body) : f.body[k].op = "call" => f.body[k].n \in 0 .. NImp(prog)-1
  <2>1. DOMAIN f.body = 1 .. Len(f.body) BY LenProperties DEF Bodies
  <2> QED BY <2>1 DEF ValidBody, Names, Clean, Calls
<1> QED BY <1>1 DEF ValidBody

\* The next operator to be copied is the original's at the same depth.
LEMMA NextOperator ==
  ASSUME InlineTypes, at \in Defined, Writing, rest # <<>>
  PROVE  LET o == prog.funcs[at]
             m == Len(o.body) - Len(rest) IN
         /\ o \in Flat /\ m \in Nat /\ m + 1 \in 1 .. Len(o.body) /\ rest[1] = o.body[m + 1]
         /\ rest[1] \in Code /\ Fits(o.body, m + 1, o.params + o.extra, Names)
         /\ Depth(o.body, m + 1) = Depth(o.body, m) + Change(rest[1])
         /\ Depth(o.body, m + 1) \in Int /\ Depth(o.body, m) \in Int
         /\ m + 1 < Len(o.body) => Depth(o.body, m + 1) >= 0
         /\ m + 1 = Len(o.body) => rest[1].op = "end" /\ Depth(o.body, m + 1) = -1
         /\ Len(o.body) - Len(Tail(rest)) = m + 1
         /\ \A i \in 1 .. Len(Tail(rest)) : Tail(rest)[i] = o.body[m + 1 + i]
         /\ Tail(rest) = <<>> <=> m + 1 = Len(o.body)
<1> DEFINE o == prog.funcs[at]
           n == Len(o.body)
           m == n - Len(rest)
<1>1. o \in Flat /\ ValidBody(o, Names) BY InputsValid DEF InlineTypes
<1>2. o.body \in Bodies BY <1>1 DEF Flat
<1>3. /\ n \in Nat \ {0} /\ o.body[n].op = "end" /\ Depth(o.body, n) = -1
      /\ \A k \in 0 .. n-1 : Depth(o.body, k) >= 0
      /\ \A k \in 1 .. n : Fits(o.body, k, o.params + o.extra, Names)
  BY <1>1, <1>2, ValidEnds
<1>4. /\ rest[1] \in Code /\ Len(rest) \in Nat /\ 1 \in DOMAIN rest /\ DOMAIN rest = 1 .. Len(rest)
      /\ Tail(rest) \in Bodies /\ DOMAIN Tail(rest) = 1 .. Len(rest)-1
      /\ \A i \in 1 .. Len(rest)-1 : i+1 \in DOMAIN rest /\ Tail(rest)[i] = rest[i+1]
  BY TailOf DEF InlineTypes, Bodies
<1>5. m \in Nat /\ \A i \in 1 .. Len(rest) : rest[i] = o.body[m + i] BY DEF Writing
<1>6. Len(Tail(rest)) = Len(rest) - 1
  <2>1. Len(Tail(rest)) \in Nat /\ DOMAIN Tail(rest) = 1 .. Len(Tail(rest))
    BY <1>4, LenProperties DEF Bodies
  <2>2. Tail(rest) = <<>> <=> Len(Tail(rest)) = 0 BY <1>4, EmptySeq DEF Bodies
  <2> QED BY HeadTailProperties DEF InlineTypes, Bodies
<1>7. Tail(rest) = <<>> <=> Len(Tail(rest)) = 0 BY <1>4, EmptySeq DEF Bodies
<1> DEFINE b == o.body
<1> HIDE DEF b
<1>8. b = o.body BY DEF b
<1> HIDE DEF o, n
<1>9. m + 1 \in 1 .. n /\ rest[1] = b[m + 1] /\ n - Len(Tail(rest)) = m + 1
      /\ (Tail(rest) = <<>> <=> m + 1 = n)
  BY <1>3, <1>4, <1>5, <1>6, <1>7, <1>8
<1>10. \A i \in 1 .. Len(Tail(rest)) : Tail(rest)[i] = b[m + 1 + i]
  <2> SUFFICES ASSUME NEW i \in 1 .. Len(Tail(rest)) PROVE Tail(rest)[i] = b[m + 1 + i]
    OBVIOUS
  <2>1. i \in 1 .. Len(rest)-1 /\ i + 1 \in 1 .. Len(rest) BY <1>4, <1>6
  <2>2. Tail(rest)[i] = rest[i + 1] BY <1>4, <2>1
  <2>3. rest[i + 1] = b[m + (i + 1)] BY <1>5, <1>8, <2>1
  <2>4. m + (i + 1) = m + 1 + i BY <1>5
  <2> QED BY <2>2, <2>3, <2>4
<1>11. Depth(b, m + 1) = Depth(b, m) + Change(b[m + 1])
  <2>1. m + 1 \in 1 .. Len(b) BY <1>8, <1>9 DEF n
  <2>2. Depth(b, m + 1) = Depth(b, (m + 1) - 1) + Change(b[m + 1]) BY <1>2, <1>8, <2>1, DepthStep
  <2>3. (m + 1) - 1 = m BY <1>5
  <2> QED BY <2>2, <2>3
<1>12. Depth(b, m + 1) \in Int /\ Depth(b, m) \in Int BY <1>5, DepthType
<1>13. m + 1 < n => Depth(b, m + 1) >= 0
  <2>1. m + 1 < n => m + 1 \in 0 .. n-1 BY <1>3, <1>5
  <2> QED BY <1>3, <1>8, <2>1
<1>14. m + 1 = n => b[m + 1].op = "end" /\ Depth(b, m + 1) = -1 BY <1>3, <1>8
<1>15. Fits(b, m + 1, o.params + o.extra, Names) BY <1>3, <1>8, <1>9
<1> QED BY <1>1, <1>4, <1>5, <1>8, <1>9, <1>10, <1>11, <1>12, <1>13, <1>14, <1>15 DEF o, n

LEMMA TakeWrites ==
  ASSUME InlineInv, InlineInv', ValidInv, Take
  PROVE  ValidInv'
<1> DEFINE f == order[1]
           o == prog.funcs[f]
<1>1. /\ pc = "inline" /\ pc' = "inline" /\ at' = f /\ order # <<>>
      /\ cur' = [funcs[f] EXCEPT !.body = <<>>] /\ rest' = funcs[f].body
      /\ funcs' = Without(funcs, f) /\ prog' = prog
  BY DEF Take
<1>2. f \in Defined /\ funcs[f] = o /\ Names' = Names
  <2>1. 1 \in DOMAIN order /\ f \in Defined BY <1>1, TailOf DEF InlineInv, InlineTypes
  <2>2. f \in ToSet(order) BY <2>1 DEF ToSet
  <2> QED BY <1>1, <2>1, <2>2 DEF InlineInv, Inlining, Names, Defined
<1>3. o \in Flat /\ ValidBody(o, Names) BY <1>2, InputsValid DEF InlineInv, InlineTypes
<1>4. /\ o.body \in Bodies /\ o.params \in Nat /\ o.extra \in Nat
      /\ cur'.params = o.params /\ cur'.extra = o.extra /\ cur'.body = <<>>
  BY <1>1, <1>2, <1>3 DEF Flat
<1> HIDE DEF o
<1>5. Len(o.body) \in Nat /\ o.body # <<>> BY <1>3, <1>4, LenProperties DEF Bodies, ValidBody
<1>6. \A g \in DOMAIN funcs' : ValidBody(funcs'[g], Names)
  BY <1>1 DEF ValidInv, Without
<1>7. Writing'
  <2>1. prog'.funcs[at'] = o BY <1>1 DEF o
  <2>2. rest' = o.body /\ Len(o.body) - Len(rest') = 0 BY <1>1, <1>2, <1>5
  <2>3. Depth(cur'.body, Len(cur'.body)) = Depth(o.body, 0)
    <3>1. Len(<<>>) = 0 OBVIOUS
    <3> QED BY <1>4, <3>1, DepthZero
  <2>4. Piece(cur'.body, cur'.params + cur'.extra, Names) BY <1>4 DEF Piece
  <2>5. \A i \in 1 .. Len(rest') : rest'[i] = o.body[0 + i] BY <2>2
  <2>6. rest' # <<>> BY <1>5, <2>2
  <2>7. o.params + o.extra <= cur'.params + cur'.extra BY <1>4
  <2> QED BY <1>2, <2>1, <2>2, <2>3, <2>4, <2>5, <2>6, <2>7 DEF Writing
<1> QED BY <1>1, <1>2, <1>6, <1>7 DEF ValidInv

LEMMA CopyWrites ==
  ASSUME InlineInv, InlineInv', ValidInv, Copy
  PROVE  ValidInv'
<1> DEFINE o == prog.funcs[at]
           m == Len(o.body) - Len(rest)
           i == rest[1]
           bound == cur.params + cur.extra
           u == Append(cur.body, i)
<1>1. /\ pc = "inline" /\ pc' = "inline" /\ at # None /\ rest # <<>>
      /\ cur' = [cur EXCEPT !.body = u] /\ rest' = Tail(rest)
      /\ UNCHANGED <<prog, order, funcs, at>>
  BY DEF Copy
<1>2. InlineTypes /\ at \in Defined /\ Writing /\ Names' = Names
  BY <1>1 DEF InlineInv, InlineTypes, ValidInv, Names, Defined
<1>3. /\ o \in Flat /\ m \in Nat /\ m + 1 \in 1 .. Len(o.body) /\ i = o.body[m + 1]
      /\ i \in Code /\ Fits(o.body, m + 1, o.params + o.extra, Names)
      /\ Depth(o.body, m + 1) = Depth(o.body, m) + Change(i)
      /\ Depth(o.body, m + 1) \in Int /\ Depth(o.body, m) \in Int
      /\ m + 1 < Len(o.body) => Depth(o.body, m + 1) >= 0
      /\ m + 1 = Len(o.body) => i.op = "end" /\ Depth(o.body, m + 1) = -1
      /\ Len(o.body) - Len(Tail(rest)) = m + 1
      /\ \A k \in 1 .. Len(Tail(rest)) : Tail(rest)[k] = o.body[m + 1 + k]
      /\ Tail(rest) = <<>> <=> m + 1 = Len(o.body)
  BY <1>1, <1>2, NextOperator
<1>4. /\ cur \in Flat /\ cur.body \in Bodies /\ cur.params \in Nat /\ cur.extra \in Nat
      /\ o.params \in Nat /\ o.extra \in Nat /\ o.params + o.extra <= bound
      /\ Depth(cur.body, Len(cur.body)) = Depth(o.body, m)
      /\ Piece(cur.body, bound, Names)
  BY <1>1, <1>2, <1>3 DEF InlineTypes, Flat, Writing
<1>5. /\ cur'.body = u /\ cur'.params = cur.params /\ cur'.extra = cur.extra
  BY <1>1, <1>4 DEF Flat
<1>6. i.n \in Int BY <1>3 DEF Code
<1> HIDE DEF i, u, m
<1>7. /\ i.op \in LocalOps => i.n < bound
      /\ i.op \in BranchOps => i.n <= Depth(cur.body, Len(cur.body)) + Change(i)
      /\ i.op = "call" => i.n \in Names
  <2>1. Fits(o.body, m + 1, o.params + o.extra, Names) /\ o.body[m + 1] = i BY <1>3
  <2>2. i.op \in LocalOps => i.n < o.params + o.extra BY <2>1 DEF Fits
  <2>3. i.op \in BranchOps => i.n <= Depth(o.body, m + 1) BY <2>1 DEF Fits
  <2>4. i.op = "call" => i.n \in Names BY <2>1 DEF Fits
  <2>5. o.params + o.extra \in Int /\ bound \in Int /\ o.params + o.extra <= bound BY <1>4
  <2>6. i.op \in LocalOps => i.n < bound
    <3> HIDE DEF o, bound
    <3> QED BY <1>4, <1>6, <2>2, <2>5
  <2>7. Depth(cur.body, Len(cur.body)) + Change(i) = Depth(o.body, m + 1) BY <1>3, <1>4
  <2> QED BY <2>3, <2>4, <2>6, <2>7
<1> HIDE DEF o, bound
<1>8. /\ Len(u) = Len(cur.body) + 1 /\ Len(cur.body) \in Nat
      /\ \A k \in 1 .. Len(cur.body) : Depth(u, k) >= 0
      /\ \A k \in 1 .. Len(u) : Fits(u, k, bound, Names)
      /\ Depth(u, Len(u)) = Depth(o.body, m + 1)
  BY <1>3, <1>4, <1>7, PieceAppend DEF u
<1>9. rest' # <<>> => Piece(u, bound, Names)
  <2> SUFFICES ASSUME rest' # <<>> PROVE Piece(u, bound, Names)
    OBVIOUS
  <2>1. Depth(u, Len(u)) >= 0
    <3>1. m + 1 < Len(o.body) BY <1>1, <1>3
    <3> QED BY <1>3, <1>8, <3>1
  <2>2. \A k \in 1 .. Len(u) : k \in 1 .. Len(cur.body) \/ k = Len(u) BY <1>8
  <2> QED BY <1>8, <2>1, <2>2 DEF Piece
<1>10. rest' = <<>> => ValidBody(cur', Names)
  <2> SUFFICES ASSUME rest' = <<>> PROVE ValidBody(cur', Names)
    OBVIOUS
  <2>1. Depth(u, Len(u)) = -1 BY <1>1, <1>3, <1>8
  <2>2. u # <<>>
    <3>1. Len(<<>>) = 0 OBVIOUS
    <3> QED BY <1>8, <3>1
  <2>3. \A k \in 1 .. Len(u)-1 : Depth(u, k) >= 0 BY <1>8
  <2> QED BY <1>5, <1>8, <2>1, <2>2, <2>3 DEF ValidBody, Fits, bound
<1>11. Writing'
  <2>1. prog'.funcs[at'] = o BY <1>1 DEF o
  <2>2. Len(o.body) - Len(rest') = m + 1 BY <1>1, <1>3
  <2>3. m + 1 \in Nat BY <1>3
  <2>4. o.params + o.extra <= cur'.params + cur'.extra BY <1>4, <1>5 DEF bound
  <2>5. rest' # <<>> => Piece(cur'.body, cur'.params + cur'.extra, Names)
    BY <1>5, <1>9 DEF bound
  <2>6. \A k \in 1 .. Len(rest') : rest'[k] = o.body[m + 1 + k] BY <1>1, <1>3
  <2>7. Depth(cur'.body, Len(cur'.body)) = Depth(o.body, m + 1) BY <1>5, <1>8
  <2> QED BY <1>2, <1>10, <2>1, <2>2, <2>3, <2>4, <2>5, <2>6, <2>7 DEF Writing
<1> QED BY <1>1, <1>2, <1>11 DEF ValidInv

LEMMA SpliceWrites ==
  ASSUME InlineInv, InlineInv', ValidInv, Splice
  PROVE  ValidInv'
<1> DEFINE o == prog.funcs[at]
           m == Len(o.body) - Len(rest)
           i == rest[1]
           callee == funcs[i.n]
           bound == cur.params + cur.extra
           wide == bound + callee.params + callee.extra
           spliced == Inlined(callee, bound, bound + callee.params)
           u == cur.body \o spliced
<1>1. /\ pc = "inline" /\ pc' = "inline" /\ at # None /\ rest # <<>>
      /\ i.op = "call" /\ i.n \in DOMAIN funcs
      /\ cur' = [cur EXCEPT !.extra = @ + callee.params + callee.extra, !.body = u]
      /\ rest' = Tail(rest) /\ UNCHANGED <<prog, order, funcs, at>>
  BY DEF Splice, Inlinable
<1>2. InlineTypes /\ at \in Defined /\ Writing /\ Names' = Names
  BY <1>1 DEF InlineInv, InlineTypes, ValidInv, Names, Defined
<1>3. /\ o \in Flat /\ m \in Nat /\ m + 1 \in 1 .. Len(o.body)
      /\ Depth(o.body, m + 1) = Depth(o.body, m) + Change(i)
      /\ Depth(o.body, m) \in Int
      /\ m + 1 = Len(o.body) => i.op = "end"
      /\ Len(o.body) - Len(Tail(rest)) = m + 1
      /\ \A k \in 1 .. Len(Tail(rest)) : Tail(rest)[k] = o.body[m + 1 + k]
      /\ Tail(rest) = <<>> <=> m + 1 = Len(o.body)
  BY <1>1, <1>2, NextOperator
<1>4. /\ cur \in Flat /\ cur.body \in Bodies /\ cur.params \in Nat /\ cur.extra \in Nat
      /\ o.params \in Nat /\ o.extra \in Nat /\ o.params + o.extra <= bound
      /\ Depth(cur.body, Len(cur.body)) = Depth(o.body, m)
      /\ Piece(cur.body, bound, Names)
  BY <1>1, <1>2, <1>3 DEF InlineTypes, Flat, Writing
<1>5. callee \in Flat /\ ValidBody(callee, Names) BY <1>1, <1>2 DEF InlineTypes, ValidInv
<1>6. callee.params \in Nat /\ callee.extra \in Nat BY <1>5 DEF Flat
<1>7. Change(i) = 0 /\ rest' # <<>> BY <1>1, <1>3 DEF Change, Opens
<1> HIDE DEF callee, m
<1>8. spliced \in Bodies /\ Piece(spliced, wide, Names) /\ Depth(spliced, Len(spliced)) = 0
  <2>1. bound \in Nat BY <1>4
  <2> HIDE DEF bound
  <2> QED BY <1>5, <2>1, InlinedPiece
<1>9. Piece(cur.body, wide, Names)
  <2>1. cur.params \in Nat /\ cur.extra \in Nat BY <1>4
  <2>2. bound \in Int /\ wide \in Int /\ bound <= wide BY <1>6, <2>1
  <2> HIDE DEF bound, wide
  <2> QED BY <1>4, <2>2, PieceGrows
<1> HIDE DEF spliced
<1>10. Piece(u, wide, Names) /\ Depth(u, Len(u)) = Depth(o.body, m)
  <2> HIDE DEF wide, u
  <2>1. Piece(u, wide, Names) /\ Depth(u, Len(u)) = Depth(cur.body, Len(cur.body)) + Depth(spliced, Len(spliced))
    BY <1>4, <1>8, <1>9, PiecesConcat DEF u
  <2> QED BY <1>3, <1>4, <1>8, <2>1
<1> DEFINE more == cur.extra + callee.params + callee.extra
<1> HIDE DEF u
<1>11. cur'.body = u /\ cur'.params = cur.params /\ cur'.extra = more
  <2>1. cur' = [cur EXCEPT !.extra = more, !.body = u] BY <1>1
  <2> HIDE DEF more
  <2> QED BY <1>4, <2>1 DEF Flat
<1>12. cur'.params + cur'.extra = wide BY <1>4, <1>6, <1>11
<1> HIDE DEF wide, more, i
<1>13. Writing'
  <2>1. prog'.funcs[at'] = o BY <1>1
  <2>2. Len(o.body) - Len(rest') = m + 1 /\ m + 1 \in Nat BY <1>1, <1>3
  <2>3. o.params + o.extra <= cur'.params + cur'.extra
    <3>1. bound <= wide BY <1>4, <1>6 DEF wide
    <3>2. bound \in Int /\ wide \in Int BY <1>4, <1>6 DEF wide
    <3> QED BY <1>4, <1>12, <3>1, <3>2
  <2>4. \A k \in 1 .. Len(rest') : rest'[k] = o.body[m + 1 + k] BY <1>1, <1>3
  <2>5. Depth(cur'.body, Len(cur'.body)) = Depth(o.body, m + 1) BY <1>3, <1>7, <1>10, <1>11
  <2>6. Piece(cur'.body, cur'.params + cur'.extra, Names) BY <1>10, <1>11, <1>12
  <2> HIDE DEF o
  <2> QED BY <1>2, <1>7, <2>1, <2>2, <2>3, <2>4, <2>5, <2>6 DEF Writing
<1> QED BY <1>1, <1>2, <1>13 DEF ValidInv

LEMMA NextValidInv == InlineInv /\ InlineInv' /\ ValidInv /\ [Next]_vars => ValidInv'
<1> SUFFICES ASSUME InlineInv, InlineInv', ValidInv, [Next]_vars PROVE ValidInv'
  OBVIOUS
<1>p. prog' = prog => Names' = Names /\ Defined' = Defined /\ NImp(prog)' = NImp(prog)
  BY DEF Names, Defined
<1>1. CASE Refuse
  <2>1. pc' = "bail" BY <1>1 DEF Refuse
  <2> QED BY <2>1 DEF ValidInv
<1>2. CASE Collect
  <2>1. /\ pc = "check" /\ pc' = "inline" /\ prog.hook # None /\ funcs' = prog.funcs
        /\ UNCHANGED <<prog, at>>
    BY <1>2 DEF Collect
  <2>2. at = None /\ prog \in Programs BY <2>1 DEF InlineInv, InlineTypes
  <2>3. \A f \in DOMAIN funcs' : ValidBody(funcs'[f], Names)
    BY <2>1, <2>2, InputsValid DEF Defined
  <2> QED BY <1>p, <2>1, <2>2, <2>3 DEF ValidInv
<1>3. CASE Take BY <1>3, TakeWrites
<1>4. CASE Copy BY <1>4, CopyWrites
<1>5. CASE Splice BY <1>5, SpliceWrites
<1>6. CASE PutBack
  <2>1. /\ pc = "inline" /\ pc' = "inline" /\ at # None /\ rest = <<>>
        /\ funcs' = Insert(funcs, at, cur) /\ at' = None /\ prog' = prog
    BY <1>6 DEF PutBack
  <2>2. ValidBody(cur, Names) BY <2>1 DEF ValidInv, Writing
  <2>3. \A f \in DOMAIN funcs' : ValidBody(funcs'[f], Names)
    BY <2>1, <2>2 DEF ValidInv, Insert
  <2> QED BY <1>p, <2>1, <2>3 DEF ValidInv
<1>7. CASE AllInlined
  <2>1. /\ pc = "inline" /\ pc' = "types" /\ at = None /\ order = <<>>
        /\ UNCHANGED <<prog, funcs>>
    BY <1>7 DEF AllInlined
  <2>2. prog \in Programs /\ Inlining /\ \A f \in DOMAIN funcs : funcs[f] \in Flat
    BY <2>1 DEF InlineInv, InlineTypes
  <2>3. DOMAIN funcs = Defined
    BY <2>1, <2>2, InputsValid DEF Inlining
  <2>4. Done = Defined
    <3>1. ToSet(order) = {} BY <2>1 DEF ToSet
    <3> QED BY <2>3, <3>1 DEF Done
  <2>5. \A f \in Defined : ValidBody(funcs[f], 0 .. NImp(prog)-1)
    BY <2>1, <2>2, <2>3, <2>4, CleanValid DEF ValidInv, Inlining, Flat
  <2>6. prog.hook # None BY <2>1 DEF ValidInv
  <2> QED BY <1>p, <2>1, <2>3, <2>5, <2>6 DEF ValidInv
<1>8. CASE ImportType \/ Emit
  <2>1. pc = "types" /\ pc' \in {"types", "done"} /\ UNCHANGED <<prog, funcs, at>>
    BY <1>8, Zenon DEF ImportType, Emit
  <2> QED BY <1>p, <2>1 DEF ValidInv
<1>9. CASE Instantiate \/ Execute \/ UNCHANGED vars
  <2>1. UNCHANGED <<prog, pc, order, funcs, at, cur, rest>>
    BY <1>9 DEF Instantiate, Execute, vars
  <2>2. Writing' <=> Writing BY <1>p, <2>1 DEF Writing
  <2> QED BY <1>p, <2>1, <2>2 DEF ValidInv
<1> QED BY <1>1, <1>2, <1>3, <1>4, <1>5, <1>6, <1>7, <1>8, <1>9 DEF Next

-----------------------------------------------------------------------------
(* The type section *)

Signatures == {EntryType, GType} \cup {ImportedType(prog, k) : k \in DOMAIN prog.imports}

Once(ts) == \A i, j \in DOMAIN ts : ts[i] = ts[j] => i = j

\* While imports are mapped, the section is the types of those that are.
Mapped ==
  /\ DOMAIN tymap \subseteq {prog.imports[k].type : k \in DOMAIN prog.imports}
  /\ \A t \in DOMAIN tymap : tymap[t] + 1 \in DOMAIN types /\ types[tymap[t] + 1] = prog.types[t + 1]
  /\ ToSet(types) = {prog.types[t + 1] : t \in DOMAIN tymap}

TypesInv ==
  /\ pc \in {"check", "inline"} => types = <<>> /\ DOMAIN tymap = {}
  /\ pc = "types" => types \in Seq(Signatures) /\ Once(types) /\ Mapped

\* A type is entered once, behind the ones that are there: r is ts with tys.
Extended(S, ts, tys, r) ==
  /\ r \in Seq(S) /\ Once(r) /\ ToSet(r) = ToSet(ts) \cup tys
  /\ \A i \in DOMAIN ts : i \in DOMAIN r /\ r[i] = ts[i]

LEMMA TypeEntered ==
  ASSUME NEW S, NEW ts \in Seq(S), NEW ty \in S, Once(ts)
  PROVE  Extended(S, ts, {ty}, WithType(ts, ty))
<1> DEFINE r == WithType(ts, ty)
<1>1. CASE \E k \in DOMAIN ts : ts[k] = ty
  <2>1. r = ts BY <1>1 DEF WithType
  <2>2. ty \in ToSet(ts) BY <1>1 DEF ToSet
  <2> HIDE DEF r
  <2>3. Extended(S, ts, {ty}, r) BY <2>1, <2>2 DEF Extended
  <2> QED BY <2>3 DEF r
<1>2. CASE ~\E k \in DOMAIN ts : ts[k] = ty
  <2> DEFINE n == Len(ts)
  <2>1. r = Append(ts, ty) BY <1>2 DEF WithType
  <2>2. n \in Nat /\ DOMAIN ts = 1 .. n BY LenProperties
  <2>3. r \in Seq(S) /\ Len(r) = n + 1 /\ r[n + 1] = ty /\ \A i \in 1 .. n : r[i] = ts[i]
    BY <2>1, AppendProperties
  <2>4. DOMAIN r = 1 .. n + 1 BY <2>3, LenProperties
  <2> HIDE DEF r, n
  <2>5. \A i \in DOMAIN r : i = n + 1 \/ i \in DOMAIN ts BY <2>2, <2>4
  <2>6. n + 1 \in DOMAIN r /\ \A i \in DOMAIN ts : i \in DOMAIN r /\ r[i] = ts[i]
    BY <2>2, <2>3, <2>4
  <2>7. Once(r) BY <1>2, <2>3, <2>5, <2>6 DEF Once
  <2>8. ToSet(r) = ToSet(ts) \cup {ty} BY <2>3, <2>5, <2>6 DEF ToSet
  <2>9. Extended(S, ts, {ty}, r) BY <2>3, <2>6, <2>7, <2>8 DEF Extended
  <2> QED BY <2>9 DEF r
<1> QED BY <1>1, <1>2

LEMMA TypeFound ==
  ASSUME NEW S, NEW ts \in Seq(S), NEW ty \in ToSet(ts), Once(ts)
  PROVE  TypeIndex(ts, ty) + 1 \in DOMAIN ts /\ ts[TypeIndex(ts, ty) + 1] = ty
<1> DEFINE P(k) == ts[k] = ty /\ \A j \in 1 .. k-1 : ts[j] # ty
           c == CHOOSE k \in DOMAIN ts : P(k)
<1>1. DOMAIN ts = 1 .. Len(ts) /\ Len(ts) \in Nat BY LenProperties
<1>2. PICK k \in DOMAIN ts : ts[k] = ty BY DEF ToSet
<1>3. P(k)
  <2>1. \A j \in 1 .. k-1 : j \in DOMAIN ts /\ j # k BY <1>1, <1>2
  <2> QED BY <1>2, <2>1 DEF Once
<1>4. c \in DOMAIN ts /\ ts[c] = ty BY <1>3
<1>5. TypeIndex(ts, ty) = c - 1 BY DEF TypeIndex
<1> HIDE DEF c
<1>6. (c - 1) + 1 = c BY <1>1, <1>4
<1> QED BY <1>4, <1>5, <1>6

LEMMA LeastElement ==
  ASSUME NEW S \in SUBSET Nat, S # {}
  PROVE  \E lo \in S : \A k \in S : lo <= k
<1> DEFINE Less == OpToRel(<, Nat)
<1>1. IsWellFoundedOn(Less, Nat)
  BY NatLessThanWellFounded DEF OpToRel
<1>2. PICK lo \in S : \A k \in S : ~(<<k, lo>> \in Less)
  BY <1>1, WFMin
<1>3. \A k \in S : ~(k < lo)
  BY <1>2 DEF OpToRel
<1> QED
  BY <1>3

LEMMA FirstUnmapped ==
  ASSUME prog \in Programs, Unmapped # {}
  PROVE  (CHOOSE x \in Unmapped : \A y \in Unmapped : x <= y) \in Unmapped
<1>1. DOMAIN prog.imports = 1 .. NImp(prog) BY InputsValid, LenProperties DEF NImp
<1>2. Unmapped \in SUBSET Nat
  <2>1. DOMAIN prog.imports \subseteq Nat BY <1>1, InputsValid
  <2> QED BY <2>1 DEF Unmapped
<1>3. \E x \in Unmapped : \A y \in Unmapped : x <= y BY <1>2, LeastElement
<1> QED BY <1>3

LEMMA ImportTypeMaps ==
  ASSUME prog \in Programs, TypesInv, ImportType
  PROVE  TypesInv'
<1> DEFINE k == CHOOSE x \in Unmapped : \A y \in Unmapped : x <= y
           ot == prog.imports[k].type
           ty == prog.types[ot + 1]
<1>1. /\ pc = "types" /\ pc' = "types" /\ Unmapped # {} /\ prog' = prog
      /\ types' = WithType(types, ty) /\ tymap' = Insert(tymap, ot, TypeIndex(types', ty))
  BY DEF ImportType
<1>2. types \in Seq(Signatures) /\ Once(types) /\ Mapped BY <1>1, Zenon DEF TypesInv
<1>3. k \in DOMAIN prog.imports /\ ot \notin DOMAIN tymap
  <2>1. k \in Unmapped BY <1>1, FirstUnmapped
  <2> QED BY <2>1 DEF Unmapped
<1>4. ty \in Signatures BY <1>3 DEF Signatures, ImportedType
<1>k. prog.imports[k].type = ot /\ prog.types[ot + 1] = ty OBVIOUS
<1> HIDE DEF k, ot, ty
<1>5. /\ types' \in Seq(Signatures) /\ Once(types') /\ ToSet(types') = ToSet(types) \cup {ty}
      /\ \A i \in DOMAIN types : i \in DOMAIN types' /\ types'[i] = types[i]
  <2>1. Extended(Signatures, types, {ty}, types') BY <1>1, <1>2, <1>4, TypeEntered
  <2> QED BY <2>1 DEF Extended
<1>6. TypeIndex(types', ty) + 1 \in DOMAIN types' /\ types'[TypeIndex(types', ty) + 1] = ty
  <2>1. ty \in ToSet(types') BY <1>5
  <2> QED BY <1>5, <2>1, TypeFound
<1> DEFINE x == TypeIndex(types', ty)
<1>7. /\ DOMAIN tymap' = DOMAIN tymap \cup {ot} /\ tymap'[ot] = x
      /\ \A t \in DOMAIN tymap : tymap'[t] = tymap[t]
  BY <1>1, <1>3 DEF Insert
<1> HIDE DEF x
<1>8. Mapped'
  <2>1. DOMAIN tymap' \subseteq {prog'.imports[i].type : i \in DOMAIN prog'.imports}
    BY <1>1, <1>2, <1>3, <1>7, <1>k DEF Mapped
  <2>2. ASSUME NEW t \in DOMAIN tymap'
        PROVE  tymap'[t] + 1 \in DOMAIN types' /\ types'[tymap'[t] + 1] = prog'.types[t + 1]
    <3>1. CASE t = ot BY <1>1, <1>6, <1>7, <1>k, <3>1 DEF x
    <3>2. CASE t # ot
      <4>1. t \in DOMAIN tymap /\ tymap'[t] = tymap[t] BY <1>7, <2>2, <3>2
      <4>2. tymap[t] + 1 \in DOMAIN types /\ types[tymap[t] + 1] = prog.types[t + 1]
        BY <1>2, <4>1 DEF Mapped
      <4> QED BY <1>1, <1>5, <4>1, <4>2
    <3> QED BY <3>1, <3>2
  <2>3. ToSet(types') = {prog'.types[t + 1] : t \in DOMAIN tymap'}
    <3>1. ToSet(types) = {prog.types[t + 1] : t \in DOMAIN tymap} BY <1>2 DEF Mapped
    <3>2. prog'.types = prog.types /\ prog'.types[ot + 1] = ty BY <1>1, <1>k
    <3>3. DOMAIN tymap' = DOMAIN tymap \cup {ot} BY <1>7
    <3>4. ToSet(types') = ToSet(types) \cup {ty} BY <1>5
    <3> QED BY <3>1, <3>2, <3>3, <3>4
  <2> QED BY <2>1, <2>2, <2>3 DEF Mapped
<1>9. Signatures' = Signatures BY <1>1 DEF Signatures, ImportedType
<1> QED BY <1>1, <1>5, <1>8, <1>9 DEF TypesInv

LEMMA NextTypesInv == InlineInv /\ TypesInv /\ [Next]_vars => TypesInv'
<1> SUFFICES ASSUME InlineInv, TypesInv, [Next]_vars PROVE TypesInv'
  OBVIOUS
<1>1. CASE Refuse \/ Emit
  <2>1. pc' \in {"bail", "done"} BY <1>1, Zenon DEF Refuse, Emit
  <2> QED BY <2>1 DEF TypesInv
<1>2. CASE Collect \/ Take \/ Copy \/ Splice \/ PutBack
  <2>1. pc \in {"check", "inline"} /\ pc' = "inline" /\ UNCHANGED result
    BY <1>2 DEF Collect, Take, Copy, Splice, PutBack
  <2> QED BY <2>1 DEF TypesInv, result
<1>3. CASE AllInlined
  <2>1. pc = "inline" /\ pc' = "types" /\ UNCHANGED result BY <1>3 DEF AllInlined
  <2>2. types' = <<>> /\ DOMAIN tymap' = {} BY <2>1 DEF TypesInv, result
  <2>3. types' \in Seq(Signatures') /\ Once(types') BY <2>2 DEF Once
  <2>4. ToSet(types') = {} BY <2>2 DEF ToSet
  <2>5. Mapped' BY <2>2, <2>4 DEF Mapped
  <2> QED BY <2>1, <2>3, <2>5 DEF TypesInv
<1>4. CASE ImportType BY <1>4, ImportTypeMaps DEF InlineInv, InlineTypes
<1>5. CASE Instantiate \/ Execute \/ UNCHANGED vars
  <2>1. UNCHANGED <<prog, pc, types, tymap>>
    BY <1>5 DEF Instantiate, Execute, vars, result
  <2>2. (Mapped' <=> Mapped) /\ Signatures' = Signatures BY <2>1 DEF Mapped, Signatures, ImportedType
  <2> QED BY <2>1, <2>2 DEF TypesInv
<1> QED BY <1>1, <1>2, <1>3, <1>4, <1>5 DEF Next

\* The types of the entries and, where it is added, of _g are entered last.
LEMMA EntryTypesEntered ==
  ASSUME NEW ts \in Seq(Signatures), Once(ts), NEW w, w = WithType(ts, EntryType),
         NEW r, r = IF HasG THEN w ELSE WithType(w, GType)
  PROVE  Extended(Signatures, ts, {EntryType} \cup (IF HasG THEN {} ELSE {GType}), r)
<1>1. EntryType \in Signatures /\ GType \in Signatures BY DEF Signatures
<1>2. Extended(Signatures, ts, {EntryType}, w) BY <1>1, TypeEntered
<1>3. CASE HasG
  <2>1. r = w /\ {EntryType} \cup (IF HasG THEN {} ELSE {GType}) = {EntryType} BY <1>3
  <2> QED BY <1>2, <2>1
<1>4. CASE ~HasG
  <2>1. w \in Seq(Signatures) /\ Once(w) BY <1>2 DEF Extended
  <2>2. Extended(Signatures, w, {GType}, WithType(w, GType)) BY <1>1, <2>1, TypeEntered
  <2>3. r = WithType(w, GType) BY <1>4
  <2>4. Extended(Signatures, w, {GType}, r) BY <2>2, <2>3
  <2>5. {EntryType} \cup (IF HasG THEN {} ELSE {GType}) = {EntryType} \cup {GType} BY <1>4
  <2>6. Extended(Signatures, ts, {EntryType} \cup {GType}, r) BY <1>2, <2>4 DEF Extended
  <2> QED BY <2>5, <2>6
<1> QED BY <1>3, <1>4

\* What the finished program is made of is valid, and has the types it names.
LEMMA EmitSound ==
  ASSUME InlineInv, ValidInv, TypesInv, Emit
  PROVE  OutputSound'
<1> DEFINE withEntry == WithType(types, EntryType)
           kept == [k \in DOMAIN prog.imports |-> [prog.imports[k] EXCEPT !.type = tymap[@]]]
           g == [name |-> "_g", type |-> TypeIndex(types', GType),
                 params |-> 2, result |-> 1, ends |-> FALSE]
           imports == IF HasG THEN kept ELSE Append(kept, g)
           n == Len(imports)
           entries == [e \in IF prog.cbak = None THEN {n} ELSE {n, n+1} |->
                         funcs[IF e = n THEN prog.hook ELSE prog.cbak]]
<1>1. /\ pc = "types" /\ pc' = "done" /\ prog' = prog /\ Unmapped = {}
      /\ types' = IF HasG THEN withEntry ELSE WithType(withEntry, GType)
      /\ out' = [imports |-> imports, types |-> types', funcs |-> entries,
                 hook |-> n, cbak |-> IF prog.cbak = None THEN None ELSE n+1]
  BY Zenon DEF Emit
<1>2. /\ types \in Seq(Signatures) /\ Once(types) /\ Mapped
      /\ prog.hook # None /\ \A f \in Defined : ValidBody(funcs[f], 0 .. NImp(prog)-1)
  <2>1. pc = "types" BY Zenon DEF Emit
  <2> QED BY <2>1 DEF TypesInv, ValidInv
<1>3. /\ prog.imports \in Seq(Import) /\ NImp(prog) \in Nat
      /\ {prog.hook, prog.cbak} \subseteq Defined \cup {None}
  BY InputsValid DEF InlineInv, InlineTypes
<1>4. DOMAIN prog.imports = 1 .. NImp(prog) /\ \A k \in DOMAIN prog.imports : prog.imports[k] \in Import
  BY <1>3, LenProperties, ElementOfSeq DEF NImp
<1>o. out'.imports = imports /\ out'.types = types' /\ out'.funcs = entries
  <2> HIDE DEF imports, entries, n
  <2> QED BY <1>1
<1>5. /\ types' \in Seq(Signatures) /\ Once(types')
      /\ ToSet(types') = ToSet(types) \cup {EntryType} \cup (IF HasG THEN {} ELSE {GType})
      /\ \A i \in DOMAIN types : i \in DOMAIN types' /\ types'[i] = types[i]
  <2> DEFINE r == types'
  <2>1. r = IF HasG THEN withEntry ELSE WithType(withEntry, GType) BY <1>1, Zenon
  <2> DEFINE late == {EntryType} \cup (IF HasG THEN {} ELSE {GType})
  <2>2. Extended(Signatures, types, late, r) BY <1>2, <2>1, EntryTypesEntered
  <2>3. ToSet(types) \cup late = ToSet(types) \cup {EntryType} \cup (IF HasG THEN {} ELSE {GType}) OBVIOUS
  <2> HIDE DEF late
  <2> QED BY <2>2, <2>3 DEF Extended
<1>6. ASSUME NEW k \in DOMAIN prog.imports
      PROVE  kept[k].type = tymap[prog.imports[k].type] /\ kept[k].name = prog.imports[k].name
  BY <1>4 DEF Import
<1> DEFINE K == {kept[k] : k \in DOMAIN prog.imports} \cup {g}
           N == NImp(prog)
<1>7. kept \in Seq(K) /\ Len(kept) = N
  <2>1. kept \in [1 .. N -> K] BY <1>4
  <2>2. kept \in Seq(K) BY <1>3, <2>1
  <2>3. DOMAIN kept = 1 .. N BY <1>4
  <2> HIDE DEF kept, K
  <2>4. DOMAIN kept = 1 .. Len(kept) /\ Len(kept) \in Nat BY <2>2, LenProperties
  <2> HIDE DEF N
  <2> QED BY <1>3, <2>2, <2>3, <2>4 DEF N
<1>g. g.type = TypeIndex(types', GType) /\ g.name = "_g" /\ g \in K OBVIOUS
<1>8. \/ /\ TypeIndex(types', GType) + 1 \in DOMAIN types'
         /\ types'[TypeIndex(types', GType) + 1] = GType
      \/ HasG
  <2>1. HasG \/ GType \in ToSet(types') BY <1>5
  <2> QED BY <1>5, <2>1, TypeFound
<1> HIDE DEF kept, g, K, entries
<1>9. /\ n \in Nat /\ N <= n /\ DOMAIN imports = 1 .. n
      /\ \A k \in 1 .. N : imports[k] = kept[k]
      /\ IF HasG THEN n = N ELSE n = N + 1 /\ imports[N + 1] = g
  <2>1. CASE HasG
    <3>1. imports = kept BY <2>1
    <3> QED BY <1>3, <1>7, <2>1, <3>1, LenProperties
  <2>2. CASE ~HasG
    <3>1. imports = Append(kept, g) BY <2>2
    <3>2. /\ imports \in Seq(K) /\ Len(imports) = N + 1 /\ imports[N + 1] = g
          /\ \A k \in 1 .. N : imports[k] = kept[k]
      BY <1>7, <1>g, <3>1, AppendProperties
    <3>3. DOMAIN imports = 1 .. n BY <3>2, LenProperties
    <3> QED BY <1>3, <2>2, <3>2, <3>3
  <2> QED BY <2>1, <2>2
<1> HIDE DEF imports, n
<1>10. OutputValid'
  <2>1. ASSUME NEW e \in DOMAIN entries PROVE ValidBody(entries[e], 0 .. n-1)
    <3>1. entries[e] \in {funcs[f] : f \in Defined}
      <4>1. e = n \/ (prog.cbak # None /\ e = n+1) BY DEF entries
      <4>2. CASE e = n
        <5>1. entries[e] = funcs[prog.hook] BY <4>2 DEF entries
        <5> QED BY <1>2, <1>3, <5>1
      <4>3. CASE prog.cbak # None /\ e = n+1
        <5>1. e # n BY <1>9, <4>3
        <5>2. entries[e] = funcs[prog.cbak] BY <4>3, <5>1 DEF entries
        <5> QED BY <1>3, <4>3, <5>2
      <4> QED BY <4>1, <4>2, <4>3
    <3>2. ValidBody(entries[e], 0 .. N-1) BY <1>2, <3>1
    <3>3. 0 .. N-1 \subseteq 0 .. n-1 BY <1>3, <1>9
    <3> QED BY <3>2, <3>3 DEF ValidBody
  <2>2. NImp(out') = n BY <1>o DEF NImp, n
  <2> QED BY <1>o, <2>1, <2>2 DEF OutputValid
<1>11. ASSUME NEW k \in DOMAIN prog.imports PROVE ImportedType(out', k) = ImportedType(prog, k)
  <2> DEFINE t == prog.imports[k].type
  <2>1. t \in DOMAIN tymap BY <1>1 DEF Unmapped
  <2>2. tymap[t] + 1 \in DOMAIN types /\ types[tymap[t] + 1] = prog.types[t + 1]
    BY <1>2, <2>1 DEF Mapped
  <2>3. out'.imports[k].type = tymap[t] BY <1>4, <1>6, <1>9, <1>o
  <2> QED BY <1>5, <1>o, <2>2, <2>3 DEF ImportedType
<1>12. ASSUME NEW k \in DOMAIN imports \ DOMAIN prog.imports PROVE ~HasG /\ ImportedType(out', k) = GType
  <2>1. ~HasG /\ k = N + 1 BY <1>3, <1>4, <1>9, <1>12
  <2>2. out'.imports[k].type = TypeIndex(types', GType) BY <1>9, <1>g, <1>o, <2>1
  <2> QED BY <1>8, <1>o, <2>1, <2>2 DEF ImportedType
<1>13. \E k \in DOMAIN imports : imports[k].name = "_g"
  <2>1. CASE HasG
    <3>1. PICK k \in DOMAIN prog.imports : prog.imports[k].name = "_g" BY <2>1 DEF HasG
    <3>2. k \in 1 .. N /\ k \in DOMAIN imports BY <1>3, <1>4, <1>9
    <3>3. imports[k].name = "_g" BY <1>6, <1>9, <3>1, <3>2
    <3> QED BY <3>2, <3>3
  <2>2. CASE ~HasG
    <3>1. N + 1 \in DOMAIN imports /\ imports[N + 1] = g BY <1>3, <1>9, <2>2
    <3> QED BY <1>g, <3>1
  <2> QED BY <2>1, <2>2
<1>14. ToSet(types') = {EntryType} \cup {ImportedType(out', k) : k \in DOMAIN imports}
  <2>1. ToSet(types) = {ImportedType(prog, k) : k \in DOMAIN prog.imports}
    <3>1. \A k \in DOMAIN prog.imports : prog.imports[k].type \in DOMAIN tymap BY <1>1 DEF Unmapped
    <3>2. DOMAIN tymap = {prog.imports[k].type : k \in DOMAIN prog.imports}
      BY <1>2, <3>1 DEF Mapped
    <3>3. ToSet(types) = {prog.types[t + 1] : t \in DOMAIN tymap} BY <1>2 DEF Mapped
    <3> QED BY <3>2, <3>3 DEF ImportedType
  <2>2. \A k \in DOMAIN prog.imports : k \in DOMAIN imports BY <1>3, <1>4, <1>9
  <2>3. ~HasG => \E k \in DOMAIN imports : ImportedType(out', k) = GType
    <3>1. ~HasG => N + 1 \in DOMAIN imports /\ N + 1 \notin DOMAIN prog.imports BY <1>3, <1>4, <1>9
    <3> QED BY <1>12, <3>1
  <2>4. \A k \in DOMAIN imports : ImportedType(out', k) \in ToSet(types')
    <3> SUFFICES ASSUME NEW k \in DOMAIN imports PROVE ImportedType(out', k) \in ToSet(types')
      OBVIOUS
    <3>1. CASE k \in DOMAIN prog.imports BY <1>5, <1>11, <2>1, <3>1
    <3>2. CASE k \notin DOMAIN prog.imports BY <1>5, <1>12, <3>2
    <3> QED BY <3>1, <3>2
  <2>5. \A x \in ToSet(types) : \E k \in DOMAIN imports : x = ImportedType(out', k) BY <1>11, <2>1, <2>2
  <2> DEFINE Q == {ImportedType(out', k) : k \in DOMAIN imports}
  <2>6. Q \subseteq ToSet(types') /\ ToSet(types) \subseteq Q /\ (~HasG => GType \in Q) BY <2>3, <2>4, <2>5
  <2> HIDE DEF Q
  <2>7. ToSet(types') = {EntryType} \cup Q BY <1>5, <2>6
  <2> QED BY <2>7 DEF Q
<1>15. TypesExact'
  BY <1>1, <1>5, <1>11, <1>12, <1>13, <1>14, <1>o DEF TypesExact, Once
<1> QED BY <1>10, <1>15 DEF OutputSound

SoundInv == InlineInv /\ ValidInv /\ TypesInv /\ OutputSound

LEMMA NextSoundInv == SoundInv /\ [Next]_vars => SoundInv'
<1> SUFFICES ASSUME SoundInv, [Next]_vars PROVE SoundInv'
  OBVIOUS
<1>1. InlineInv' BY NextInlineInv DEF SoundInv
<1>2. ValidInv' /\ TypesInv' BY <1>1, NextValidInv, NextTypesInv DEF SoundInv
<1>3. OutputSound'
  <2>1. CASE Emit BY <2>1, EmitSound DEF SoundInv
  <2>2. CASE Instantiate \/ Execute \/ UNCHANGED vars
    <3>1. UNCHANGED <<prog, pc, out>> BY <2>2 DEF Instantiate, Execute, vars, result
    <3>2. OutputSound BY DEF SoundInv
    <3> QED BY <3>1, <3>2 DEF OutputSound, OutputValid, TypesExact, ImportedType
  <2>3. CASE Refuse \/ Collect \/ Take \/ Copy \/ Splice \/ PutBack \/ AllInlined \/ ImportType
    <3>1. pc' # "done"
      BY <2>3 DEF Refuse, Collect, Take, Copy, Splice, PutBack, AllInlined, ImportType
    <3> QED BY <3>1 DEF OutputSound, OutputValid, TypesExact
  <2> QED BY <2>1, <2>2, <2>3 DEF Next
<1> QED BY <1>1, <1>2, <1>3 DEF SoundInv

\* Whatever valid program comes in and whichever order puts callees first: in
\* what flatten returns constructs nest, branches have targets and locals exist,
\* through every splice; it calls imports only, and has the types they name.
THEOREM OutputStaysSound == Spec => []OutputSound
<1>1. Init => SoundInv
  <2> SUFFICES ASSUME Init PROVE SoundInv
    OBVIOUS
  <2>1. InlineInv BY InitInlineInv
  <2>2. ValidInv /\ TypesInv /\ OutputSound
    BY DEF Init, ValidInv, TypesInv, OutputSound, OutputValid, TypesExact
  <2> QED BY <2>1, <2>2 DEF SoundInv
<1>2. SoundInv => OutputSound BY DEF SoundInv
<1> QED BY <1>1, <1>2, NextSoundInv, PTL DEF Spec
=============================================================================
