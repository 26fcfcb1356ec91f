--------------------------- MODULE CallGraph_proofs ---------------------------
(***************************************************************************)
(* Proofs about CallGraph, for every call graph: recursion is reported     *)
(* exactly when there is some, and the order that the inliner relies on    *)
(* lists callees before callers.                                           *)
(***************************************************************************)
EXTENDS CallGraph, SequenceTheorems, TLAPS

-----------------------------------------------------------------------------
(* The traversal stack, for either traversal.  E is the edge function.     *)

OnStack(s) == {s[i].node : i \in 1 .. Len(s)}

\* The stack is a path of distinct functions, each with some edges left.
Chain(s, E) ==
  /\ \A i \in 1 .. Len(s) : s[i].edges \subseteq E[s[i].node]
  /\ \A i \in 1 .. Len(s)-1 : s[i+1].node \in E[s[i].node]
  /\ \A i, j \in 1 .. Len(s) : s[i].node = s[j].node => i = j

\* An edge already taken leads to a finished function or to the next frame.
Settled(s, E, D) ==
  \A i \in 1 .. Len(s) : \A c \in E[s[i].node] \ s[i].edges :
     c \in D \/ (i < Len(s) /\ c = s[i+1].node)

TakeFrom(s, e) == [s EXCEPT ![Len(s)].edges = @ \ {e}]
LastOf(s)      == s[Len(s)]

LEMMA StackBasics ==
  ASSUME NEW s \in Seq(Frame), s # <<>>
  PROVE  /\ Len(s) \in Nat /\ Len(s) >= 1 /\ Len(s) \in 1 .. Len(s)
         /\ \A i \in 1 .. Len(s) : s[i] \in Frame /\ s[i].node \in Funcs /\ s[i].edges \in SUBSET Funcs
<1>1. Len(s) \in Nat /\ Len(s) # 0
  BY EmptySeq, LenProperties
<1>2. \A i \in 1 .. Len(s) : s[i] \in Frame
  BY ElementOfSeq
<1> QED
  BY <1>1, <1>2 DEF Frame

LEMMA FrontOf ==
  ASSUME NEW T, NEW s \in Seq(T), s # <<>>
  PROVE  LET p == SubSeq(s, 1, Len(s)-1) IN
         p \in Seq(T) /\ Len(p) = Len(s)-1 /\ \A i \in 1 .. Len(s)-1 : p[i] = s[i]
<1> DEFINE p == SubSeq(s, 1, Len(s)-1)
<1>1. Len(s) \in Nat /\ Len(s) > 0 /\ DOMAIN s = 1 .. Len(s)
  BY EmptySeq, LenProperties
<1>2. Len(p) = Len(s)-1 /\ \A i \in 1 .. Len(s)-1 : p[i] = s[i]
  BY <1>1, SubSeqProperties
<1>3. p \in Seq(T)
  BY <1>1, SubSeqProperties, ElementOfSeq
<1> QED
  BY <1>2, <1>3

LEMMA TakeShape ==
  ASSUME NEW s \in Seq(Frame), s # <<>>, NEW e
  PROVE  LET t == TakeFrom(s, e) IN
         /\ t \in Seq(Frame) /\ Len(t) = Len(s)
         /\ \A i \in 1 .. Len(s) : t[i].node = s[i].node
         /\ \A i \in 1 .. Len(s)-1 : t[i] = s[i]
         /\ t[Len(s)].edges = s[Len(s)].edges \ {e}
<1> DEFINE n == Len(s)
           x == [s[n] EXCEPT !.edges = @ \ {e}]
<1>1. n \in Nat /\ n \in 1 .. n /\ \A i \in 1 .. n : s[i] \in Frame
  BY StackBasics
<1>2. x \in Frame /\ x.node = s[n].node /\ x.edges = s[n].edges \ {e}
  BY <1>1 DEF Frame
<1>3. TakeFrom(s, e) = [s EXCEPT ![n] = x]
  BY DEF TakeFrom
<1> HIDE DEF x
<1> DEFINE t == TakeFrom(s, e)
<1>4. /\ t \in Seq(Frame) /\ Len(t) = n /\ t[n] = x
      /\ \A i \in 1 .. n : i # n => t[i] = s[i]
  BY <1>1, <1>2, <1>3, ExceptSeq
<1> HIDE DEF t
<1>5. \A i \in 1 .. n-1 : i \in 1 .. n /\ i # n
  BY <1>1
<1>6. \A i \in 1 .. n : t[i].node = s[i].node
  BY <1>2, <1>4
<1> QED
  BY <1>2, <1>4, <1>5, <1>6 DEF t

\* Taking an edge to a finished function changes nothing that matters.
LEMMA TakeStep ==
  ASSUME NEW s \in Seq(Frame), s # <<>>, NEW E, Chain(s, E), NEW e
  PROVE  LET t == TakeFrom(s, e) IN
         /\ Chain(t, E) /\ OnStack(t) = OnStack(s)
         /\ \A D : Settled(s, E, D) /\ e \in D => Settled(t, E, D)
<1> DEFINE t == TakeFrom(s, e)
           n == Len(s)
<1>1. /\ Len(t) = n /\ n \in Nat /\ n >= 1
      /\ \A i \in 1 .. n : t[i].node = s[i].node
      /\ \A i \in 1 .. n-1 : t[i] = s[i]
      /\ t[n].edges = s[n].edges \ {e}
  BY TakeShape, StackBasics
<1>2. \A i \in 1 .. n : t[i].edges = s[i].edges \/ t[i].edges = s[i].edges \ {e}
  BY <1>1
<1> HIDE DEF t
<1>3. Chain(t, E)
  BY <1>1, <1>2 DEF Chain
<1>4. OnStack(t) = OnStack(s)
  BY <1>1 DEF OnStack
<1>5. ASSUME NEW D, Settled(s, E, D), e \in D PROVE Settled(t, E, D)
  <2> SUFFICES ASSUME NEW i \in 1 .. n, NEW c \in E[s[i].node] \ t[i].edges
               PROVE  c \in D \/ (i < n /\ c = t[i+1].node)
    BY <1>1 DEF Settled
  <2>1. CASE c = e
    BY <1>5, <2>1
  <2>2. CASE c # e
    <3>1. c \in E[s[i].node] \ s[i].edges
      BY <1>2, <2>2
    <3>2. i < n => i + 1 \in 1 .. n
      BY <1>1
    <3> QED
      BY <1>1, <1>5, <3>1, <3>2 DEF Settled
  <2> QED
    BY <2>1, <2>2
<1> QED
  BY <1>3, <1>4, <1>5 DEF t

\* Following an edge to a function that is not on the stack.
LEMMA DescendStep ==
  ASSUME NEW s \in Seq(Frame), s # <<>>, NEW E \in [Funcs -> SUBSET Funcs], Chain(s, E),
         NEW e \in LastOf(s).edges, e \notin OnStack(s)
  PROVE  LET u == Append(TakeFrom(s, e), FrameOf(e, E[e])) IN
         /\ u \in Seq(Frame) /\ Chain(u, E) /\ OnStack(u) = OnStack(s) \cup {e}
         /\ Len(u) = Len(s) + 1 /\ u[Len(u)].node = e
         /\ \A i \in 1 .. Len(s) : u[i].node = s[i].node
         /\ \A D : Settled(s, E, D) => Settled(u, E, D)
<1> DEFINE t == TakeFrom(s, e)
           n == Len(s)
           x == FrameOf(e, E[e])
           u == Append(t, x)
<1>1. /\ n \in Nat /\ n >= 1 /\ n \in 1 .. n
      /\ \A i \in 1 .. n : s[i].node \in Funcs /\ s[i].edges \in SUBSET Funcs
  BY StackBasics
<1>2. /\ t \in Seq(Frame) /\ Len(t) = n
      /\ \A i \in 1 .. n : t[i].node = s[i].node
      /\ \A i \in 1 .. n-1 : t[i] = s[i]
      /\ t[n].edges = s[n].edges \ {e}
  BY TakeShape
<1>3. Chain(t, E) /\ OnStack(t) = OnStack(s)
  BY TakeStep
<1>4. e \in Funcs /\ x \in Frame /\ x.node = e /\ x.edges = E[e] /\ e \in E[s[n].node]
  BY <1>1 DEF LastOf, FrameOf, Frame, Chain
<1> HIDE DEF t, x
<1>5. /\ u \in Seq(Frame) /\ Len(u) = n + 1 /\ u[n+1] = x
      /\ \A i \in 1 .. n : u[i] = t[i]
  BY <1>2, <1>4, AppendProperties
<1> HIDE DEF u
<1>6. \A i \in 1 .. n+1 : i = n+1 \/ i \in 1 .. n
  BY <1>1
<1>7. \A i \in 1 .. n+1 : u[i].edges \subseteq E[u[i].node]
  BY <1>2, <1>3, <1>4, <1>5, <1>6 DEF Chain
<1>8. \A i \in 1 .. n : u[i+1].node \in E[u[i].node]
  <2> SUFFICES ASSUME NEW i \in 1 .. n PROVE u[i+1].node \in E[u[i].node]
    OBVIOUS
  <2>1. CASE i = n
    BY <1>1, <1>2, <1>4, <1>5, <2>1
  <2>2. CASE i # n
    <3>1. i \in 1 .. n-1 /\ i+1 \in 1 .. n
      BY <1>1, <2>2
    <3> QED
      BY <1>2, <1>3, <1>5, <3>1 DEF Chain
  <2> QED
    BY <2>1, <2>2
<1>9. \A i \in 1 .. n : u[i].node # e
  BY <1>2, <1>5 DEF OnStack
<1>10. \A i, j \in 1 .. n+1 : u[i].node = u[j].node => i = j
  BY <1>2, <1>3, <1>4, <1>5, <1>6, <1>9 DEF Chain
<1>11. Chain(u, E)
  BY <1>1, <1>5, <1>7, <1>8, <1>10 DEF Chain
<1>12. OnStack(u) = OnStack(s) \cup {e}
  <2>1. \A i \in 1 .. n : i \in 1 .. n+1 /\ u[i].node = s[i].node
    BY <1>1, <1>2, <1>5
  <2>2. n+1 \in 1 .. n+1 /\ u[n+1].node = e
    BY <1>1, <1>4, <1>5
  <2> QED
    BY <1>5, <1>6, <2>1, <2>2 DEF OnStack
<1>13. ASSUME NEW D, Settled(s, E, D) PROVE Settled(u, E, D)
  <2> SUFFICES ASSUME NEW i \in 1 .. n+1, NEW c \in E[u[i].node] \ u[i].edges
               PROVE  c \in D \/ (i < n+1 /\ c = u[i+1].node)
    BY <1>5 DEF Settled
  <2>1. CASE i = n+1
    BY <1>4, <1>5, <2>1
  <2>2. CASE i \in 1 .. n /\ c = e /\ i = n
    BY <1>1, <1>4, <1>5, <2>2
  <2>3. CASE i \in 1 .. n /\ ~(c = e /\ i = n)
    <3>1. c \in E[s[i].node] \ s[i].edges
      BY <1>1, <1>2, <1>5, <2>3
    <3>2. c \in D \/ (i < n /\ c = s[i+1].node)
      BY <1>13, <2>3, <3>1 DEF Settled
    <3>3. i < n => i+1 \in 1 .. n /\ i < n+1
      BY <1>1, <2>3
    <3> QED
      BY <1>2, <1>5, <3>2, <3>3
  <2> QED
    BY <1>6, <2>1, <2>2, <2>3
<1> QED
  BY <1>2, <1>4, <1>5, <1>11, <1>12, <1>13 DEF t, x, u

\* Leaving a function whose edges are all taken: all its callees are finished.
LEMMA PopStep ==
  ASSUME NEW s \in Seq(Frame), s # <<>>, NEW E, Chain(s, E), LastOf(s).edges = {},
         NEW D, Settled(s, E, D)
  PROVE  LET p == SubSeq(s, 1, Len(s)-1)
             f == LastOf(s).node IN
         /\ p \in Seq(Frame) /\ Len(p) = Len(s)-1 /\ \A i \in 1 .. Len(s)-1 : p[i] = s[i]
         /\ Chain(p, E) /\ f \in OnStack(s) /\ OnStack(p) = OnStack(s) \ {f}
         /\ E[f] \subseteq D /\ Settled(p, E, D \cup {f})
<1> DEFINE n == Len(s)
           p == SubSeq(s, 1, n-1)
           f == LastOf(s).node
<1>1. n \in Nat /\ n >= 1 /\ n \in 1 .. n
  BY StackBasics
<1>2. p \in Seq(Frame) /\ Len(p) = n-1 /\ \A i \in 1 .. n-1 : p[i] = s[i]
  BY FrontOf
<1> HIDE DEF p
<1>3. \A i \in 1 .. n : i = n \/ i \in 1 .. n-1
  BY <1>1
<1>4. Chain(p, E)
  <2>1. \A i \in 1 .. n-1 : p[i] = s[i] /\ i \in 1 .. n
    BY <1>1, <1>2
  <2>2. \A i \in 1 .. (n-1)-1 : i \in 1 .. n-1 /\ i+1 \in 1 .. n-1
    BY <1>1
  <2> QED
    BY <1>2, <2>1, <2>2 DEF Chain
<1>5. f \in OnStack(s) /\ \A i \in 1 .. n-1 : s[i].node # f
  BY <1>1 DEF OnStack, LastOf, Chain
<1>6. OnStack(p) = OnStack(s) \ {f}
  <2>1. OnStack(p) \subseteq OnStack(s) \ {f}
    BY <1>1, <1>2, <1>5 DEF OnStack
  <2>2. OnStack(s) \ {f} \subseteq OnStack(p)
    BY <1>2, <1>3 DEF OnStack, LastOf
  <2> QED
    BY <2>1, <2>2
<1>7. E[f] \subseteq D
  BY <1>1 DEF Settled, LastOf
<1>8. Settled(p, E, D \cup {f})
  <2> SUFFICES ASSUME NEW i \in 1 .. n-1, NEW c \in E[s[i].node] \ s[i].edges
               PROVE  c \in D \cup {f} \/ (i < n-1 /\ c = p[i+1].node)
    BY <1>2 DEF Settled
  <2>1. c \in D \/ (i < n /\ c = s[i+1].node)
    BY <1>1 DEF Settled
  <2>2. CASE i = n-1
    BY <1>1, <2>1, <2>2 DEF LastOf
  <2>3. CASE i # n-1
    <3>1. i < n-1 /\ i+1 \in 1 .. n-1
      BY <1>1, <2>3
    <3> QED
      BY <1>2, <2>1, <3>1
  <2> QED
    BY <2>2, <2>3
<1> QED
  BY <1>2, <1>4, <1>5, <1>6, <1>7, <1>8 DEF p

\* A traversal that starts.
LEMMA StartStep ==
  ASSUME NEW E \in [Funcs -> SUBSET Funcs], NEW f \in Funcs
  PROVE  LET s == <<FrameOf(f, E[f])>> IN
         /\ s \in Seq(Frame) /\ Len(s) = 1 /\ s[1].node = f
         /\ Chain(s, E) /\ OnStack(s) = {f} /\ \A D : Settled(s, E, D)
<1> DEFINE x == FrameOf(f, E[f])
           s == <<x>>
<1>1. x \in Frame /\ x.node = f /\ x.edges = E[f]
  BY DEF FrameOf, Frame
<1> HIDE DEF x
<1>2. s \in Seq(Frame) /\ Len(s) = 1 /\ s[1] = x
  BY <1>1
<1>3. 1 .. 1 = {1} /\ 1 .. 1-1 = {}
  OBVIOUS
<1> HIDE DEF s
<1>4. Chain(s, E)
  BY <1>1, <1>2, <1>3 DEF Chain
<1>5. OnStack(s) = {f}
  BY <1>1, <1>2, <1>3 DEF OnStack
<1>6. \A D : Settled(s, E, D)
  BY <1>1, <1>2, <1>3 DEF Settled
<1> QED
  BY <1>1, <1>2, <1>4, <1>5, <1>6 DEF s, x

-----------------------------------------------------------------------------
(* Type correctness *)

LEMMA TypeStackOps ==
  ASSUME TypeOK, stack # <<>>
  PROVE  /\ Top \in Frame /\ Top.node \in Funcs /\ Top.edges \in SUBSET Funcs
         /\ Popped \in Seq(Frame)
         /\ \A e : Taken(e) \in Seq(Frame) /\ Taken(e) = TakeFrom(stack, e)
         /\ Top = LastOf(stack)
<1>1. stack \in Seq(Frame)
  BY DEF TypeOK
<1>2. Top \in Frame /\ Top.node \in Funcs /\ Top.edges \in SUBSET Funcs
  BY <1>1, StackBasics DEF Top
<1>3. Popped \in Seq(Frame)
  BY <1>1, FrontOf DEF Popped
<1>4. \A e : Taken(e) = TakeFrom(stack, e)
  BY DEF Taken, TakeFrom
<1>5. \A e : Taken(e) \in Seq(Frame)
  BY <1>1, <1>4, TakeShape
<1> QED
  BY <1>2, <1>3, <1>4, <1>5 DEF Top, LastOf

LEMMA EdgesType ==
  ASSUME calls \in [Funcs -> SUBSET Funcs], NEW f \in Funcs
  PROVE  /\ calls[f] \in SUBSET Funcs /\ DefinedEdges(f) \in SUBSET Funcs
         /\ DefinedEdges(f) \subseteq Defined
         /\ FrameOf(f, calls[f]) \in Frame /\ FrameOf(f, DefinedEdges(f)) \in Frame
BY CallGraphConstants DEF DefinedEdges, FrameOf, Frame, Defined, Funcs

LEMMA PathFromType ==
  ASSUME path \in Seq(Funcs), NEW f \in Funcs, NEW k \in DOMAIN path, path[k] = f,
         \A i, j \in DOMAIN path : path[i] = path[j] => i = j
  PROVE  /\ PathFrom(f) = Append(SubSeq(path, k, Len(path)), f)
         /\ PathFrom(f) \in Seq(Funcs)
<1>1. DOMAIN path = 1 .. Len(path) /\ Len(path) \in Nat
  BY LenProperties
<1>2. k = CHOOSE i \in DOMAIN path : path[i] = f /\ \A j \in DOMAIN path : path[j] = f => i <= j
  <2>1. k <= k
    BY <1>1
  <2>2. \A j \in DOMAIN path : path[j] = f => k = j
    OBVIOUS
  <2>3. \E i \in DOMAIN path : path[i] = f /\ \A j \in DOMAIN path : path[j] = f => i <= j
    BY <2>1, <2>2
  <2> QED
    BY <2>2, <2>3
<1>3. PathFrom(f) = Append(SubSeq(path, k, Len(path)), f)
  BY <1>2 DEF PathFrom
<1>4. SubSeq(path, k, Len(path)) \in Seq(Funcs)
  <2>1. \A i \in k .. Len(path) : path[i] \in Funcs
    BY <1>1, ElementOfSeq
  <2>2. k \in Int /\ Len(path) \in Int
    BY <1>1
  <2> QED
    BY <2>1, <2>2, SubSeqProperties
<1> QED
  BY <1>3, <1>4, AppendProperties

-----------------------------------------------------------------------------
(* find_call_cycle *)

Black == {f \in Funcs : color[f] = "Black"}
Gray  == {f \in Funcs : color[f] = "Gray"}

\* No cycle inside B.
WellFounded(B) == \A S \in SUBSET B : S # {} => \E u \in S : calls[u] \cap S = {}

DetectInv ==
  /\ pc = "detect" =>
       /\ Chain(stack, calls) /\ Settled(stack, calls, Black) /\ OnStack(stack) = Gray
       /\ Len(path) = Len(stack) /\ \A i \in 1 .. Len(stack) : path[i] = stack[i].node
       /\ \A f \in Black : calls[f] \subseteq Black
       /\ WellFounded(Black)
       /\ \A f \in Funcs : f < start => color[f] # "White"
  /\ CycleIsReal
  /\ NoCycleMissed

LEMMA GrowWellFounded ==
  ASSUME NEW B \in SUBSET Funcs, WellFounded(B), \A b \in B : calls[b] \subseteq B,
         NEW f \in Funcs, f \notin B, calls[f] \subseteq B
  PROVE  WellFounded(B \cup {f})
<1> SUFFICES ASSUME NEW S \in SUBSET (B \cup {f}), S # {} PROVE \E u \in S : calls[u] \cap S = {}
  BY DEF WellFounded
<1>1. CASE S \ {f} = {}
  <2>1. S = {f}
    BY <1>1
  <2> QED
    BY <2>1
<1>2. CASE S \ {f} # {}
  <2>1. S \ {f} \in SUBSET B
    OBVIOUS
  <2>2. PICK u \in S \ {f} : calls[u] \cap (S \ {f}) = {}
    BY <1>2, <2>1 DEF WellFounded
  <2>3. f \notin calls[u]
    BY <2>1
  <2> QED
    BY <2>2, <2>3
<1> QED
  BY <1>1, <1>2

\* The reported cycle, from an edge of the top frame to a function on the path.
LEMMA ReportIsCycle ==
  ASSUME TypeOK, DetectInv, pc = "detect", stack # <<>>, NEW next \in Top.edges, color[next] = "Gray"
  PROVE  LET c == PathFrom(next) IN
         /\ c \in Seq(Funcs) /\ Len(c) >= 2 /\ c[1] = c[Len(c)]
         /\ \A i \in 1 .. Len(c)-1 : c[i+1] \in calls[c[i]]
<1> DEFINE n == Len(path)
<1>1. /\ path \in Seq(Funcs) /\ stack \in Seq(Frame) /\ next \in Funcs
      /\ Chain(stack, calls) /\ OnStack(stack) = Gray /\ n = Len(stack)
      /\ \A i \in 1 .. n : path[i] = stack[i].node
  BY TypeStackOps DEF TypeOK, DetectInv
<1>2. n \in Nat /\ n >= 1 /\ DOMAIN path = 1 .. n /\ n \in 1 .. n
  BY <1>1, StackBasics, LenProperties
<1>3. PICK k \in 1 .. n : path[k] = next
  BY <1>1 DEF Gray, OnStack
<1>4. \A i, j \in DOMAIN path : path[i] = path[j] => i = j
  BY <1>1, <1>2 DEF Chain
<1>5. \A i \in 1 .. n-1 : path[i+1] \in calls[path[i]]
  <2> SUFFICES ASSUME NEW i \in 1 .. n-1 PROVE path[i+1] \in calls[path[i]]
    OBVIOUS
  <2>1. i \in 1 .. n /\ i+1 \in 1 .. n
    BY <1>2
  <2> QED
    BY <1>1, <2>1 DEF Chain
<1>6. next \in calls[path[n]]
  BY <1>1, <1>2 DEF Chain, Top
<1> DEFINE p == SubSeq(path, k, n)
           c == Append(p, next)
           l == n-k+1
<1>7. PathFrom(next) = c /\ c \in Seq(Funcs)
  BY <1>1, <1>2, <1>3, <1>4, PathFromType
<1>8. /\ p \in Seq(Funcs) /\ Len(p) = l /\ l \in Nat /\ l >= 1
      /\ \A i \in 1 .. l : p[i] = path[k+i-1]
  <2>1. k \in Int /\ n \in Int /\ k <= n /\ \A i \in k .. n : path[i] \in Funcs
    BY <1>1, <1>2, ElementOfSeq
  <2> QED
    BY <1>2, <2>1, SubSeqProperties
<1> HIDE DEF p
<1>9. /\ Len(c) = l+1 /\ c[l+1] = next /\ \A i \in 1 .. l : c[i] = path[k+i-1]
  <2>1. /\ Len(c) = Len(p)+1 /\ c[Len(p)+1] = next /\ \A i \in 1 .. Len(p) : c[i] = p[i]
    BY <1>1, <1>8, AppendProperties
  <2> HIDE DEF c, l
  <2> QED
    BY <1>8, <2>1
<1> HIDE DEF c
<1>10. c[1] = next
  <2>1. 1 \in 1 .. l /\ k+1-1 = k
    BY <1>2, <1>8
  <2> QED
    BY <1>3, <1>9, <2>1
<1>11. \A i \in 1 .. l : c[i+1] \in calls[c[i]]
  <2> SUFFICES ASSUME NEW i \in 1 .. l PROVE c[i+1] \in calls[c[i]]
    OBVIOUS
  <2>1. CASE i = l
    <3>1. k+i-1 = n
      BY <1>2, <1>8, <2>1
    <3> QED
      BY <1>6, <1>9, <2>1, <3>1
  <2>2. CASE i # l
    <3>a. k \in Int /\ k >= 1 /\ n \in Int /\ l \in Int
      BY <1>2
    <3>b. i \in 1 .. l
      OBVIOUS
    <3>0. k \in Int /\ k >= 1 /\ i \in Int /\ i >= 1 /\ i < l /\ n \in Int
      BY <2>2, <3>a, <3>b
    <3>1. i+1 \in 1 .. l /\ k+i-1 \in 1 .. n-1
      BY <3>0
    <3>2. k+(i+1)-1 = (k+i-1)+1
      BY <3>0
    <3> QED
      BY <1>5, <1>9, <3>1, <3>2
  <2> QED
    BY <2>1, <2>2
<1>12. Len(c) >= 2 /\ Len(c)-1 = l
  BY <1>8, <1>9
<1> QED
  BY <1>7, <1>9, <1>10, <1>11, <1>12

-----------------------------------------------------------------------------
(* Steps preserve types and the invariant of find_call_cycle *)

LEMMA NextTypeOK == TypeOK /\ DetectInv /\ [Next]_vars => TypeOK'
<1> SUFFICES ASSUME TypeOK, DetectInv, [Next]_vars PROVE TypeOK'
  OBVIOUS
<1> USE CallGraphConstants DEF detect, ordering
<1>a. start < NFuncs /\ (start \in 0 .. NFuncs) => start \in Funcs /\ start+1 \in 0 .. NFuncs
  BY DEF Funcs
<1>b. start \in 0 .. NFuncs /\ stack \in Seq(Frame) /\ path \in Seq(Funcs) /\ order \in Seq(Funcs)
  BY DEF TypeOK
<1>c. \A f \in Funcs : FrameOf(f, calls[f]) \in Frame /\ FrameOf(f, DefinedEdges(f)) \in Frame
  BY EdgesType DEF TypeOK
<1>d. \A f \in Funcs, g \in Funcs :
        /\ <<FrameOf(f, calls[f])>> \in Seq(Frame)
        /\ <<FrameOf(f, DefinedEdges(f))>> \in Seq(Frame)
  BY <1>c
<1>e. path # <<>> => SubSeq(path, 1, Len(path)-1) \in Seq(Funcs)
  BY <1>b, FrontOf
<1>f. stack # <<>> /\ pc = "detect" => path # <<>>
  <2>1. stack # <<>> => Len(stack) # 0
    BY <1>b, EmptySeq
  <2> QED
    BY <2>1 DEF DetectInv
<1>1. CASE DetectStart
  BY <1>1, <1>a, <1>b, <1>d, AppendProperties DEF DetectStart, Paint, TypeOK
<1>2. CASE DetectSkip
  BY <1>2, <1>a DEF DetectSkip, TypeOK
<1>3. CASE DetectDescend
  <2>1. PICK next \in Top.edges :
          /\ color' = [color EXCEPT ![next] = "Gray"] /\ path' = Append(path, next)
          /\ stack' = Append(Taken(next), FrameOf(next, calls[next]))
    BY <1>3 DEF DetectDescend, Paint
  <2>2. next \in Funcs /\ Taken(next) \in Seq(Frame)
    BY <1>3, TypeStackOps DEF DetectDescend
  <2>3. stack' \in Seq(Frame) /\ path' \in Seq(Funcs)
    BY <1>b, <1>c, <2>1, <2>2, AppendProperties
  <2> QED
    BY <1>3, <2>1, <2>2, <2>3 DEF DetectDescend, TypeOK
<1>4. CASE DetectCycle
  <2>1. PICK next \in Top.edges :
          color[next] = "Gray" /\ cycle' = PathFrom(next) /\ stack' = Taken(next)
    BY <1>4 DEF DetectCycle
  <2>2. cycle' \in Seq(Funcs) /\ stack' \in Seq(Frame)
    BY <1>4, <2>1, ReportIsCycle, TypeStackOps DEF DetectCycle
  <2> QED
    BY <1>4, <2>2 DEF DetectCycle, TypeOK
<1>5. CASE DetectPass
  BY <1>5, TypeStackOps DEF DetectPass, TypeOK
<1>6. CASE DetectFinish
  BY <1>6, <1>e, <1>f, TypeStackOps DEF DetectFinish, Paint, TypeOK
<1>7. CASE DetectDone
  BY <1>7 DEF DetectDone, TypeOK
<1>8. CASE OrderStart
  BY <1>8, <1>a, <1>b, <1>d DEF OrderStart, SetState, TypeOK
<1>9. CASE OrderSkip
  BY <1>9, <1>a DEF OrderSkip, TypeOK
<1>10. CASE OrderDescend
  <2>1. PICK next \in Top.edges :
          /\ state' = [state EXCEPT ![next] = "InProgress"]
          /\ stack' = Append(Taken(next), FrameOf(next, DefinedEdges(next)))
    BY <1>10 DEF OrderDescend, SetState
  <2>2. next \in Funcs /\ Taken(next) \in Seq(Frame)
    BY <1>10, TypeStackOps DEF OrderDescend
  <2>3. stack' \in Seq(Frame)
    BY <1>c, <2>1, <2>2, AppendProperties
  <2> QED
    BY <1>10, <2>1, <2>2, <2>3 DEF OrderDescend, TypeOK
<1>11. CASE OrderPass
  BY <1>11, TypeStackOps DEF OrderPass, TypeOK
<1>12. CASE OrderFinish
  BY <1>12, <1>b, TypeStackOps, AppendProperties DEF OrderFinish, SetState, TypeOK
<1>13. CASE OrderDone
  BY <1>13 DEF OrderDone, TypeOK
<1>14. CASE UNCHANGED vars
  BY <1>14 DEF vars, TypeOK
<1> QED
  BY <1>1, <1>2, <1>3, <1>4, <1>5, <1>6, <1>7, <1>8, <1>9, <1>10, <1>11, <1>12, <1>13, <1>14
     DEF Next, Detect, Order

LEMMA NextDetectInv == TypeOK /\ DetectInv /\ [Next]_vars => DetectInv'
<1> SUFFICES ASSUME TypeOK, DetectInv, [Next]_vars PROVE DetectInv'
  OBVIOUS
<1> USE CallGraphConstants DEF detect, ordering, CycleIsReal, NoCycleMissed
<1>a. /\ calls \in [Funcs -> SUBSET Funcs] /\ color \in [Funcs -> {"White", "Gray", "Black"}]
      /\ stack \in Seq(Frame) /\ path \in Seq(Funcs) /\ start \in 0 .. NFuncs
  BY DEF TypeOK
<1>b. /\ Black \in SUBSET Funcs /\ Gray \in SUBSET Funcs
      /\ Black' = {f \in Funcs : color'[f] = "Black"} /\ Gray' = {f \in Funcs : color'[f] = "Gray"}
  BY DEF Black, Gray
<1>split. \A f \in Funcs : f < start+1 => f < start \/ f = start
  BY <1>a DEF Funcs
<1>c. ASSUME UNCHANGED calls, NEW B PROVE WellFounded(B)' <=> WellFounded(B)
  BY <1>c DEF WellFounded
<1>1. CASE DetectStart
  <2>1. /\ pc = "detect" /\ pc' = "detect" /\ stack = <<>> /\ start \in Funcs /\ calls' = calls
        /\ color[start] = "White" /\ color' = [color EXCEPT ![start] = "Gray"]
        /\ path' = Append(path, start) /\ start' = start+1
        /\ stack' = <<FrameOf(start, calls[start])>>
    BY <1>1, <1>a DEF DetectStart, Paint, Funcs
  <2>2. /\ Len(stack') = 1 /\ stack'[1].node = start /\ Chain(stack', calls)
        /\ OnStack(stack') = {start} /\ \A D : Settled(stack', calls, D)
    BY <1>a, <2>1, StartStep
  <2>3. Gray = {} /\ Len(path) = 0
    <3>1. Len(stack) = 0
      BY <2>1
    <3> QED
      BY <2>1, <3>1 DEF DetectInv, OnStack
  <2>4. Black' = Black /\ Gray' = {start}
    BY <1>a, <1>b, <2>1, <2>3 DEF Black, Gray
  <2>5. Len(path') = 1 /\ path'[1] = start
    BY <1>a, <2>1, <2>3, AppendProperties
  <2>6. \A f \in Funcs : f < start' => color'[f] # "White"
    BY <1>a, <1>split, <2>1 DEF DetectInv
  <2>7. \A i \in 1 .. Len(stack') : path'[i] = stack'[i].node
    <3>1. \A i \in 1 .. 1 : i = 1
      OBVIOUS
    <3> QED
      BY <2>2, <2>5, <3>1
  <2> QED
    BY <1>c, <2>1, <2>2, <2>4, <2>5, <2>6, <2>7 DEF DetectInv
<1>2. CASE DetectSkip
  <2>1. /\ pc = "detect" /\ pc' = "detect" /\ color[start] # "White" /\ start' = start+1
        /\ UNCHANGED <<calls, stack, color, path, cycle>>
    BY <1>2 DEF DetectSkip
  <2>2. Black' = Black /\ Gray' = Gray
    BY <2>1 DEF Black, Gray
  <2>3. \A f \in Funcs : f < start' => color'[f] # "White"
    BY <1>a, <1>split, <2>1 DEF DetectInv
  <2> QED
    BY <1>c, <2>1, <2>2, <2>3 DEF DetectInv
<1>3. CASE DetectDescend
  <2>1. PICK next \in Top.edges :
          /\ color[next] = "White" /\ color' = [color EXCEPT ![next] = "Gray"]
          /\ path' = Append(path, next)
          /\ stack' = Append(Taken(next), FrameOf(next, calls[next]))
    BY <1>3 DEF DetectDescend, Paint
  <2>2. pc = "detect" /\ pc' = "detect" /\ stack # <<>> /\ UNCHANGED <<calls, start>>
    BY <1>3 DEF DetectDescend
  <2>3. next \in Funcs /\ next \notin OnStack(stack) /\ next \in LastOf(stack).edges
        /\ Taken(next) = TakeFrom(stack, next)
    BY <2>1, <2>2, TypeStackOps DEF DetectInv, Gray
  <2>4. /\ Chain(stack', calls) /\ OnStack(stack') = OnStack(stack) \cup {next}
        /\ Len(stack') = Len(stack)+1 /\ stack'[Len(stack')].node = next
        /\ \A i \in 1 .. Len(stack) : stack'[i].node = stack[i].node
        /\ \A D : Settled(stack, calls, D) => Settled(stack', calls, D)
    BY <1>a, <2>1, <2>2, <2>3, DescendStep DEF DetectInv
  <2>5. Black' = Black /\ Gray' = Gray \cup {next}
    BY <1>a, <1>b, <2>1, <2>3 DEF Black, Gray
  <2>6. Len(path) = Len(stack) /\ Len(stack) \in Nat /\ \A i \in 1 .. Len(stack) : path[i] = stack[i].node
    BY <1>a, <2>2, LenProperties DEF DetectInv
  <2>7. Len(path') = Len(stack') /\ \A i \in 1 .. Len(stack') : path'[i] = stack'[i].node
    <3>1. /\ Len(path') = Len(path)+1 /\ path'[Len(path)+1] = next
          /\ \A i \in 1 .. Len(path) : path'[i] = path[i]
      BY <1>a, <2>1, <2>3, AppendProperties
    <3>2. \A i \in 1 .. Len(stack)+1 : i = Len(stack)+1 \/ i \in 1 .. Len(stack)
      BY <2>6
    <3> QED
      BY <2>4, <2>6, <3>1, <3>2
  <2>8. \A f \in Funcs : f < start' => color'[f] # "White"
    BY <1>a, <2>1, <2>2 DEF DetectInv
  <2> QED
    BY <1>c, <2>2, <2>4, <2>5, <2>7, <2>8 DEF DetectInv
<1>4. CASE DetectCycle
  <2>1. PICK next \in Top.edges : color[next] = "Gray" /\ cycle' = PathFrom(next)
    BY <1>4 DEF DetectCycle
  <2>2. pc = "detect" /\ pc' = "bail" /\ stack # <<>> /\ UNCHANGED calls
    BY <1>4 DEF DetectCycle
  <2> QED
    BY <2>1, <2>2, ReportIsCycle DEF DetectInv
<1>5. CASE DetectPass
  <2>1. PICK next \in Top.edges : color[next] = "Black" /\ stack' = Taken(next)
    BY <1>5 DEF DetectPass
  <2>2. /\ pc = "detect" /\ pc' = "detect" /\ stack # <<>> /\ UNCHANGED <<calls, start, color, path, cycle>>
    BY <1>5 DEF DetectPass
  <2>3. next \in Black /\ stack' = TakeFrom(stack, next)
    BY <2>1, <2>2, TypeStackOps DEF Black
  <2>4. /\ Chain(stack', calls) /\ OnStack(stack') = OnStack(stack) /\ Settled(stack', calls, Black)
    BY <1>a, <2>2, <2>3, TakeStep DEF DetectInv
  <2>5. Len(stack') = Len(stack) /\ \A i \in 1 .. Len(stack) : stack'[i].node = stack[i].node
    BY <1>a, <2>2, <2>3, TakeShape
  <2>6. Black' = Black /\ Gray' = Gray
    BY <2>2 DEF Black, Gray
  <2> QED
    BY <1>c, <2>2, <2>4, <2>5, <2>6 DEF DetectInv
<1>6. CASE DetectFinish
  <2> DEFINE f == Top.node
             n == Len(stack)
  <2>1. /\ pc = "detect" /\ pc' = "detect" /\ stack # <<>> /\ Top.edges = {}
        /\ color' = [color EXCEPT ![f] = "Black"] /\ stack' = SubSeq(stack, 1, n-1)
        /\ path' = SubSeq(path, 1, Len(path)-1) /\ UNCHANGED <<calls, start>>
    BY <1>6 DEF DetectFinish, Paint, Popped
  <2>2. f \in Funcs /\ f = LastOf(stack).node /\ LastOf(stack).edges = {}
    BY <2>1, TypeStackOps
  <2>3. Chain(stack, calls) /\ Settled(stack, calls, Black)
    BY <2>1 DEF DetectInv
  <2>4. /\ Len(stack') = n-1 /\ \A i \in 1 .. n-1 : stack'[i] = stack[i]
        /\ Chain(stack', calls) /\ f \in OnStack(stack) /\ OnStack(stack') = OnStack(stack) \ {f}
        /\ calls[f] \subseteq Black /\ Settled(stack', calls, Black \cup {f})
    BY <1>a, <2>1, <2>2, <2>3, PopStep
  <2>5. f \in Gray /\ f \notin Black
    BY <2>1, <2>4 DEF DetectInv, Gray, Black
  <2>6. Black' = Black \cup {f} /\ Gray' = Gray \ {f}
    BY <1>a, <1>b, <2>1, <2>2 DEF Black, Gray
  <2>7. WellFounded(Black')
    BY <1>b, <2>1, <2>2, <2>4, <2>5, <2>6, GrowWellFounded DEF DetectInv
  <2>8. Len(path') = Len(stack') /\ \A i \in 1 .. Len(stack') : path'[i] = stack'[i].node
    <3>1. n \in Nat /\ n >= 1 /\ Len(path) = n /\ \A i \in 1 .. n : path[i] = stack[i].node
      BY <1>a, <2>1, StackBasics DEF DetectInv
    <3>2. path # <<>>
      BY <3>1
    <3>3. Len(path') = n-1 /\ \A i \in 1 .. n-1 : path'[i] = path[i]
      BY <1>a, <2>1, <3>1, <3>2, FrontOf
    <3>4. \A i \in 1 .. n-1 : i \in 1 .. n
      BY <3>1
    <3> QED
      BY <2>4, <3>1, <3>3, <3>4
  <2>9. \A g \in Black' : calls[g] \subseteq Black'
    BY <2>1, <2>4, <2>6 DEF DetectInv
  <2>10. \A g \in Funcs : g < start' => color'[g] # "White"
    BY <1>a, <2>1 DEF DetectInv
  <2>11. OnStack(stack') = Gray'
    BY <2>1, <2>4, <2>6 DEF DetectInv
  <2> QED
    BY <1>c, <2>1, <2>4, <2>6, <2>7, <2>8, <2>9, <2>10, <2>11 DEF DetectInv
<1>7. CASE DetectDone
  <2>1. pc = "detect" /\ pc' = "order" /\ stack = <<>> /\ start = NFuncs /\ UNCHANGED <<calls, color>>
    BY <1>7 DEF DetectDone
  <2>2. Gray = {}
    <3>1. Len(stack) = 0
      BY <2>1
    <3> QED
      BY <2>1, <3>1 DEF DetectInv, OnStack
  <2>3. \A f \in Funcs : color[f] = "Black"
    BY <1>a, <2>1, <2>2 DEF DetectInv, Gray, Funcs
  <2>4. Black = Funcs
    BY <2>3 DEF Black
  <2> QED
    BY <1>c, <2>1, <2>4 DEF DetectInv, WellFounded, Acyclic
<1>8. CASE Order
  <2>1. pc = "order" /\ pc' \in {"order", "done"} /\ UNCHANGED <<calls, color, path, cycle>>
    BY <1>8 DEF Order, OrderStart, OrderSkip, OrderDescend, OrderPass, OrderFinish, OrderDone
  <2> QED
    BY <2>1 DEF DetectInv, Acyclic
<1>9. CASE UNCHANGED vars
  BY <1>9 DEF vars, DetectInv, Black, Gray, WellFounded, Acyclic
<1> QED
  BY <1>1, <1>2, <1>3, <1>4, <1>5, <1>6, <1>7, <1>8, <1>9 DEF Next, Detect

LEMMA DetectInvariant == Spec => [](TypeOK /\ DetectInv)
<1>1. Init => TypeOK
  BY CallGraphConstants, CallGraphGraphs DEF Init, TypeOK
<1>2. Init => DetectInv
  <2> SUFFICES ASSUME Init PROVE DetectInv
    OBVIOUS
  <2>1. Len(stack) = 0 /\ Len(path) = 0 /\ Black = {} /\ Gray = {} /\ 1 .. 0 = {} /\ 1 .. 0-1 = {}
    BY DEF Init, Black, Gray
  <2>2. Chain(stack, calls) /\ Settled(stack, calls, Black) /\ OnStack(stack) = {}
    BY <2>1 DEF Chain, Settled, OnStack
  <2>3. WellFounded(Black)
    BY <2>1 DEF WellFounded
  <2>4. \A f \in Funcs : ~(f < start)
    BY CallGraphConstants DEF Init, Funcs
  <2> QED
    BY <2>1, <2>2, <2>3, <2>4 DEF Init, DetectInv, CycleIsReal, NoCycleMissed
<1> QED
  BY <1>1, <1>2, NextTypeOK, NextDetectInv, PTL DEF Spec

\* What is reported as recursion is recursion.
THEOREM ReportedCycleIsReal == Spec => []CycleIsReal
<1>1. DetectInv => CycleIsReal
  BY DEF DetectInv
<1> QED
  BY <1>1, DetectInvariant, PTL

\* And none is missed: the inliner never starts on a cyclic call graph.
THEOREM RecursionNeverMissed == Spec => []NoCycleMissed
<1>1. DetectInv => NoCycleMissed
  BY DEF DetectInv
<1> QED
  BY <1>1, DetectInvariant, PTL

-----------------------------------------------------------------------------
(* topo_post_order *)

DefEdges == [f \in Funcs |-> DefinedEdges(f)]

Finished  == {f \in Funcs : state[f] = "Done"}
Unfinished == {f \in Funcs : state[f] = "InProgress"}

Ordering ==
  /\ Chain(stack, DefEdges) /\ Settled(stack, DefEdges, Finished) /\ OnStack(stack) = Unfinished
  /\ \A f \in Defined : f < start => state[f] # "Unvisited"

OrderInv ==
  /\ pc \in {"detect", "bail"} => order = <<>> /\ \A f \in Funcs : state[f] = "Unvisited"
  /\ pc = "order" => Ordering
  /\ \A i \in DOMAIN order : state[order[i]] = "Done"
  /\ \A f \in Finished : \E i \in DOMAIN order : order[i] = f
  /\ \A i, j \in DOMAIN order : order[i] = order[j] => i = j
  /\ CalleesFirst
  /\ OrderComplete

\* An edge back to a function on the stack would close a cycle.
LEMMA NoBackEdge ==
  ASSUME TypeOK, Acyclic, stack # <<>>, Chain(stack, DefEdges), NEW next \in Top.edges
  PROVE  next \notin OnStack(stack)
<1> SUFFICES ASSUME next \in OnStack(stack) PROVE FALSE
  OBVIOUS
<1> DEFINE n == Len(stack)
<1>1. /\ n \in Nat /\ n >= 1 /\ n \in 1 .. n
      /\ \A i \in 1 .. n : stack[i].node \in Funcs
  BY StackBasics DEF TypeOK
<1>2. PICK k \in 1 .. n : stack[k].node = next
  BY DEF OnStack
<1>3. \A f \in Funcs : DefEdges[f] \subseteq calls[f]
  BY DEF DefEdges, DefinedEdges
<1>4. next \in calls[stack[n].node]
  BY <1>1, <1>3 DEF Chain, Top
<1>5. \A i \in 1 .. n-1 : stack[i+1].node \in calls[stack[i].node]
  <2>1. \A i \in 1 .. n-1 : i \in 1 .. n
    BY <1>1
  <2> QED
    BY <1>1, <1>3, <2>1 DEF Chain
<1> DEFINE S == {stack[j].node : j \in k .. n}
<1>6. \A j \in k .. n : j \in 1 .. n /\ (j = n \/ (j \in 1 .. n-1 /\ j+1 \in k .. n))
  BY <1>1
<1>7. k \in k .. n
  BY <1>1
<1>8. S \in SUBSET Funcs /\ S # {}
  BY <1>1, <1>6, <1>7
<1>9. PICK u \in S : calls[u] \cap S = {}
  BY <1>8 DEF Acyclic
<1>10. PICK j \in k .. n : u = stack[j].node
  OBVIOUS
<1>11. CASE j = n
  BY <1>2, <1>4, <1>7, <1>9, <1>10, <1>11
<1>12. CASE j # n
  <2>1. j \in 1 .. n-1 /\ j+1 \in k .. n
    BY <1>6, <1>12
  <2>2. stack[j+1].node \in S
    BY <2>1
  <2> QED
    BY <1>5, <1>9, <1>10, <2>1, <2>2
<1> QED
  BY <1>11, <1>12

LEMMA NextOrderInv == TypeOK /\ DetectInv /\ OrderInv /\ [Next]_vars => OrderInv'
<1> SUFFICES ASSUME TypeOK, DetectInv, OrderInv, [Next]_vars PROVE OrderInv'
  OBVIOUS
<1> USE CallGraphConstants DEF detect, ordering
<1>a. /\ calls \in [Funcs -> SUBSET Funcs] /\ state \in [Funcs -> {"Unvisited", "InProgress", "Done"}]
      /\ stack \in Seq(Frame) /\ order \in Seq(Funcs) /\ start \in 0 .. NFuncs
  BY DEF TypeOK
<1>b. Finished \in SUBSET Funcs /\ Unfinished \in SUBSET Funcs
  BY DEF Finished, Unfinished
<1>c. DefEdges \in [Funcs -> SUBSET Funcs] /\ \A f \in Funcs : DefEdges[f] = DefinedEdges(f)
  BY <1>a, EdgesType DEF DefEdges
<1>d. ASSUME UNCHANGED calls PROVE DefEdges' = DefEdges /\ \A f : DefinedEdges(f)' = DefinedEdges(f)
  BY <1>d DEF DefEdges, DefinedEdges
<1>e. \A f \in Funcs : f < start+1 => f < start \/ f = start
  BY <1>a DEF Funcs
<1>f. Defined \subseteq Funcs
  BY DEF Defined, Funcs
<1>g. ASSUME UNCHANGED <<calls, state, order>>, pc' # "done"
      PROVE  /\ \A i \in DOMAIN order' : state'[order'[i]] = "Done"
             /\ \A f \in Finished' : \E i \in DOMAIN order' : order'[i] = f
             /\ \A i, j \in DOMAIN order' : order'[i] = order'[j] => i = j
             /\ CalleesFirst' /\ OrderComplete'
  <2>1. Finished' = Finished
    BY <1>g DEF Finished
  <2>2. CalleesFirst'
    BY <1>d, <1>g DEF OrderInv, CalleesFirst
  <2> QED
    BY <1>g, <2>1, <2>2 DEF OrderInv, OrderComplete
<1>1. CASE Detect /\ ~DetectDone
  <2>1. pc = "detect" /\ pc' \in {"detect", "bail"} /\ UNCHANGED <<calls, state, order>>
    BY <1>1 DEF Detect, DetectStart, DetectSkip, DetectDescend, DetectCycle, DetectPass, DetectFinish
  <2> QED
    BY <1>g, <2>1 DEF OrderInv
<1>2. CASE DetectDone
  <2>1. /\ pc = "detect" /\ pc' = "order" /\ stack = <<>> /\ start' = NImpF
        /\ UNCHANGED <<calls, state, order, stack>>
    BY <1>2 DEF DetectDone
  <2>2. Unfinished' = {} /\ Len(stack) = 0 /\ 1 .. 0 = {} /\ 1 .. 0-1 = {}
    BY <2>1 DEF OrderInv, Unfinished
  <2>3. \A f \in Defined : ~(f < start')
    BY <2>1 DEF Defined
  <2>4. Chain(stack, DefEdges) /\ Settled(stack, DefEdges, Finished') /\ OnStack(stack) = {}
    BY <2>2 DEF Chain, Settled, OnStack
  <2> QED
    BY <1>d, <1>g, <2>1, <2>2, <2>3, <2>4 DEF OrderInv, Ordering
<1>3. CASE OrderStart
  <2>1. /\ pc = "order" /\ pc' = "order" /\ stack = <<>> /\ start \in Funcs /\ start' = start+1
        /\ state[start] = "Unvisited" /\ state' = [state EXCEPT ![start] = "InProgress"]
        /\ stack' = <<FrameOf(start, DefEdges[start])>> /\ UNCHANGED <<calls, order>>
    BY <1>3, <1>a, <1>c DEF OrderStart, SetState, Funcs
  <2>2. /\ Chain(stack', DefEdges) /\ OnStack(stack') = {start} /\ \A D : Settled(stack', DefEdges, D)
    BY <1>c, <2>1, StartStep
  <2>3. Unfinished = {}
    <3>1. Len(stack) = 0
      BY <2>1
    <3> QED
      BY <2>1, <3>1 DEF OrderInv, Ordering, OnStack
  <2>4. Finished' = Finished /\ Unfinished' = {start}
    BY <1>a, <2>1, <2>3 DEF Finished, Unfinished
  <2>5. \A f \in Defined : f < start' => state'[f] # "Unvisited"
    BY <1>a, <1>e, <1>f, <2>1 DEF OrderInv, Ordering
  <2>6. Ordering'
    BY <1>d, <2>1, <2>2, <2>4, <2>5 DEF Ordering
  <2>7. \A i \in DOMAIN order : order[i] \in Funcs /\ order[i] # start
    BY <1>a, <2>1, ElementOfSeq, LenProperties DEF OrderInv
  <2>8. \A i \in DOMAIN order' : state'[order'[i]] = "Done"
    BY <1>a, <2>1, <2>7 DEF OrderInv
  <2>9. CalleesFirst'
    BY <1>d, <2>1 DEF OrderInv, CalleesFirst
  <2> QED
    BY <2>1, <2>4, <2>6, <2>8, <2>9 DEF OrderInv, OrderComplete
<1>4. CASE OrderSkip
  <2>1. /\ pc = "order" /\ pc' = "order" /\ state[start] # "Unvisited" /\ start' = start+1
        /\ UNCHANGED <<calls, stack, state, order>>
    BY <1>4 DEF OrderSkip
  <2>2. Finished' = Finished /\ Unfinished' = Unfinished
    BY <2>1 DEF Finished, Unfinished
  <2>3. \A f \in Defined : f < start' => state'[f] # "Unvisited"
    BY <1>a, <1>e, <1>f, <2>1 DEF OrderInv, Ordering
  <2>4. Ordering'
    BY <1>d, <2>1, <2>2, <2>3 DEF OrderInv, Ordering
  <2> QED
    BY <1>g, <2>1, <2>4 DEF OrderInv
<1>5. CASE OrderDescend
  <2>1. PICK next \in Top.edges :
          /\ state[next] = "Unvisited" /\ state' = [state EXCEPT ![next] = "InProgress"]
          /\ stack' = Append(Taken(next), FrameOf(next, DefinedEdges(next)))
    BY <1>5 DEF OrderDescend, SetState
  <2>2. pc = "order" /\ pc' = "order" /\ stack # <<>> /\ UNCHANGED <<calls, start, order>>
    BY <1>5 DEF OrderDescend
  <2>3. /\ next \in Funcs /\ next \notin OnStack(stack) /\ next \in LastOf(stack).edges
        /\ Taken(next) = TakeFrom(stack, next)
    BY <2>1, <2>2, TypeStackOps DEF OrderInv, Ordering, Unfinished
  <2>4. /\ Chain(stack', DefEdges) /\ OnStack(stack') = OnStack(stack) \cup {next}
        /\ \A D : Settled(stack, DefEdges, D) => Settled(stack', DefEdges, D)
    <3>1. stack' = Append(TakeFrom(stack, next), FrameOf(next, DefEdges[next]))
      BY <1>c, <2>1, <2>3
    <3>2. Chain(stack, DefEdges)
      BY <2>2 DEF OrderInv, Ordering
    <3> QED
      BY <1>a, <1>c, <2>2, <2>3, <3>1, <3>2, DescendStep
  <2>5. Finished' = Finished /\ Unfinished' = Unfinished \cup {next}
    BY <1>a, <2>1, <2>3 DEF Finished, Unfinished
  <2>6. \A f \in Defined : f < start' => state'[f] # "Unvisited"
    BY <1>a, <1>f, <2>1, <2>2 DEF OrderInv, Ordering
  <2>7. Ordering'
    BY <1>d, <2>2, <2>4, <2>5, <2>6 DEF OrderInv, Ordering
  <2>8. \A i \in DOMAIN order : order[i] \in Funcs /\ order[i] # next
    BY <1>a, <2>1, ElementOfSeq, LenProperties DEF OrderInv
  <2>9. \A i \in DOMAIN order' : state'[order'[i]] = "Done"
    BY <1>a, <2>1, <2>2, <2>8 DEF OrderInv
  <2>10. CalleesFirst'
    BY <1>d, <2>2 DEF OrderInv, CalleesFirst
  <2> QED
    BY <2>2, <2>5, <2>7, <2>9, <2>10 DEF OrderInv, OrderComplete
<1>6. CASE OrderPass
  <2>1. PICK next \in Top.edges : state[next] # "Unvisited" /\ stack' = Taken(next)
    BY <1>6 DEF OrderPass
  <2>2. pc = "order" /\ pc' = "order" /\ stack # <<>> /\ UNCHANGED <<calls, start, state, order>>
    BY <1>6 DEF OrderPass
  <2>3. Chain(stack, DefEdges) /\ Settled(stack, DefEdges, Finished) /\ OnStack(stack) = Unfinished
    BY <2>2 DEF OrderInv, Ordering
  <2>4. next \notin OnStack(stack)
    BY <2>2, <2>3, NoBackEdge DEF DetectInv, NoCycleMissed
  <2>5. next \in Finished /\ stack' = TakeFrom(stack, next)
    BY <1>a, <2>1, <2>2, <2>3, <2>4, TypeStackOps DEF Finished, Unfinished
  <2>6. Chain(stack', DefEdges) /\ OnStack(stack') = OnStack(stack) /\ Settled(stack', DefEdges, Finished)
    BY <1>a, <2>2, <2>3, <2>5, TakeStep
  <2>7. Finished' = Finished /\ Unfinished' = Unfinished
    BY <2>2 DEF Finished, Unfinished
  <2>8. Ordering'
    BY <1>d, <2>2, <2>3, <2>6, <2>7 DEF OrderInv, Ordering
  <2> QED
    BY <1>g, <2>2, <2>8 DEF OrderInv
<1>7. CASE OrderFinish
  <2> DEFINE f == Top.node
  <2>1. /\ pc = "order" /\ pc' = "order" /\ stack # <<>> /\ Top.edges = {}
        /\ state' = [state EXCEPT ![f] = "Done"] /\ order' = Append(order, f)
        /\ stack' = SubSeq(stack, 1, Len(stack)-1) /\ UNCHANGED <<calls, start>>
    BY <1>7 DEF OrderFinish, SetState, Popped
  <2>2. f \in Funcs /\ f = LastOf(stack).node /\ LastOf(stack).edges = {}
    BY <2>1, TypeStackOps
  <2>3. Chain(stack, DefEdges) /\ Settled(stack, DefEdges, Finished) /\ OnStack(stack) = Unfinished
    BY <2>1 DEF OrderInv, Ordering
  <2>4. /\ Chain(stack', DefEdges) /\ f \in OnStack(stack) /\ OnStack(stack') = OnStack(stack) \ {f}
        /\ DefEdges[f] \subseteq Finished /\ Settled(stack', DefEdges, Finished \cup {f})
    BY <1>a, <2>1, <2>2, <2>3, PopStep
  <2> HIDE DEF f
  <2>5. state[f] = "InProgress"
    BY <2>3, <2>4 DEF Unfinished
  <2>6. Finished' = Finished \cup {f} /\ Unfinished' = Unfinished \ {f}
    BY <1>a, <2>1, <2>2 DEF Finished, Unfinished
  <2>7. \A g \in Defined : g < start' => state'[g] # "Unvisited"
    BY <1>a, <1>f, <2>1 DEF OrderInv, Ordering
  <2>8. Ordering'
    BY <1>d, <2>1, <2>3, <2>4, <2>6, <2>7 DEF Ordering
  <2> DEFINE m == Len(order)
  <2>9. m \in Nat /\ DOMAIN order = 1 .. m /\ \A i \in 1 .. m : order[i] \in Funcs /\ order[i] # f
    BY <1>a, <2>5, ElementOfSeq, LenProperties DEF OrderInv
  <2>10. /\ DOMAIN order' = 1 .. m+1 /\ order'[m+1] = f /\ \A i \in 1 .. m : order'[i] = order[i]
    <3>1. /\ order' \in Seq(Funcs) /\ Len(order') = m+1 /\ order'[m+1] = f
          /\ \A i \in 1 .. m : order'[i] = order[i]
      BY <1>a, <2>1, <2>2, AppendProperties
    <3> QED
      BY <3>1, LenProperties
  <2> HIDE DEF m
  <2>11. \A i \in 1 .. m+1 : i = m+1 \/ i \in 1 .. m
    BY <2>9
  <2>12. \A i \in 1 .. m : i \in 1 .. m+1 /\ i < m+1
    BY <2>9
  <2>13. m+1 \in 1 .. m+1
    BY <2>9
  <2>14. \A i \in DOMAIN order' : state'[order'[i]] = "Done"
    BY <1>a, <2>1, <2>2, <2>9, <2>10, <2>11 DEF OrderInv
  <2>15. \A g \in Finished' : \E i \in DOMAIN order' : order'[i] = g
    BY <2>6, <2>9, <2>10, <2>12, <2>13 DEF OrderInv
  <2>16. \A i, j \in DOMAIN order' : order'[i] = order'[j] => i = j
    BY <2>9, <2>10, <2>11 DEF OrderInv
  <2>17. CalleesFirst'
    <3>a. CalleesFirst' <=> \A i \in DOMAIN order' : \A c \in DefinedEdges(order[i])' :
                              \E j \in DOMAIN order' : j < i /\ order'[j] = c
      BY DEF CalleesFirst
    <3>b. \A i : DefinedEdges(order[i])' = DefinedEdges(order'[i])
      BY <2>1 DEF DefinedEdges
    <3> SUFFICES ASSUME NEW i \in 1 .. m+1, NEW c \in DefinedEdges(order'[i])
                 PROVE  \E j \in 1 .. m+1 : j < i /\ order'[j] = c
      BY <2>10, <3>a, <3>b
    <3>1. CASE i = m+1
      <4>1. c \in Finished
        BY <1>c, <2>2, <2>4, <2>10, <3>1
      <4>2. PICK j \in 1 .. m : order[j] = c
        BY <2>9, <4>1 DEF OrderInv
      <4> QED
        BY <2>10, <2>12, <3>1, <4>2
    <3>2. CASE i \in 1 .. m
      <4>1. PICK j \in 1 .. m : j < i /\ order[j] = c
        BY <2>9, <2>10, <3>2 DEF OrderInv, CalleesFirst
      <4> QED
        BY <2>10, <2>12, <4>1
    <3> QED
      BY <2>11, <3>1, <3>2
  <2> QED
    BY <2>1, <2>8, <2>14, <2>15, <2>16, <2>17 DEF OrderInv, OrderComplete
<1>8. CASE OrderDone
  <2>1. /\ pc = "order" /\ pc' = "done" /\ stack = <<>> /\ start = NFuncs
        /\ UNCHANGED <<calls, state, order>>
    BY <1>8 DEF OrderDone
  <2>2. Unfinished = {}
    <3>1. Len(stack) = 0
      BY <2>1
    <3> QED
      BY <2>1, <3>1 DEF OrderInv, Ordering, OnStack
  <2>3. \A f \in Defined : f \in Funcs /\ f < start
    BY <1>f, <2>1 DEF Defined
  <2>4. \A f \in Defined : f \in Finished
    BY <1>a, <2>1, <2>2, <2>3 DEF OrderInv, Ordering, Finished, Unfinished
  <2>5. Finished' = Finished
    BY <2>1 DEF Finished
  <2>6. CalleesFirst'
    BY <1>d, <2>1 DEF OrderInv, CalleesFirst
  <2>7. OrderComplete'
    BY <2>1, <2>4 DEF OrderInv, OrderComplete
  <2> QED
    BY <2>1, <2>5, <2>6, <2>7 DEF OrderInv
<1>9. CASE UNCHANGED vars
  <2>1. UNCHANGED <<calls, pc, stack, start, state, order>>
    BY <1>9 DEF vars
  <2>2. Finished' = Finished /\ Unfinished' = Unfinished
    BY <2>1 DEF Finished, Unfinished
  <2>3. Ordering' <=> Ordering
    BY <1>d, <2>1, <2>2 DEF Ordering
  <2>4. CalleesFirst' <=> CalleesFirst
    BY <1>d, <2>1 DEF CalleesFirst
  <2>5. OrderComplete' <=> OrderComplete
    BY <2>1 DEF OrderComplete
  <2> QED
    BY <2>1, <2>2, <2>3, <2>4, <2>5 DEF OrderInv
<1> QED
  BY <1>1, <1>2, <1>3, <1>4, <1>5, <1>6, <1>7, <1>8, <1>9 DEF Next, Order

LEMMA OrderInvariant == Spec => []OrderInv
<1>1. Init => OrderInv
  BY DEF Init, OrderInv, Finished, CalleesFirst, OrderComplete
<1> QED
  BY <1>1, DetectInvariant, NextOrderInv, PTL DEF Spec

\* Every variable keeps its type; in particular no frame is popped from, and
\* no function taken off, an empty stack or path.
THEOREM TypeCorrect == Spec => []TypeOK
BY DetectInvariant, PTL

\* The inliner meets a function only after every function it calls.
THEOREM CalleesComeFirst == Spec => []CalleesFirst
<1>1. OrderInv => CalleesFirst
  BY DEF OrderInv
<1> QED
  BY <1>1, OrderInvariant, PTL

\* And it meets every defined function, once.
THEOREM EveryFunctionOnce == Spec => []OrderComplete
<1>1. OrderInv => OrderComplete
  BY DEF OrderInv
<1> QED
  BY <1>1, OrderInvariant, PTL

\* The recursion check of every call graph is exact.
THEOREM RecursionCheckIsExact == Spec => []RecursionExact
<1>1. CycleIsReal /\ NoCycleMissed => RecursionExact
  BY DEF RecursionExact
<1> QED
  BY <1>1, ReportedCycleIsReal, RecursionNeverMissed, PTL

\* The order of inlining is sound for every call graph.
THEOREM OrderIsSound == Spec => []InlineOrder
<1>1. CalleesFirst /\ OrderComplete => InlineOrder
  BY DEF InlineOrder
<1> QED
  BY <1>1, CalleesComeFirst, EveryFunctionOnce, PTL
=============================================================================
