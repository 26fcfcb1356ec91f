---------------------------- MODULE Slots_proofs ----------------------------
(***************************************************************************)
(* Proofs about Slots.  SlotsInv: affine handles are enough for the host's *)
(* reuse of slots never to be seen, a handle's slot holds what the handle  *)
(* was made for and no two handles share one.  Every step then has one of  *)
(* six effects on slots, handles and leaks (Effect), and from those follow *)
(* the count of the slots and the types of the handles.  PathInv, what a   *)
(* slot_path! has changed so far, gives its cost.                          *)
(***************************************************************************)
EXTENDS Slots, FiniteSetTheorems, TLAPS

Slotted == [SlotNos -> Items \cup {None}]

\* Inductive: what a handle says is true, and the root of a path, whose
\* slots are remembered, is among them.
SlotsInv ==
  /\ slots \in Slotted
  /\ live \subseteq Handle
  /\ path \in Walk \cup {None}
  /\ path # None => path.cur \notin live
  /\ HandlesFaithful

LEMMA TailOf ==
  ASSUME NEW s \in Seq(Keys), s # << >>
  PROVE  s[1] \in Keys /\ Tail(s) \in Seq(Keys) /\ (Len(s) # 1 => Tail(s) # << >>)
<1>1. Len(s) \in Nat /\ Len(s) # 0
  OBVIOUS
<1>2. s[1] \in Keys
  BY <1>1
<1>3. Tail(s) \in Seq(Keys) /\ Len(Tail(s)) = Len(s) - 1
  BY <1>1
<1>4. Len(s) # 1 => Len(Tail(s)) # 0
  BY <1>1, <1>3
<1> DEFINE t == Tail(s)
<1> HIDE DEF t
<1>5. t = << >> => Len(t) = 0
  OBVIOUS
<1> QED
  BY <1>2, <1>3, <1>4, <1>5 DEF t

LEMMA HeldHandles ==
  ASSUME SlotsInv
  PROVE  /\ \A g \in Held : g \in Handle /\ g.no \in SlotNos /\ g.item \in Items /\ slots[g.no] = g.item
         /\ \A g \in Held : slots[g.no] # None
<1>1. \A g \in Held : g \in Handle
  BY DEF SlotsInv, Held, Walk
<1>2. \A g \in Held : g.no \in SlotNos /\ g.item \in Items
  BY <1>1 DEF Handle
<1> QED
  BY <1>1, <1>2, SlotParameters DEF SlotsInv, HandlesFaithful

LEMMA ItemHeld ==
  ASSUME SlotsInv, NEW h \in live
  PROVE  /\ h \in Handle /\ h.no \in SlotNos /\ h.item \in Items
         /\ slots[h.no] = h.item /\ slots[h.no] # None
<1>1. h \in Handle /\ h \in Held
  BY DEF SlotsInv, Held
<1>2. h.no \in SlotNos /\ h.item \in Items
  BY <1>1 DEF Handle
<1> QED
  BY <1>1, <1>2, SlotParameters DEF SlotsInv, HandlesFaithful

\* A new handle in a free slot, with the old ones minus some.
LEMMA FreshHandle ==
  ASSUME SlotsInv, NEW m \in Free, NEW h \in Handle, h.no = m,
         slots' = [slots EXCEPT ![m] = h.item], Held' = Held \cup {h}
  PROVE  HandlesFaithful'
<1>1. slots \in Slotted /\ slots[m] = None /\ m \in SlotNos
  BY DEF SlotsInv, Free, Used
<1>2. slots' = [n \in SlotNos |-> IF n = m THEN h.item ELSE slots[n]]
  BY <1>1 DEF Slotted
<1>3. \A g \in Held : g \in Handle /\ g.no \in SlotNos /\ g.item \in Items /\ slots[g.no] = g.item
  BY HeldHandles
<1>4. \A g \in Held : g.no # m
  BY <1>1, <1>3, SlotParameters
<1>5. \A g \in Held' : slots'[g.no] = g.item
  BY <1>1, <1>2, <1>3, <1>4
<1>6. \A f, g \in Held' : f.no = g.no => f = g
  BY <1>4 DEF SlotsInv, HandlesFaithful
<1> QED
  BY <1>5, <1>6 DEF HandlesFaithful

\* A handle given up and its slot cleared.
LEMMA HandleCleared ==
  ASSUME SlotsInv, NEW h \in Held, slots' = Cleared(slots, h.no), Held' = Held \ {h}
  PROVE  HandlesFaithful'
<1>1. slots \in Slotted /\ \A g \in Held : g \in Handle /\ g.no \in SlotNos /\ slots[g.no] = g.item
  BY HeldHandles DEF SlotsInv
<1>2. slots' = [n \in SlotNos |-> IF n = h.no THEN None ELSE slots[n]]
  BY <1>1 DEF Cleared, Slotted
<1>3. \A g \in Held' : g.no # h.no
  BY DEF SlotsInv, HandlesFaithful
<1> QED
  BY <1>1, <1>2, <1>3 DEF HandlesFaithful, SlotsInv

\* The handle a derivation makes.
LEMMA DerivedHandle ==
  ASSUME SlotsInv, NEW n \in SlotNos, slots[n] # None, NEW k \in Keys, NEW m \in SlotNos,
         Derive(n, k) = "ok"
  PROVE  /\ Derived(n, k, m) \in Handle /\ Derived(n, k, m).no = m
         /\ Derived(n, k, m).item = Child[slots[n]][k] /\ Child[slots[n]][k] \in Items
<1>1. slots[n] \in Items
  BY DEF SlotsInv, Slotted
<1>2. Child[slots[n]][k] \in Items \cup {None} /\ Child[slots[n]][k] # None
  BY <1>1, SlotParameters DEF Derive
<1>3. Out[k] \in Types
  BY SlotParameters
<1> QED
  BY <1>2, <1>3 DEF Derived, Handle

\* A retyped handle.
LEMMA Retyped ==
  ASSUME SlotsInv, path = None, NEW h \in live, NEW type \in Types, NEW sure \in BOOLEAN,
         slots' = slots, path' = path,
         live' = (live \ {h}) \cup {[h EXCEPT !.type = type, !.sure = sure]}
  PROVE  SlotsInv'
<1> DEFINE r == [h EXCEPT !.type = type, !.sure = sure]
<1>1. h \in Handle /\ slots[h.no] = h.item
  BY ItemHeld
<1>2. r \in Handle /\ r.no = h.no /\ r.item = h.item
  BY <1>1 DEF Handle
<1> HIDE DEF r
<1>3. live' = (live \ {h}) \cup {r} /\ Held = live /\ Held' = live'
  BY DEF r, Held
<1>4. live' \subseteq Handle
  BY <1>2, <1>3 DEF SlotsInv
<1>5. \A g \in live : slots[g.no] = g.item /\ \A f \in live : f.no = g.no => f = g
  BY <1>3 DEF SlotsInv, HandlesFaithful
<1>6. HandlesFaithful'
  BY <1>1, <1>2, <1>3, <1>5 DEF HandlesFaithful
<1> QED
  BY <1>4, <1>6 DEF SlotsInv

\* A hop of a path: a new handle, and the one it came from cleared.
LEMMA Moved ==
  ASSUME SlotsInv, NEW c \in Held, NEW m \in Free, NEW h \in Handle, h.no = m,
         slots' = Cleared([slots EXCEPT ![m] = h.item], c.no),
         Held' = (Held \ {c}) \cup {h}
  PROVE  HandlesFaithful'
<1>1. slots \in Slotted /\ slots[m] = None /\ m \in SlotNos
  BY DEF SlotsInv, Free, Used
<1>2. \A g \in Held : g \in Handle /\ g.no \in SlotNos /\ g.item \in Items /\ slots[g.no] = g.item
  BY HeldHandles
<1>3. \A g \in Held : g.no # m
  BY <1>1, <1>2, SlotParameters
<1>4. slots' = [n \in SlotNos |-> IF n = c.no THEN None ELSE IF n = m THEN h.item ELSE slots[n]]
  BY <1>1 DEF Cleared, Slotted
<1>5. \A g \in Held \ {c} : g.no # c.no
  BY DEF SlotsInv, HandlesFaithful
<1>6. \A g \in Held' : slots'[g.no] = g.item
  BY <1>1, <1>2, <1>3, <1>4, <1>5
<1>7. \A f, g \in Held' : f.no = g.no => f = g
  BY <1>3 DEF SlotsInv, HandlesFaithful
<1> QED
  BY <1>6, <1>7 DEF HandlesFaithful

-----------------------------------------------------------------------------
(* The actions *)

LEMMA LoadKeeps == ASSUME SlotsInv, NEW i \in Roots, Load(i) PROVE SlotsInv'
<1>1. path = None /\ path' = path /\ Held = live /\ Held' = live'
  BY DEF Load, Held
<1>2. CASE UNCHANGED <<slots, live>>
  BY <1>1, <1>2 DEF SlotsInv, HandlesFaithful
<1>3. CASE \E n \in Free :
             /\ slots' = [slots EXCEPT ![n] = i]
             /\ live' = live \cup {[no |-> n, item |-> i, type |-> "STObject", sure |-> TRUE]}
  <2>1. PICK n \in Free :
             /\ slots' = [slots EXCEPT ![n] = i]
             /\ live' = live \cup {[no |-> n, item |-> i, type |-> "STObject", sure |-> TRUE]}
    BY <1>3
  <2> DEFINE h == [no |-> n, item |-> i, type |-> "STObject", sure |-> TRUE]
  <2>2. h \in Handle /\ h.no = n /\ h.item = i /\ i \in Items /\ n \in SlotNos
    BY SlotParameters DEF Handle, Types, Free
  <2>3. slots' \in Slotted
    BY <2>1, <2>2 DEF SlotsInv, Slotted
  <2> HIDE DEF h
  <2>4. live' = live \cup {h}
    BY <2>1 DEF h
  <2>5. HandlesFaithful'
    BY <1>1, <2>1, <2>2, <2>4, FreshHandle
  <2> QED
    BY <1>1, <2>2, <2>3, <2>4, <2>5 DEF SlotsInv
<1> QED
  BY <1>2, <1>3 DEF Load

LEMMA GetKeeps == ASSUME SlotsInv, NEW h \in live, NEW k \in Keys, Get(h, k) PROVE SlotsInv'
<1>1. path = None /\ path' = path /\ Held = live /\ Held' = live'
  BY DEF Get, Held
<1>2. CASE UNCHANGED <<slots, live>>
  BY <1>1, <1>2 DEF SlotsInv, HandlesFaithful
<1>3. CASE Derive(h.no, k) = "ok" /\ \E m \in Free :
            /\ slots' = [slots EXCEPT ![m] = Child[slots[h.no]][k]]
            /\ live' = live \cup {Derived(h.no, k, m)}
  <2>1. PICK m \in Free :
            /\ slots' = [slots EXCEPT ![m] = Child[slots[h.no]][k]]
            /\ live' = live \cup {Derived(h.no, k, m)}
    BY <1>3
  <2>2. h.no \in SlotNos /\ slots[h.no] # None /\ m \in SlotNos
    BY ItemHeld DEF Free
  <2>3. /\ Derived(h.no, k, m) \in Handle /\ Derived(h.no, k, m).no = m
        /\ Derived(h.no, k, m).item = Child[slots[h.no]][k] /\ Child[slots[h.no]][k] \in Items
    BY <1>3, <2>2, DerivedHandle
  <2>4. slots' \in Slotted
    BY <2>1, <2>2, <2>3 DEF SlotsInv, Slotted
  <2>5. HandlesFaithful'
    BY <1>1, <2>1, <2>3, FreshHandle
  <2> QED
    BY <1>1, <2>1, <2>3, <2>4, <2>5 DEF SlotsInv
<1> QED
  BY <1>2, <1>3 DEF Get

\* Clear, Take and a failed try_cast.
LEMMA ClearingKeeps ==
  ASSUME SlotsInv, path = None, path' = path, NEW h \in live,
         live' = live \ {h}, slots' = Cleared(slots, h.no)
  PROVE  SlotsInv'
<1>1. Held = live /\ Held' = live'
  BY DEF Held
<1>2. HandlesFaithful'
  BY <1>1, HandleCleared
<1>3. slots' \in Slotted
  BY DEF SlotsInv, Slotted, Cleared
<1> QED
  BY <1>2, <1>3 DEF SlotsInv

\* Read and Forget.
LEMMA LeakingKeeps ==
  ASSUME SlotsInv, path = None, path' = path, NEW h \in live,
         live' = live \ {h}, slots' = slots
  PROVE  SlotsInv'
<1>1. Held = live /\ Held' = live'
  BY DEF Held
<1> QED
  BY <1>1 DEF SlotsInv, HandlesFaithful

LEMMA PathStartKeeps ==
  ASSUME SlotsInv, NEW h \in live, NEW p \in Paths, PathStart(h, p) PROVE SlotsInv'
<1>1. path = None /\ Held = live /\ p \in Seq(Keys) /\ p # << >>
  BY SlotParameters DEF PathStart, Held
<1>2. CASE UNCHANGED <<slots, live, path>>
  BY <1>2 DEF SlotsInv, HandlesFaithful, Held
<1>3. CASE Derive(h.no, p[1]) = "ok" /\ \E m \in Free :
            /\ slots' = [slots EXCEPT ![m] = Child[slots[h.no]][p[1]]]
            /\ IF Len(p) = 1
               THEN live' = live \cup {Derived(h.no, p[1], m)} /\ UNCHANGED path
               ELSE /\ path' = [cur |-> Derived(h.no, p[1], m), rest |-> Tail(p), held |-> slots]
                    /\ UNCHANGED live
  <2>1. PICK m \in Free :
            /\ slots' = [slots EXCEPT ![m] = Child[slots[h.no]][p[1]]]
            /\ IF Len(p) = 1
               THEN live' = live \cup {Derived(h.no, p[1], m)} /\ UNCHANGED path
               ELSE /\ path' = [cur |-> Derived(h.no, p[1], m), rest |-> Tail(p), held |-> slots]
                    /\ UNCHANGED live
    BY <1>3
  <2>2. /\ h.no \in SlotNos /\ slots[h.no] # None /\ m \in SlotNos
    BY ItemHeld DEF Free
  <2>3. p[1] \in Keys /\ Tail(p) \in Seq(Keys) /\ (Len(p) # 1 => Tail(p) # << >>)
    BY <1>1, TailOf
  <2> DEFINE d == Derived(h.no, p[1], m)
  <2>4. d \in Handle /\ d.no = m /\ d.item = Child[slots[h.no]][p[1]] /\ d.item \in Items
    BY <1>3, <2>2, <2>3, DerivedHandle
  <2>5. slots' \in Slotted
    BY <2>1, <2>2, <2>4 DEF SlotsInv, Slotted
  <2> HIDE DEF d
  <2>6. CASE Len(p) = 1
    <3>1. live' = live \cup {d} /\ path' = None /\ Held' = Held \cup {d}
      BY <1>1, <2>1, <2>6 DEF d, Held
    <3>2. HandlesFaithful'
      BY <2>1, <2>4, <3>1, FreshHandle
    <3> QED
      BY <2>4, <2>5, <3>1, <3>2 DEF SlotsInv
  <2>7. CASE Len(p) # 1
    <3>1. path' = [cur |-> d, rest |-> Tail(p), held |-> slots] /\ live' = live
      BY <2>1, <2>7 DEF d
    <3>2. path' \in Walk /\ path'.cur = d
      BY <2>3, <2>4, <2>7, <3>1 DEF Walk, SlotsInv, Slotted
    <3>3. Held' = Held \cup {d}
      BY <1>1, <3>1, <3>2, SlotParameters DEF Held
    <3>4. HandlesFaithful'
      BY <2>1, <2>4, <3>3, FreshHandle
    <3>5. d \notin live
      BY <2>4, ItemHeld DEF Free, Used
    <3> QED
      BY <2>5, <3>1, <3>2, <3>4, <3>5 DEF SlotsInv
  <2> QED
    BY <2>6, <2>7
<1> QED
  BY <1>2, <1>3 DEF PathStart

LEMMA PathHopKeeps == ASSUME SlotsInv, PathHop PROVE SlotsInv'
<1> DEFINE k == path.rest[1]
           c == path.cur
<1>1. /\ path # None /\ path \in Walk /\ c \in Handle /\ c.no \in SlotNos
      /\ path.rest \in Seq(Keys) /\ path.rest # << >> /\ path.held \in Slotted
      /\ c \notin live
  BY DEF SlotsInv, PathHop, Walk, Handle, Slotted
<1>2. /\ Held = live \cup {c} /\ c \in Held /\ slots[c.no] = c.item /\ c.item \in Items
  BY <1>1 DEF Held, SlotsInv, HandlesFaithful, Handle
<1>3. slots[c.no] # None
  BY <1>2, SlotParameters
<1>4. k \in Keys /\ Tail(path.rest) \in Seq(Keys) /\ (Len(path.rest) # 1 => Tail(path.rest) # << >>)
  BY <1>1, TailOf
<1> HIDE DEF k, c
<1>5. CASE path' = None /\ slots' = Cleared(slots, c.no) /\ live' = live
  <2>1. slots' \in Slotted
    BY <1>1, <1>5 DEF SlotsInv, Slotted, Cleared
  <2>2. Held' = Held \ {c}
    BY <1>1, <1>2, <1>5 DEF Held
  <2>3. HandlesFaithful'
    BY <1>2, <1>5, <2>2, HandleCleared
  <2> QED
    BY <1>5, <2>1, <2>3 DEF SlotsInv
<1>6. CASE Derive(c.no, k) = "ok" /\ \E m \in Free :
             /\ slots' = Cleared([slots EXCEPT ![m] = Child[slots[c.no]][k]], c.no)
             /\ IF Len(path.rest) = 1
                THEN live' = live \cup {Derived(c.no, k, m)} /\ path' = None
                ELSE /\ path' = [path EXCEPT !.cur = Derived(c.no, k, m), !.rest = Tail(@)]
                     /\ UNCHANGED live
  <2>1. PICK m \in Free :
             /\ slots' = Cleared([slots EXCEPT ![m] = Child[slots[c.no]][k]], c.no)
             /\ IF Len(path.rest) = 1
                THEN live' = live \cup {Derived(c.no, k, m)} /\ path' = None
                ELSE /\ path' = [path EXCEPT !.cur = Derived(c.no, k, m), !.rest = Tail(@)]
                     /\ UNCHANGED live
    BY <1>6
  <2> DEFINE d == Derived(c.no, k, m)
  <2>2. m \in SlotNos
    BY DEF Free
  <2>3. d \in Handle /\ d.no = m /\ d.item = Child[slots[c.no]][k] /\ d.item \in Items
    BY <1>1, <1>3, <1>4, <1>6, <2>2, DerivedHandle
  <2>4. slots' \in Slotted
    BY <1>1, <2>1, <2>2, <2>3 DEF SlotsInv, Slotted, Cleared
  <2>5. d \notin Held
    BY <2>3, HeldHandles DEF Free, Used
  <2> HIDE DEF d
  <2>6. Held' = (Held \ {c}) \cup {d} /\ live' \subseteq Handle /\ path' \in Walk \cup {None}
        /\ (path' # None => path'.cur \notin live')
    <3>1. CASE Len(path.rest) = 1
      <4>1. live' = live \cup {d} /\ path' = None
        BY <2>1, <3>1 DEF d
      <4> QED
        BY <1>1, <1>2, <2>3, <4>1 DEF Held, SlotsInv
    <3>2. CASE Len(path.rest) # 1
      <4>1. path' = [path EXCEPT !.cur = d, !.rest = Tail(@)] /\ live' = live
        BY <2>1, <3>2 DEF d
      <4>2. path' = [cur |-> d, rest |-> Tail(path.rest), held |-> path.held]
        BY <1>1, <4>1 DEF Walk
      <4>3. path' \in Walk /\ path'.cur = d
        BY <1>1, <1>4, <2>3, <3>2, <4>2 DEF Walk, Slotted
      <4>4. path' # None
        BY <4>3, SlotParameters
      <4> QED
        BY <1>1, <1>2, <2>5, <4>1, <4>3, <4>4 DEF Held, SlotsInv
    <3> QED
      BY <3>1, <3>2
  <2>7. HandlesFaithful'
    BY <1>2, <2>1, <2>3, <2>6, Moved
  <2> QED
    BY <2>4, <2>6, <2>7 DEF SlotsInv
<1> QED
  BY <1>5, <1>6 DEF PathHop, k, c

LEMMA SlotsInvStarts == Init => SlotsInv
<1>1. SUFFICES ASSUME Init PROVE SlotsInv
  OBVIOUS
<1>2. live = {} /\ path = None /\ slots \in Slotted
  BY <1>1 DEF Init, Slotted
<1> QED
  BY <1>2 DEF SlotsInv, HandlesFaithful, Held

LEMMA SlotsInvStays == SlotsInv /\ [Next]_vars => SlotsInv'
<1>1. SUFFICES ASSUME SlotsInv, [Next]_vars PROVE SlotsInv'
  OBVIOUS
<1>2. CASE UNCHANGED vars
  BY <1>1, <1>2 DEF vars, SlotsInv, HandlesFaithful, Held
<1>3. CASE \E i \in Roots : Load(i)
  BY <1>1, <1>3, LoadKeeps
<1>4. CASE \E h \in live : \E k \in Keys : Get(h, k)
  BY <1>1, <1>4, GetKeeps
<1>5. ASSUME NEW h \in live, Clear(h) \/ Take(h) \/ TakeXfl(h) PROVE SlotsInv'
  BY <1>1, <1>5, ClearingKeeps DEF Clear, Take, TakeXfl
<1>6. ASSUME NEW h \in live, Read(h) \/ Forget(h) \/ AsXfl(h) PROVE SlotsInv'
  BY <1>1, <1>6, LeakingKeeps DEF Read, Forget, AsXfl
<1>7. ASSUME NEW h \in live, NEW type \in Types \ {"Opaque"}, TryCast(h, type) PROVE SlotsInv'
  <2>1. CASE Accepts(type, slots[h.no])
    BY <1>1, <1>7, <2>1, Retyped DEF TryCast
  <2>2. CASE ~Accepts(type, slots[h.no])
    BY <1>1, <1>7, <2>2, ClearingKeeps DEF TryCast
  <2> QED
    BY <2>1, <2>2
<1>8. ASSUME NEW h \in live, NEW type \in Types, AssumeType(h, type) PROVE SlotsInv'
  BY <1>1, <1>8, Retyped DEF AssumeType
<1>9. CASE \E h \in live : \E p \in Paths : PathStart(h, p)
  BY <1>1, <1>9, PathStartKeeps
<1>10. CASE PathHop
  BY <1>1, <1>10, PathHopKeeps
<1>11. ASSUME NEW h \in live, Count(h) \/ IsNative(h) PROVE SlotsInv'
  BY <1>1, <1>11 DEF Count, IsNative, SlotsInv, HandlesFaithful, Held
<1> QED
  BY <1>1, <1>2, <1>3, <1>4, <1>5, <1>6, <1>7, <1>8, <1>9, <1>10, <1>11 DEF Next

(* Affine handles suffice: however slots are cleared and assigned again, a *)
(* handle always names the item it was made for and never shares its slot. *)
THEOREM HandlesStayFaithful == Spec => []HandlesFaithful
<1>1. SlotsInv => HandlesFaithful
  BY DEF SlotsInv
<1> QED
  BY <1>1, SlotsInvStarts, SlotsInvStays, PTL DEF Spec

-----------------------------------------------------------------------------
(* What a step does to slots, handles and the count of what leaked: one of *)
(* six effects, whichever operation it is.                                 *)

\* What a handle that is sure of its type was made from.
Certain(h) == h.sure => h.type = "Opaque" \/ Accepts(h.type, h.item)

Gains(m, d) ==
  /\ m \in Free /\ d \in Handle /\ d.no = m /\ Certain(d)
  /\ slots' = [slots EXCEPT ![m] = d.item]
  /\ Held' = Held \cup {d} /\ leaked' = leaked

Frees(h) ==
  /\ h \in Held /\ slots' = Cleared(slots, h.no)
  /\ Held' = Held \ {h} /\ leaked' = leaked

Leaks(h) ==
  /\ h \in Held /\ slots' = slots
  /\ Held' = Held \ {h} /\ leaked' = leaked + 1

Retypes(h, r) ==
  /\ h \in Held /\ r \in Handle /\ r.no = h.no /\ r.item = h.item /\ Certain(r)
  /\ slots' = slots
  /\ Held' = (Held \ {h}) \cup {r} /\ leaked' = leaked

Moves(c, m, d) ==
  /\ c \in Held /\ m \in Free /\ d \in Handle /\ d.no = m /\ Certain(d)
  /\ slots' = Cleared([slots EXCEPT ![m] = d.item], c.no)
  /\ Held' = (Held \ {c}) \cup {d} /\ leaked' = leaked

Idles == slots' = slots /\ Held' = Held /\ leaked' = leaked

Effect ==
  \/ \E m, d : Gains(m, d)
  \/ \E h : Frees(h)
  \/ \E h : Leaks(h)
  \/ \E h, r : Retypes(h, r)
  \/ \E c, m, d : Moves(c, m, d)
  \/ Idles

LEMMA DerivedIsCertain ==
  ASSUME SlotsInv, NEW n \in SlotNos, slots[n] # None, NEW k \in Keys, NEW m,
         Derive(n, k) = "ok"
  PROVE  Certain(Derived(n, k, m))
<1>1. slots[n] \in Items
  BY DEF SlotsInv, Slotted
<1>2. Child[slots[n]][k] # None
  BY DEF Derive
<1>3. Out[k] = "Opaque" \/ Kind[Child[slots[n]][k]] = Out[k]
  BY <1>1, <1>2, LedgerParameters
<1> QED
  BY <1>3 DEF Certain, Accepts, Derived

LEMMA LoadEffect == ASSUME SlotsInv, NEW i \in Roots, Load(i) PROVE Effect
<1>1. Held = live /\ Held' = live' /\ leaked' = leaked
  BY DEF Load, Held
<1>2. CASE UNCHANGED <<slots, live>>
  BY <1>1, <1>2 DEF Effect, Idles
<1>3. ASSUME NEW n \in Free, slots' = [slots EXCEPT ![n] = i],
             live' = live \cup {[no |-> n, item |-> i, type |-> "STObject", sure |-> TRUE]}
      PROVE  Effect
  <2> DEFINE d == [no |-> n, item |-> i, type |-> "STObject", sure |-> TRUE]
  <2>1. d \in Handle /\ d.no = n /\ d.item = i
    BY SlotParameters DEF Handle, Types, Free
  <2>2. Certain(d)
    BY LedgerParameters DEF Certain, Accepts
  <2>3. Held' = Held \cup {d}
    BY <1>1, <1>3
  <2> HIDE DEF d
  <2> QED
    BY <1>1, <1>3, <2>1, <2>2, <2>3 DEF Effect, Gains
<1> QED
  BY <1>2, <1>3 DEF Load

LEMMA GetEffect == ASSUME SlotsInv, NEW h \in live, NEW k \in Keys, Get(h, k) PROVE Effect
<1>1. Held = live /\ Held' = live' /\ leaked' = leaked
  BY DEF Get, Held
<1>2. CASE UNCHANGED <<slots, live>>
  BY <1>1, <1>2 DEF Effect, Idles
<1>3. ASSUME NEW m \in Free, Derive(h.no, k) = "ok",
             slots' = [slots EXCEPT ![m] = Child[slots[h.no]][k]],
             live' = live \cup {Derived(h.no, k, m)}
      PROVE  Effect
  <2>1. h.no \in SlotNos /\ slots[h.no] # None /\ m \in SlotNos
    BY ItemHeld DEF Free
  <2> DEFINE d == Derived(h.no, k, m)
  <2>2. d \in Handle /\ d.no = m /\ d.item = Child[slots[h.no]][k]
    BY <1>3, <2>1, DerivedHandle
  <2>3. Certain(d)
    BY <1>3, <2>1, DerivedIsCertain
  <2>4. Held' = Held \cup {d}
    BY <1>1, <1>3
  <2> HIDE DEF d
  <2> QED
    BY <1>1, <1>3, <2>2, <2>3, <2>4 DEF Effect, Gains
<1> QED
  BY <1>2, <1>3 DEF Get

LEMMA RetypeEffect ==
  ASSUME SlotsInv, path = None, path' = path, NEW h \in live, NEW type \in Types, NEW sure \in BOOLEAN,
         sure => Accepts(type, slots[h.no]), slots' = slots, leaked' = leaked,
         live' = (live \ {h}) \cup {[h EXCEPT !.type = type, !.sure = sure]}
  PROVE  Effect
<1> DEFINE r == [h EXCEPT !.type = type, !.sure = sure]
<1>1. h \in Handle /\ slots[h.no] = h.item /\ h \in Held
  BY ItemHeld DEF Held
<1>2. r \in Handle /\ r.no = h.no /\ r.item = h.item /\ r.type = type /\ r.sure = sure
  BY <1>1 DEF Handle
<1>3. Held' = (Held \ {h}) \cup {r}
  BY DEF Held
<1> HIDE DEF r
<1>4. Certain(r)
  BY <1>1, <1>2 DEF Certain
<1> QED
  BY <1>1, <1>2, <1>3, <1>4 DEF Effect, Retypes

LEMMA PathStartEffect ==
  ASSUME SlotsInv, NEW h \in live, NEW p \in Paths, PathStart(h, p) PROVE Effect
<1>1. path = None /\ Held = live /\ p \in Seq(Keys) /\ p # << >> /\ leaked' = leaked
  BY SlotParameters DEF PathStart, Held
<1>2. CASE UNCHANGED <<slots, live, path>>
  BY <1>1, <1>2 DEF Effect, Idles, Held
<1>3. ASSUME NEW m \in Free, Derive(h.no, p[1]) = "ok",
             slots' = [slots EXCEPT ![m] = Child[slots[h.no]][p[1]]],
             IF Len(p) = 1
             THEN live' = live \cup {Derived(h.no, p[1], m)} /\ UNCHANGED path
             ELSE /\ path' = [cur |-> Derived(h.no, p[1], m), rest |-> Tail(p), held |-> slots]
                  /\ UNCHANGED live
      PROVE  Effect
  <2>1. h.no \in SlotNos /\ slots[h.no] # None /\ m \in SlotNos
    BY ItemHeld DEF Free
  <2>2. p[1] \in Keys /\ Tail(p) \in Seq(Keys) /\ (Len(p) # 1 => Tail(p) # << >>)
    BY <1>1, TailOf
  <2> DEFINE d == Derived(h.no, p[1], m)
  <2>3. d \in Handle /\ d.no = m /\ d.item = Child[slots[h.no]][p[1]]
    BY <1>3, <2>1, <2>2, DerivedHandle
  <2>4. Certain(d)
    BY <1>3, <2>1, <2>2, DerivedIsCertain
  <2>5. Held' = Held \cup {d}
    <3>1. CASE Len(p) = 1
      BY <1>1, <1>3, <3>1 DEF Held
    <3>2. CASE Len(p) # 1
      <4> HIDE DEF d
      <4>1. path' = [cur |-> d, rest |-> Tail(p), held |-> slots] /\ live' = live
        BY <1>3, <3>2 DEF d
      <4>2. path' \in Walk /\ path'.cur = d
        BY <2>2, <2>3, <3>2, <4>1 DEF Walk, SlotsInv, Slotted
      <4> QED
        BY <1>1, <4>1, <4>2, SlotParameters DEF Held
    <3> QED
      BY <3>1, <3>2
  <2> HIDE DEF d
  <2> QED
    BY <1>1, <1>3, <2>3, <2>4, <2>5 DEF Effect, Gains
<1> QED
  BY <1>2, <1>3 DEF PathStart

LEMMA PathHopEffect == ASSUME SlotsInv, PathHop PROVE Effect
<1> DEFINE k == path.rest[1]
           c == path.cur
<1>1. /\ path # None /\ path \in Walk /\ c \in Handle /\ c.no \in SlotNos
      /\ path.rest \in Seq(Keys) /\ path.rest # << >> /\ path.held \in Slotted
      /\ c \notin live /\ leaked' = leaked
  BY DEF SlotsInv, PathHop, Walk, Handle, Slotted
<1>2. Held = live \cup {c} /\ c \in Held
  BY <1>1 DEF Held
<1>3. slots[c.no] # None
  BY <1>2, HeldHandles
<1>4. k \in Keys /\ Tail(path.rest) \in Seq(Keys) /\ (Len(path.rest) # 1 => Tail(path.rest) # << >>)
  BY <1>1, TailOf
<1> HIDE DEF k, c
<1>5. CASE path' = None /\ slots' = Cleared(slots, c.no) /\ live' = live
  <2>1. Held' = Held \ {c}
    BY <1>1, <1>2, <1>5 DEF Held
  <2> QED
    BY <1>1, <1>2, <1>5, <2>1 DEF Effect, Frees
<1>6. ASSUME NEW m \in Free, Derive(c.no, k) = "ok",
             slots' = Cleared([slots EXCEPT ![m] = Child[slots[c.no]][k]], c.no),
             IF Len(path.rest) = 1
             THEN live' = live \cup {Derived(c.no, k, m)} /\ path' = None
             ELSE /\ path' = [path EXCEPT !.cur = Derived(c.no, k, m), !.rest = Tail(@)]
                  /\ UNCHANGED live
      PROVE  Effect
  <2> DEFINE d == Derived(c.no, k, m)
  <2>1. m \in SlotNos
    BY DEF Free
  <2>2. d \in Handle /\ d.no = m /\ d.item = Child[slots[c.no]][k]
    BY <1>1, <1>3, <1>4, <1>6, <2>1, DerivedHandle
  <2>3. Certain(d)
    BY <1>1, <1>3, <1>4, <1>6, DerivedIsCertain
  <2>4. d \notin Held
    BY <2>2, HeldHandles DEF Free, Used
  <2> HIDE DEF d
  <2>5. Held' = (Held \ {c}) \cup {d}
    <3>1. CASE Len(path.rest) = 1
      <4>1. live' = live \cup {d} /\ path' = None
        BY <1>6, <3>1 DEF d
      <4> QED
        BY <1>1, <1>2, <4>1 DEF Held
    <3>2. CASE Len(path.rest) # 1
      <4>1. path' = [path EXCEPT !.cur = d, !.rest = Tail(@)] /\ live' = live
        BY <1>6, <3>2 DEF d
      <4>2. path' = [cur |-> d, rest |-> Tail(path.rest), held |-> path.held]
        BY <1>1, <4>1 DEF Walk
      <4>3. path' \in Walk /\ path'.cur = d
        BY <1>1, <1>4, <2>2, <3>2, <4>2 DEF Walk, Slotted
      <4>4. path' # None
        BY <4>3, SlotParameters
      <4> QED
        BY <1>1, <1>2, <4>1, <4>3, <4>4 DEF Held
    <3> QED
      BY <3>1, <3>2
  <2> QED
    BY <1>1, <1>2, <1>6, <2>2, <2>3, <2>5 DEF Effect, Moves
<1> QED
  BY <1>5, <1>6 DEF PathHop, k, c

LEMMA StepEffect == ASSUME SlotsInv, [Next]_vars PROVE Effect
<1>1. CASE UNCHANGED vars
  BY <1>1 DEF vars, Effect, Idles, Held
<1>2. CASE \E i \in Roots : Load(i)
  BY <1>2, LoadEffect
<1>3. CASE \E h \in live : \E k \in Keys : Get(h, k)
  BY <1>3, GetEffect
<1>4. ASSUME NEW h \in live, Clear(h) \/ Take(h) \/ TakeXfl(h) PROVE Effect
  BY <1>4 DEF Clear, Take, TakeXfl, Held, Effect, Frees
<1>5. ASSUME NEW h \in live, Read(h) \/ Forget(h) \/ AsXfl(h) PROVE Effect
  BY <1>5 DEF Read, Forget, AsXfl, Held, Effect, Leaks
<1>6. ASSUME NEW h \in live, NEW type \in Types \ {"Opaque"}, TryCast(h, type) PROVE Effect
  <2>1. CASE Accepts(type, slots[h.no])
    BY <1>6, <2>1, RetypeEffect DEF TryCast
  <2>2. CASE ~Accepts(type, slots[h.no])
    BY <1>6, <2>2 DEF TryCast, Held, Effect, Frees
  <2> QED
    BY <2>1, <2>2
<1>7. ASSUME NEW h \in live, NEW type \in Types, AssumeType(h, type) PROVE Effect
  BY <1>7, RetypeEffect DEF AssumeType
<1>8. CASE \E h \in live : \E p \in Paths : PathStart(h, p)
  BY <1>8, PathStartEffect
<1>9. CASE PathHop
  BY <1>9, PathHopEffect
<1>10. ASSUME NEW h \in live, Count(h) \/ IsNative(h) PROVE Effect
  BY <1>10 DEF Count, IsNative, Held, Effect, Idles
<1> QED
  BY <1>1, <1>2, <1>3, <1>4, <1>5, <1>6, <1>7, <1>8, <1>9, <1>10 DEF Next

-----------------------------------------------------------------------------
(* The count of the slots *)

LeaksBounded == leaked \in 0 .. Cardinality(SlotNos)

AccountInv == IsFiniteSet(live) /\ leaked \in Nat /\ Accounted

LEMMA UsedFinite == IsFiniteSet(Used) /\ Cardinality(Used) \in Nat /\ Cardinality(Used) <= Cardinality(SlotNos)
<1>1. Used \in SUBSET SlotNos
  BY DEF Used
<1> QED
  BY <1>1, SlotParameters, FS_Subset, FS_CardinalityType

LEMMA HeldFinite == ASSUME IsFiniteSet(live) PROVE IsFiniteSet(Held) /\ Cardinality(Held) \in Nat
<1>1. IsFiniteSet(live \cup {path.cur})
  BY FS_AddElement
<1>2. Held = live \/ Held = live \cup {path.cur}
  BY DEF Held
<1> QED
  BY <1>1, <1>2, FS_CardinalityType

\* Which slots are taken after an effect.
LEMMA UsedAfterGain ==
  ASSUME SlotsInv, NEW m \in Free, NEW i \in Items, slots' = [slots EXCEPT ![m] = i]
  PROVE  Used' = Used \cup {m} /\ m \notin Used
<1>1. slots \in Slotted /\ m \in SlotNos /\ m \notin Used
  BY DEF SlotsInv, Free
<1>2. slots' = [n \in SlotNos |-> IF n = m THEN i ELSE slots[n]]
  BY <1>1 DEF Slotted
<1> QED
  BY <1>1, <1>2, SlotParameters DEF Used

LEMMA UsedAfterClear ==
  ASSUME SlotsInv, NEW h \in Held, slots' = Cleared(slots, h.no)
  PROVE  Used' = Used \ {h.no} /\ h.no \in Used
<1>1. slots \in Slotted /\ h.no \in SlotNos /\ slots[h.no] # None
  BY HeldHandles DEF SlotsInv
<1>2. slots' = [n \in SlotNos |-> IF n = h.no THEN None ELSE slots[n]]
  BY <1>1 DEF Cleared, Slotted
<1> QED
  BY <1>1, <1>2 DEF Used

LEMMA UsedAfterMove ==
  ASSUME SlotsInv, NEW c \in Held, NEW m \in Free, NEW i \in Items,
         slots' = Cleared([slots EXCEPT ![m] = i], c.no)
  PROVE  Used' = (Used \ {c.no}) \cup {m} /\ c.no \in Used /\ m \notin Used
<1>1. /\ slots \in Slotted /\ c.no \in SlotNos /\ slots[c.no] # None
      /\ m \in SlotNos /\ m \notin Used /\ m # c.no
  BY HeldHandles DEF SlotsInv, Free, Used
<1>2. slots' = [n \in SlotNos |-> IF n = c.no THEN None ELSE IF n = m THEN i ELSE slots[n]]
  BY <1>1 DEF Cleared, Slotted
<1>3. \A n \in SlotNos : slots'[n] # None <=> (n = m \/ (n # c.no /\ slots[n] # None))
  BY <1>1, <1>2, SlotParameters
<1>4. Used' = {n \in SlotNos : n = m \/ (n # c.no /\ slots[n] # None)}
  BY <1>3 DEF Used
<1>5. c.no \in Used
  BY <1>1 DEF Used
<1>6. Used' = (Used \ {c.no}) \cup {m}
  BY <1>1, <1>4 DEF Used
<1> QED
  BY <1>1, <1>5, <1>6

LEMMA HandleItem == ASSUME NEW d \in Handle PROVE d.item \in Items
  BY DEF Handle

LEMMA FreeNotHeld == ASSUME SlotsInv, NEW m \in Free, NEW d, d.no = m PROVE d \notin Held
  BY HeldHandles DEF Free, Used

LEMMA EffectKeepsCount ==
  ASSUME SlotsInv, AccountInv, Effect
  PROVE  leaked' \in Nat /\ Accounted'
<1> DEFINE U == Used
           H == Held
<1>1. /\ IsFiniteSet(U) /\ Cardinality(U) \in Nat /\ IsFiniteSet(H) /\ Cardinality(H) \in Nat
      /\ Cardinality(U) = Cardinality(H) + leaked /\ leaked \in Nat
  BY UsedFinite, HeldFinite DEF AccountInv, Accounted
<1>2. Accounted' <=> Cardinality(Used') = Cardinality(Held') + leaked'
  BY DEF Accounted
<1>3. ASSUME NEW m, NEW d, Gains(m, d) PROVE leaked' \in Nat /\ Accounted'
  <2>1. Used' = U \cup {m} /\ m \notin U /\ Held' = H \cup {d} /\ d \notin H /\ leaked' = leaked
    BY <1>3, UsedAfterGain, HandleItem, FreeNotHeld DEF Gains
  <2> HIDE DEF U, H
  <2>2. Cardinality(U \cup {m}) = Cardinality(U) + 1 /\ Cardinality(H \cup {d}) = Cardinality(H) + 1
    BY <1>1, <2>1, FS_AddElement
  <2> QED
    BY <1>1, <1>2, <2>1, <2>2
<1>4. ASSUME NEW h, Frees(h) PROVE leaked' \in Nat /\ Accounted'
  <2>1. Used' = U \ {h.no} /\ h.no \in U /\ Held' = H \ {h} /\ h \in H /\ leaked' = leaked
    BY <1>4, UsedAfterClear DEF Frees
  <2> HIDE DEF U, H
  <2>2. Cardinality(U \ {h.no}) = Cardinality(U) - 1 /\ Cardinality(H \ {h}) = Cardinality(H) - 1
    BY <1>1, <2>1, FS_RemoveElement
  <2> QED
    BY <1>1, <1>2, <2>1, <2>2
<1>5. ASSUME NEW h, Leaks(h) PROVE leaked' \in Nat /\ Accounted'
  <2>1. Used' = U /\ Held' = H \ {h} /\ h \in H /\ leaked' = leaked + 1
    BY <1>5 DEF Leaks, Used
  <2> HIDE DEF U, H
  <2>2. Cardinality(H \ {h}) = Cardinality(H) - 1
    BY <1>1, <2>1, FS_RemoveElement
  <2> QED
    BY <1>1, <1>2, <2>1, <2>2
<1>6. ASSUME NEW h, NEW r, Retypes(h, r) PROVE leaked' \in Nat /\ Accounted'
  <2>1. Used' = U /\ Held' = (H \ {h}) \cup {r} /\ h \in H /\ leaked' = leaked
    BY <1>6 DEF Retypes, Used
  <2>2. r \notin H \ {h}
    BY <1>6 DEF Retypes, SlotsInv, HandlesFaithful
  <2> HIDE DEF U, H
  <2>3. Cardinality(H \ {h}) = Cardinality(H) - 1 /\ IsFiniteSet(H \ {h})
    BY <1>1, <2>1, FS_RemoveElement
  <2>4. Cardinality((H \ {h}) \cup {r}) = Cardinality(H \ {h}) + 1
    BY <2>2, <2>3, FS_AddElement
  <2> QED
    BY <1>1, <1>2, <2>1, <2>3, <2>4
<1>7. ASSUME NEW c, NEW m, NEW d, Moves(c, m, d) PROVE leaked' \in Nat /\ Accounted'
  <2>1. /\ Used' = (U \ {c.no}) \cup {m} /\ c.no \in U /\ m \notin U
        /\ Held' = (H \ {c}) \cup {d} /\ c \in H /\ d \notin H /\ leaked' = leaked
    BY <1>7, UsedAfterMove, HandleItem, FreeNotHeld DEF Moves
  <2> HIDE DEF U, H
  <2>2. /\ Cardinality(U \ {c.no}) = Cardinality(U) - 1 /\ IsFiniteSet(U \ {c.no})
        /\ Cardinality(H \ {c}) = Cardinality(H) - 1 /\ IsFiniteSet(H \ {c})
    BY <1>1, <2>1, FS_RemoveElement
  <2>3. Cardinality((U \ {c.no}) \cup {m}) = Cardinality(U \ {c.no}) + 1
    BY <2>1, <2>2, FS_AddElement
  <2>4. Cardinality((H \ {c}) \cup {d}) = Cardinality(H \ {c}) + 1
    BY <2>1, <2>2, FS_AddElement
  <2> QED
    BY <1>1, <1>2, <2>1, <2>2, <2>3, <2>4
<1>8. CASE Idles
  <2>1. Used' = U /\ Held' = H /\ leaked' = leaked
    BY <1>8 DEF Idles, Used
  <2> QED
    BY <1>1, <1>2, <2>1
<1> QED
  BY <1>3, <1>4, <1>5, <1>6, <1>7, <1>8 DEF Effect

LEMMA LiveStaysFinite == ASSUME IsFiniteSet(live), SlotsInv, Effect PROVE IsFiniteSet(live')
<1>1. IsFiniteSet(Held)
  BY HeldFinite
<1>2. IsFiniteSet(Held')
  <2>1. \E d : Held' \subseteq Held \cup {d}
    BY DEF Effect, Gains, Frees, Leaks, Retypes, Moves, Idles
  <2> QED
    BY <1>1, <2>1, FS_AddElement, FS_Subset
<1>3. live' \subseteq Held'
  BY DEF Held
<1> QED
  BY <1>2, <1>3, FS_Subset

(* No operation loses a slot by itself: whatever the program does and      *)
(* however it ends, the slots taken are those of the handles it owns and   *)
(* one for each handle it read or dropped; there are never more of them    *)
(* than the host has.                                                      *)
THEOREM SlotsAccounted == Spec => [](Accounted /\ LeaksBounded)
<1>1. Init => AccountInv
  <2>1. SUFFICES ASSUME Init PROVE AccountInv
    OBVIOUS
  <2>2. Used = {} /\ Held = {} /\ live = {} /\ leaked = 0
    BY <2>1 DEF Init, Used, Held
  <2> QED
    BY <2>2, FS_EmptySet DEF AccountInv, Accounted
<1>2. SlotsInv /\ AccountInv /\ [Next]_vars => AccountInv'
  <2>1. SUFFICES ASSUME SlotsInv, AccountInv, [Next]_vars PROVE AccountInv'
    OBVIOUS
  <2>2. Effect
    BY <2>1, StepEffect
  <2> QED
    BY <2>1, <2>2, EffectKeepsCount, LiveStaysFinite DEF AccountInv
<1>3. AccountInv => Accounted /\ LeaksBounded
  <2>1. SUFFICES ASSUME AccountInv PROVE leaked \in 0 .. Cardinality(SlotNos)
    BY DEF AccountInv, LeaksBounded
  <2>2. Cardinality(SlotNos) \in Nat
    BY SlotParameters, FS_CardinalityType
  <2> QED
    BY <2>1, <2>2, UsedFinite, HeldFinite DEF AccountInv, Accounted
<1> QED
  BY <1>1, <1>2, <1>3, SlotsInvStarts, SlotsInvStays, PTL DEF Spec

-----------------------------------------------------------------------------
(* The types of the handles *)

AllCertain == \A h \in Held : Certain(h)

\* The decoders take every item of their type.
LEMMA TypedDecodes ==
  ASSUME NEW i \in Items, NEW type \in Types, type = "Opaque" \/ Accepts(type, i)
  PROVE  /\ Value(type, i) = "ok"
         /\ type = "Amount" => Amounting(i) = "ok"
         /\ type = "STArray" => Elements(i) = "ok"
<1>1. Size[i] \in Nat
  BY SlotParameters
<1>2. CASE type = "Amount"
  <2>1. Kind[i] = "Amount" /\ Size[i] \in {8, 48}
    BY <1>2, LedgerParameters DEF Accepts
  <2> QED
    BY <1>2, <2>1 DEF Value, Classified, Amounting
<1>3. CASE type = "Issue"
  <2>1. Size[i] \in {20, 40}
    BY <1>3, LedgerParameters DEF Accepts
  <2> QED
    BY <1>3, <2>1 DEF Value, Classified
<1>4. CASE type = "Hash"
  BY <1>4, LedgerParameters DEF Accepts, Value, Exactly
<1>5. CASE type = "u64"
  BY <1>5, LedgerParameters DEF Accepts, Value, Exactly
<1>6. CASE type = "u32"
  <2>1. Size[i] = 4 /\ i \notin TopBit
    BY <1>6, LedgerParameters DEF Accepts
  <2> QED
    BY <1>6, <2>1 DEF Value
<1>7. CASE type \in {"STObject", "Opaque"}
  BY <1>7 DEF Value
<1>8. CASE type = "STArray"
  BY <1>8 DEF Value, Elements, Accepts
<1> QED
  BY <1>2, <1>3, <1>4, <1>5, <1>6, <1>7, <1>8 DEF Types

(* A value whose type was derived from a key or checked by try_cast can    *)
(* always be decoded, whatever well-formed ledger is below: u64 reads have *)
(* no case for bit 63, the amount and issue buffers fit every length.      *)
THEOREM CheckedTypesDecode == Spec => []CheckedDecodes
<1>1. Init => AllCertain
  BY DEF Init, AllCertain, Held
<1>2. SlotsInv /\ AllCertain /\ [Next]_vars => AllCertain'
  <2>1. SUFFICES ASSUME SlotsInv, AllCertain, [Next]_vars, NEW h \in Held' PROVE Certain(h)
    BY DEF AllCertain, Certain, Accepts
  <2>2. Effect
    BY <2>1, StepEffect
  <2>3. CASE h \in Held
    BY <2>1, <2>3 DEF AllCertain
  <2>4. CASE h \notin Held
    BY <2>1, <2>2, <2>4 DEF Effect, Gains, Frees, Leaks, Retypes, Moves, Idles
  <2> QED
    BY <2>3, <2>4
<1>3. SlotsInv /\ AllCertain => CheckedDecodes
  <2>1. SUFFICES ASSUME SlotsInv, AllCertain, NEW h \in Held, h.sure
                 PROVE  /\ Value(h.type, h.item) = "ok"
                        /\ h.type = "Amount" => Amounting(h.item) = "ok"
                        /\ h.type = "STArray" => Elements(h.item) = "ok"
    BY DEF CheckedDecodes
  <2>2. h \in Handle
    BY <2>1, HeldHandles
  <2>3. h.item \in Items /\ h.type \in Types
    BY <2>2 DEF Handle
  <2>4. h.type = "Opaque" \/ Accepts(h.type, h.item)
    BY <2>1 DEF AllCertain, Certain
  <2> QED
    BY <2>3, <2>4, TypedDecodes
<1> QED
  BY <1>1, <1>2, <1>3, SlotsInvStarts, SlotsInvStays, PTL DEF Spec

-----------------------------------------------------------------------------
(* What a path costs *)

\* In the middle of a path nothing has changed but the slot of its handle,
\* which was free when the path began.
PathInv ==
  path # None =>
    /\ path.held[path.cur.no] = None
    /\ \A n \in SlotNos \ {path.cur.no} : slots[n] = path.held[n]

LEMMA PathStartInv ==
  ASSUME SlotsInv, NEW h \in live, NEW p \in Paths, PathStart(h, p) PROVE PathInv'
<1>1. path = None /\ slots \in Slotted
  BY DEF PathStart, SlotsInv
<1>2. CASE path' = path
  BY <1>1, <1>2 DEF PathInv
<1>3. ASSUME NEW m \in Free, slots' = [slots EXCEPT ![m] = Child[slots[h.no]][p[1]]],
             path' = [cur |-> Derived(h.no, p[1], m), rest |-> Tail(p), held |-> slots]
      PROVE  PathInv'
  <2>1. path'.cur.no = m /\ path'.held = slots /\ slots[m] = None
    BY <1>3 DEF Derived, Free, Used
  <2>2. \A n \in SlotNos \ {m} : slots'[n] = slots[n]
    BY <1>1, <1>3 DEF Slotted
  <2> QED
    BY <2>1, <2>2 DEF PathInv
<1> QED
  BY <1>2, <1>3 DEF PathStart

\* A hop, told by what it does to the slots.
LEMMA HopShape ==
  ASSUME SlotsInv, PathInv, PathHop
  PROVE  /\ \A n \in SlotNos : path.held[n] # None => n # path.cur.no /\ slots[n] # None
         /\ \/ /\ path' = None /\ result' # "ok"
               /\ \A n \in SlotNos : slots'[n] = path.held[n]
            \/ \E m \in Free :
                 /\ result' = "ok" /\ slots'[m] # None /\ path.held[m] = None
                 /\ \A n \in SlotNos \ {m} : slots'[n] = path.held[n]
                 /\ path' # None => path'.cur.no = m /\ path'.held = path.held
<1> DEFINE k == path.rest[1]
           c == path.cur.no
<1>1. /\ path # None /\ path \in Walk /\ c \in SlotNos /\ slots \in Slotted
      /\ path.rest \in Seq(Keys) /\ path.rest # << >>
      /\ path.held[c] = None /\ \A n \in SlotNos \ {c} : slots[n] = path.held[n]
  BY DEF SlotsInv, PathInv, PathHop, Walk, Handle
<1>2. slots[c] # None
  BY <1>1, HeldHandles DEF Held
<1>3. k \in Keys
  BY <1>1, TailOf
<1> HIDE DEF k, c
<1>4. ASSUME path' = None, slots' = Cleared(slots, c)
      PROVE  \A n \in SlotNos : slots'[n] = path.held[n]
  BY <1>1, <1>4 DEF Cleared, Slotted
<1>5. ASSUME NEW m \in Free, Derive(c, k) = "ok",
             slots' = Cleared([slots EXCEPT ![m] = Child[slots[c]][k]], c),
             IF Len(path.rest) = 1
             THEN path' = None
             ELSE path' = [path EXCEPT !.cur = Derived(c, k, m), !.rest = Tail(@)]
      PROVE  /\ slots'[m] # None /\ path.held[m] = None
             /\ \A n \in SlotNos \ {m} : slots'[n] = path.held[n]
             /\ path' # None => path'.cur.no = m /\ path'.held = path.held
  <2>1. m \in SlotNos /\ slots[m] = None /\ m # c
    BY <1>2 DEF Free, Used
  <2>2. Child[slots[c]][k] # None
    BY <1>5 DEF Derive
  <2>3. slots' = [n \in SlotNos |-> IF n = c THEN None ELSE IF n = m THEN Child[slots[c]][k] ELSE slots[n]]
    BY <1>1, <1>5 DEF Cleared, Slotted
  <2>4. slots'[m] # None /\ path.held[m] = None /\ \A n \in SlotNos \ {m} : slots'[n] = path.held[n]
    BY <1>1, <2>1, <2>2, <2>3
  <2>5. ASSUME path' # None PROVE path'.cur.no = m /\ path'.held = path.held
    <3> DEFINE d == Derived(c, k, m)
    <3>1. d.no = m
      BY DEF Derived
    <3> HIDE DEF d
    <3>2. path' = [path EXCEPT !.cur = d, !.rest = Tail(@)]
      BY <1>5, <2>5 DEF d
    <3>3. path' = [cur |-> d, rest |-> Tail(path.rest), held |-> path.held]
      BY <1>1, <3>2 DEF Walk
    <3> QED
      BY <3>1, <3>3
  <2> QED
    BY <2>4, <2>5
<1>6. \A n \in SlotNos : path.held[n] # None => n # c /\ slots[n] # None
  BY <1>1
<1>7. \/ /\ result' # "ok" /\ path' = None /\ slots' = Cleared(slots, c)
      \/ /\ result' = "ok" /\ Derive(c, k) = "ok"
         /\ \E m \in Free :
              /\ slots' = Cleared([slots EXCEPT ![m] = Child[slots[c]][k]], c)
              /\ IF Len(path.rest) = 1
                 THEN path' = None
                 ELSE path' = [path EXCEPT !.cur = Derived(c, k, m), !.rest = Tail(@)]
  BY DEF PathHop, k, c
<1>8. CASE result' # "ok" /\ path' = None /\ slots' = Cleared(slots, c)
  BY <1>4, <1>6, <1>8 DEF c
<1>9. CASE result' = "ok"
  <2>1. PICK m \in Free :
          /\ Derive(c, k) = "ok"
          /\ slots' = Cleared([slots EXCEPT ![m] = Child[slots[c]][k]], c)
          /\ IF Len(path.rest) = 1
             THEN path' = None
             ELSE path' = [path EXCEPT !.cur = Derived(c, k, m), !.rest = Tail(@)]
    BY <1>7, <1>9
  <2>2. /\ slots'[m] # None /\ path.held[m] = None
        /\ \A n \in SlotNos \ {m} : slots'[n] = path.held[n]
        /\ path' # None => path'.cur.no = m /\ path'.held = path.held
    BY <1>5, <2>1
  <2> QED
    BY <1>6, <1>9, <2>2 DEF c
<1> QED
  BY <1>7, <1>8, <1>9

LEMMA PathHopInv == ASSUME SlotsInv, PathInv, PathHop PROVE PathInv'
<1>1. CASE path' = None
  BY <1>1 DEF PathInv
<1>2. CASE path' # None
  <2>1. PICK m \in Free :
          /\ path.held[m] = None /\ path'.cur.no = m /\ path'.held = path.held
          /\ \A n \in SlotNos \ {m} : slots'[n] = path.held[n]
    BY <1>2, HopShape
  <2> QED
    BY <2>1 DEF PathInv
<1> QED
  BY <1>1, <1>2

\* No operation but the hops of a path runs while one is under way.
LEMMA PathInvStays == SlotsInv /\ PathInv /\ [Next]_vars => PathInv'
<1>1. SUFFICES ASSUME SlotsInv, PathInv, [Next]_vars PROVE PathInv'
  OBVIOUS
<1>2. CASE path' = path /\ (path = None \/ slots' = slots)
  BY <1>1, <1>2 DEF PathInv
<1>3. CASE \E h \in live : \E p \in Paths : PathStart(h, p)
  BY <1>1, <1>3, PathStartInv
<1>4. CASE PathHop
  BY <1>1, <1>4, PathHopInv
<1> QED
  BY <1>1, <1>2, <1>3, <1>4
  DEF Next, vars, Load, Get, Clear, Read, Forget, Take, Count, IsNative, AsXfl, TakeXfl, TryCast, AssumeType

LEMMA PathEnds ==
  ASSUME SlotsInv, PathInv, [Next]_vars, path # None, path' = None
  PROVE  Cardinality({n \in SlotNos : slots'[n] # path.held[n]}) = (IF result' = "ok" THEN 1 ELSE 0)
<1>1. PathHop
  BY DEF Next, vars, Load, Get, Clear, Read, Forget, Take, Count, IsNative, AsXfl, TakeXfl, TryCast,
         AssumeType, PathStart
<1> DEFINE Changed == {n \in SlotNos : slots'[n] # path.held[n]}
<1>2. CASE result' # "ok"
  <2>1. Changed = {}
    BY <1>1, <1>2, HopShape
  <2> HIDE DEF Changed
  <2> QED
    BY <1>2, <2>1, FS_EmptySet DEF Changed
<1>3. CASE result' = "ok"
  <2>1. PICK m \in Free :
          /\ slots'[m] # None /\ path.held[m] = None
          /\ \A n \in SlotNos \ {m} : slots'[n] = path.held[n]
    BY <1>1, <1>3, HopShape
  <2>2. Changed = {m}
    BY <2>1 DEF Free
  <2> HIDE DEF Changed
  <2> QED
    BY <1>3, <2>2, FS_Singleton DEF Changed
<1> QED
  BY <1>2, <1>3

(* A slot_path! of any length costs one slot when it succeeds and none     *)
(* when it fails, whichever hop fails and whether for want of a field or   *)
(* of a slot, and no other slot is touched.                                *)
THEOREM PathsCostOneSlot == Spec => PathCost
<1>1. Init => PathInv
  BY DEF Init, PathInv
<1>2. SlotsInv /\ PathInv /\ [Next]_vars =>
        [path # None /\ path' = None =>
           Cardinality({n \in SlotNos : slots'[n] # path.held[n]})
             = (IF result' = "ok" THEN 1 ELSE 0)]_vars
  BY PathEnds
<1> QED
  BY <1>1, <1>2, SlotsInvStarts, SlotsInvStays, PathInvStays, PTL DEF Spec, PathCost

-----------------------------------------------------------------------------
(* Types *)

ResultOK == result \in Outcomes

LEMMA ResultTyped == ResultOK /\ [Next]_vars => ResultOK'
<1>1. SUFFICES ASSUME result \in Outcomes, [Next]_vars PROVE result' \in Outcomes
  BY DEF ResultOK
<1>2. \A type, i : Value(type, i) \in Outcomes
  BY DEF Value, Classified, Exactly, Outcomes
<1>3. \A n, k : Derive(n, k) \in Outcomes
  BY DEF Derive, Outcomes
<1>4. \A i : Elements(i) \in Outcomes /\ Amounting(i) \in Outcomes
  BY DEF Elements, Amounting, Outcomes
<1>5. CASE UNCHANGED vars
  BY <1>1, <1>5 DEF vars
<1>6. CASE \E i \in Roots : Load(i)
  BY <1>6 DEF Load, Outcomes
<1>7. CASE \E h \in live : \E k \in Keys : Get(h, k)
  BY <1>3, <1>7 DEF Get
<1>8. CASE \E h \in live : Clear(h) \/ Read(h) \/ Forget(h) \/ Take(h)
  BY <1>1, <1>2, <1>8 DEF Clear, Read, Forget, Take, Outcomes
<1>9. CASE \E h \in live : Count(h) \/ IsNative(h) \/ AsXfl(h) \/ TakeXfl(h)
  BY <1>4, <1>9 DEF Count, IsNative, AsXfl, TakeXfl
<1>10. CASE \E h \in live : \E type \in Types \ {"Opaque"} : TryCast(h, type)
  BY <1>10 DEF TryCast, Outcomes
<1>11. CASE \E h \in live : \E type \in Types : AssumeType(h, type)
  BY <1>1, <1>11 DEF AssumeType
<1>12. CASE \E h \in live : \E p \in Paths : PathStart(h, p)
  BY <1>3, <1>12 DEF PathStart
<1>13. CASE PathHop
  BY <1>3, <1>13 DEF PathHop
<1> QED
  BY <1>1, <1>5, <1>6, <1>7, <1>8, <1>9, <1>10, <1>11, <1>12, <1>13 DEF Next

(* Every variable keeps its type: the slots hold items of the ledger, the  *)
(* handles name slots the host has, and what leaks is bounded by it.       *)
THEOREM TypeCorrect == Spec => []TypeOK
<1>1. Init => ResultOK
  BY DEF Init, Outcomes, ResultOK
<1>2. SlotsInv /\ ResultOK /\ LeaksBounded => TypeOK
  BY DEF SlotsInv, Slotted, TypeOK, ResultOK, LeaksBounded
<1> QED
  BY <1>1, <1>2, ResultTyped, SlotsInvStarts, SlotsInvStays, SlotsAccounted, PTL DEF Spec
=============================================================================
