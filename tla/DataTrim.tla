------------------------------ MODULE DataTrim ------------------------------
(***************************************************************************)
(* The data section of a cleaned module (crates/rshooks-build/src/         *)
(* cleaner.rs): trailing zeros of active segments are cut off, and         *)
(* segments of nothing but zeros dropped, when no two segments can         *)
(* overlap.  One step per iteration of the emission loop.                  *)
(*                                                                         *)
(* before and after are the memories that instantiating the segments read, *)
(* respectively written, so far leads to.                                  *)
(***************************************************************************)
EXTENDS Integers, Sequences

CONSTANTS
  Datas,     \* the data sections given to the cleaner
  Bytes,     \* values of a byte
  MemSize,   \* bytes of linear memory
  GlobalAt   \* value of the global an offset expression may name

\* A segment: is it active, is its offset expression exactly an i32.const, the
\* value of that constant as u32, and the payload.
Segment == [active : BOOLEAN, const : BOOLEAN, value : Nat, data : Seq(Bytes)]

ASSUME DataParameters ==
  /\ MemSize \in Nat /\ GlobalAt \in Nat
  /\ Bytes \subseteq Nat /\ 0 \in Bytes
  /\ \A ds \in Datas : ds \in Seq(Segment)

VARIABLES
  datas,     \* the input section, never written
  at,         \* the next segment of the loop
  data_sec,  \* the section being written
  before,    \* memory under the segments read so far, or Trap
  after      \* memory under the segments written so far, or Trap

dvars == <<datas, at, data_sec, before, after>>

-----------------------------------------------------------------------------
(* The decision and the cut *)

Active(ds) == {k \in DOMAIN ds : ds[k].active}

\* One past the last byte of a segment with a constant offset.
End(d) == d.value + Len(d.data)

\* (mutant) Only segments that begin at the same byte are taken to overlap.
MutTrimSafe(ds) ==
  /\ \A k \in Active(ds) : ds[k].const
  /\ \A j, k \in Active(ds) : j # k => ds[j].value # ds[k].value

\* data_trim_is_safe: constant offsets only, no two ranges intersect.  With
\* the ranges sorted it is enough to compare neighbours, as the code does.
TrimSafe(ds) ==
  /\ \A k \in Active(ds) : ds[k].const
  /\ \A j, k \in Active(ds) :
       j # k => End(ds[j]) <= ds[k].value \/ End(ds[k]) <= ds[j].value

\* trim_trailing_zeros: how many bytes are left, 0 when all are zero.
LastNonzero(data) ==
  CHOOSE n \in 0 .. Len(data) :
    /\ \A k \in n+1 .. Len(data) : data[k] = 0
    /\ n # 0 => data[n] # 0

Trimmed(d) == [d EXCEPT !.data = SubSeq(d.data, 1, LastNonzero(d.data))]

\* (mutant) A segment of zeros is not dropped.
MutEmitted(ds, d) ==
  IF ~d.active \/ ~TrimSafe(ds) THEN <<d>> ELSE <<Trimmed(d)>>

\* What the loop writes for one segment: nothing or a segment.
Emitted(ds, d) ==
  IF ~d.active \/ ~TrimSafe(ds) THEN <<d>>
  ELSE IF LastNonzero(d.data) = 0 THEN << >>
  ELSE <<Trimmed(d)>>

-----------------------------------------------------------------------------
(* Instantiation *)

Trap == <<"trap">>
Memory == [0 .. MemSize-1 -> Bytes]
Zeroed == [a \in 0 .. MemSize-1 |-> 0]

Offset(d) == IF d.const THEN d.value ELSE GlobalAt

\* An active segment is copied to its offset or, out of bounds, ends it all.
Apply(mem, d) ==
  IF mem = Trap \/ ~d.active THEN mem
  ELSE IF Offset(d) + Len(d.data) > MemSize THEN Trap
  ELSE [a \in 0 .. MemSize-1 |->
          IF a >= Offset(d) /\ a < Offset(d) + Len(d.data)
          THEN d.data[a - Offset(d) + 1] ELSE mem[a]]

ApplyAll(mem, ds) == IF ds = << >> THEN mem ELSE Apply(mem, ds[1])

-----------------------------------------------------------------------------
DataStart ==
  /\ at = 1 /\ data_sec = << >>
  /\ before = Zeroed /\ after = Zeroed

DataInit == datas \in Datas /\ DataStart

EmitSegment ==
  /\ at <= Len(datas)
  /\ at' = at+1
  /\ LET new == Emitted(datas, datas[at])
     IN  /\ data_sec' = data_sec \o new
         /\ after' = ApplyAll(after, new)
  /\ before' = Apply(before, datas[at])
  /\ UNCHANGED datas

DataSpec == DataInit /\ [][EmitSegment]_dvars

-----------------------------------------------------------------------------
(* Properties *)

(* A hook starts with the same memory as before cleaning: where the        *)
(* original can be instantiated so can the cleaned module, and every byte  *)
(* is the same, in whatever order overlapping segments are written.        *)
SameMemory == before # Trap => after = before

(* Nothing is left to cut: once every range is known to be disjoint, no    *)
(* active segment that is written is empty or ends in a zero (each such    *)
(* byte costs fee for nothing).                                            *)
NoDeadWeight ==
  TrimSafe(datas) =>
    \A k \in Active(data_sec) :
      data_sec[k].data # << >> /\ data_sec[k].data[Len(data_sec[k].data)] # 0

=============================================================================
