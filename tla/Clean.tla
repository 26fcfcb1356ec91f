-------------------------------- MODULE Clean --------------------------------
(***************************************************************************)
(* The whole cleaning pass (crates/rshooks-build/src/cleaner.rs, clean):   *)
(* Cleaner decides what is kept and writes every section, DataTrim is the  *)
(* loop that writes the data section, run when the pass gets there.  The   *)
(* two read the same section: Cleaner the globals its offsets name,        *)
(* DataTrim the ranges and the bytes.                                      *)
(***************************************************************************)
EXTENDS Cleaner, DataTrim

CONSTANT Sections   \* the inputs: a module and its data segments

\* An offset names a global exactly where it is not a constant.
ASSUME CleanInputs ==
  /\ Inputs = {s[1] : s \in Sections} /\ Datas = {s[2] : s \in Sections}
  /\ \A s \in Sections :
       /\ Len(s[1].datas) = Len(s[2])
       /\ \A k \in DOMAIN s[2] : (s[1].datas[k] = None) = (s[2][k].const \/ ~s[2][k].active)

cleanVars == <<vars, dvars>>

CleanInit ==
  /\ \E s \in Sections : m = s[1] /\ datas = s[2]
  /\ Start /\ DataStart

\* The loop over the segments, before the pass closes the data section.
WriteSegment == pc = "data" /\ EmitSegment /\ UNCHANGED vars

OtherStep == (pc = "data" => at > Len(datas)) /\ Next /\ UNCHANGED dvars

CleanNext == WriteSegment \/ OtherStep

CleanSpec == CleanInit /\ [][CleanNext]_cleanVars

\* One sequential call: it keeps running until it returns.
CleanFairSpec == CleanSpec /\ WF_cleanVars(CleanNext)
=============================================================================
