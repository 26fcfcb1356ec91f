---------------------------- MODULE Build_proofs ----------------------------
(***************************************************************************)
(* Proof that a successful build leaves an accepted artifact and the       *)
(* sidecar that belongs to it, and when a sidecar may describe another     *)
(* file than the one next to it, for all crates and all histories of       *)
(* commands, failures and kills on the output directory.                   *)
(***************************************************************************)
EXTENDS Build, TLAPS

Command == [kind : {"build", "clean"}, raw : Raws, opts : Options]
Steps == {"unlink", "create", "write", "json", "jsonwrite", "ok"}

\* From acceptance on the command writes the outcome of its own pipeline; with
\* no sidecar to write it has removed the old one before it opens the wasm.
BuildInv ==
  /\ pc \in {"idle", "pipeline"} \cup Steps
  /\ pc # "idle" => cmd \in Command
  /\ pc \in Steps =>
       /\ result = Pipeline(cmd.raw, cmd.opts) /\ result.ok
       /\ cmd.kind = "build" => cmd.raw.meta # "bad"
  /\ pc \in {"json", "jsonwrite"} => HasSidecar
  /\ pc = "unlink" => cmd.kind = "build" /\ ~HasSidecar
  /\ pc \in {"create", "write", "ok"} /\ cmd.kind = "build" /\ ~HasSidecar => json = NoFile
  /\ pc = "write" => wasm = [state |-> "part", of |-> result.out]
  /\ pc \in {"json", "jsonwrite", "ok"} => wasm = [state |-> "whole", of |-> result.out]
  /\ pc = "jsonwrite" => json = [state |-> "part", of |-> result.out, wce |-> result.wce]
  /\ pc = "ok" /\ HasSidecar => json = [state |-> "whole", of |-> result.out, wce |-> result.wce]

LEMMA Initially == Init => BuildInv
BY DEF Init, BuildInv, Steps

LEMMA Preserved == BuildInv /\ [Next]_vars => BuildInv'
<1> SUFFICES ASSUME BuildInv, [Next]_vars PROVE BuildInv'
  OBVIOUS
<1>1. CASE Start
  BY <1>1 DEF Start, BuildInv, Steps, Command
<1>2. CASE Accept
  BY <1>2 DEF Accept, BuildInv, Steps, HasSidecar, Command
<1>3. CASE Unlink
  BY <1>3 DEF Unlink, BuildInv, Steps, HasSidecar
<1>4. CASE Create
  BY <1>4 DEF Create, BuildInv, Steps, HasSidecar
<1>5. CASE Write
  BY <1>5 DEF Write, BuildInv, Steps, HasSidecar
<1>6. CASE CreateSidecar
  BY <1>6 DEF CreateSidecar, BuildInv, Steps, HasSidecar
<1>7. CASE WriteSidecar
  BY <1>7 DEF WriteSidecar, BuildInv, Steps, HasSidecar
<1>8. CASE Stop
  BY <1>8 DEF Stop, BuildInv, Steps
<1>9. CASE UNCHANGED vars
  BY <1>9 DEF vars, BuildInv, Steps, HasSidecar
<1> QED
  BY <1>1, <1>2, <1>3, <1>4, <1>5, <1>6, <1>7, <1>8, <1>9 DEF Next

LEMMA Invariant == Spec => []BuildInv
BY Initially, Preserved, PTL DEF Spec

\* What an accepted pipeline returns obeys its checker and its size limit.
LEMMA AcceptedOutput ==
  ASSUME NEW raw \in Raws, NEW o \in Options, Pipeline(raw, o).ok
  PROVE  LET p == Pipeline(raw, o) IN
         /\ p.wce = (o.api = 0)
         /\ p.out.size <= MaxSize \/ o.oversize
         /\ p.out.breaks \cap (IF o.api = 0 THEN NativeRules ELSE RustRules(o)) = {}
<1> DEFINE m   == [id |-> raw.id, breaks |-> raw.breaks, size |-> raw.size]
           out == AutoGuarded(Shaped(m, o), o)
           v   == Verify(out, o)
<1>1. v.ok /\ Pipeline(raw, o) = [ok |-> TRUE, out |-> out, oversize |-> v.oversize, wce |-> v.wce]
  BY DEF Pipeline, Failed
<1>2. o.api \in {0, 1} /\ o.oversize \in BOOLEAN
  BY DEF Options
<1>4. out.size \in Nat /\ MaxSize \in Nat
  <2>1. m.size \in Nat /\ GuardSize \in Nat /\ MaxSize \in Nat
    BY BuildInputs
  <2> QED
    BY <2>1 DEF AutoGuarded, Shaped, Without
<1> HIDE DEF out
<1>3. /\ v.wce = (o.api = 0)
      /\ out.size <= MaxSize \/ o.oversize
      /\ out.breaks \cap (IF o.api = 0 THEN NativeRules ELSE RustRules(o)) = {}
  <2>1. CASE o.api = 0
    <3> DEFINE rust == out.breaks \cap RustRules(o) = {} /\ (out.size <= MaxSize \/ o.oversize)
               native == out.breaks \cap NativeRules = {}
               hardSize == out.size > MaxSize /\ ~o.oversize
               accept == [ok |-> TRUE, oversize |-> rust /\ out.size > MaxSize, wce |-> o.api = 0]
    <3>1. v = IF hardSize THEN IF rust THEN accept ELSE Failed
                          ELSE IF native THEN accept ELSE Failed
      BY <2>1 DEF Verify
    <3>2. ~Failed.ok
      BY DEF Failed
    <3> HIDE DEF v
    <3>3. ~hardSize /\ native /\ v = accept
      <4>1. hardSize => ~rust
        BY <1>2, <1>4
      <4> HIDE DEF hardSize, rust, native, accept
      <4> QED
        BY <1>1, <3>1, <3>2, <4>1
    <3>4. out.size <= MaxSize \/ o.oversize
      BY <1>2, <1>4, <3>3
    <3> QED
      BY <2>1, <3>3, <3>4
  <2>2. CASE o.api = 1
    BY <1>1, <1>2, <2>2 DEF Verify, Failed
  <2> QED
    BY <1>2, <2>1, <2>2
<1> HIDE DEF v
<1> QED
  BY <1>1, <1>3

\* A successful command leaves a complete artifact that its checker accepts and
\* that fits, unless the user asked for an oversize one.
THEOREM BuildShipsOnlyAccepted == Spec => []ShipsOnlyAccepted
<1>1. BuildInv => ShipsOnlyAccepted
  <2> SUFFICES ASSUME BuildInv, pc = "ok"
               PROVE  /\ wasm.state = "whole"
                      /\ wasm.of.size <= MaxSize \/ cmd.opts.oversize
                      /\ wasm.of.breaks \cap (IF cmd.opts.api = 0 THEN NativeRules
                                              ELSE RustRules(cmd.opts)) = {}
    BY DEF ShipsOnlyAccepted, Succeeded
  <2>1. /\ cmd.raw \in Raws /\ cmd.opts \in Options
        /\ result = Pipeline(cmd.raw, cmd.opts) /\ result.ok
        /\ wasm.of = result.out /\ wasm.state = "whole"
    BY DEF BuildInv, Steps, Command
  <2> QED
    BY <2>1, AcceptedOutput
<1> QED
  BY <1>1, Invariant, PTL

\* After a successful build the sidecar describes the file next to it, and is
\* there exactly if the crate declares metadata.
THEOREM BuildPairMatches == Spec => []PairMatches
<1>1. BuildInv => PairMatches
  <2> SUFFICES ASSUME BuildInv, pc = "ok", cmd.kind = "build"
               PROVE  IF cmd.raw.meta = "good"
                      THEN json.state = "whole" /\ json.of = wasm.of
                           /\ json.wce = (cmd.opts.api = 0)
                      ELSE json = NoFile
    BY DEF PairMatches, Succeeded
  <2>1. /\ cmd.raw \in Raws /\ cmd.opts \in Options
        /\ result = Pipeline(cmd.raw, cmd.opts) /\ result.ok /\ wasm.of = result.out
    BY DEF BuildInv, Steps, Command
  <2>2. result.wce = (cmd.opts.api = 0)
    BY <2>1, AcceptedOutput
  <2>3. CASE cmd.raw.meta = "good"
    <3>1. json = [state |-> "whole", of |-> result.out, wce |-> result.wce]
      BY <2>3 DEF BuildInv, HasSidecar
    <3> QED
      BY <2>1, <2>2, <2>3, <3>1
  <2>4. CASE cmd.raw.meta # "good"
    BY <2>4 DEF BuildInv, HasSidecar
  <2> QED
    BY <2>3, <2>4
<1> QED
  BY <1>1, Invariant, PTL

-----------------------------------------------------------------------------
(* Stale sidecars *)

\* From the moment it opens the wasm a command is its writer.  A sidecar that
\* does not belong to the wasm is the work of a clean, or what a build with
\* metadata has not come to yet.
StaleInv ==
  /\ pc \in {"write", "json", "jsonwrite", "ok"} => writer = [kind |-> cmd.kind, meta |-> cmd.raw.meta]
  /\ StaleOnlyAfter

LEMMA StaleInvStays == BuildInv /\ StaleInv /\ [Next]_vars => StaleInv'
<1> SUFFICES ASSUME BuildInv, StaleInv, [Next]_vars PROVE StaleInv'
  OBVIOUS
<1>1. CASE Start
  BY <1>1 DEF Start, StaleInv, StaleOnlyAfter, Succeeded
<1>2. CASE Accept
  BY <1>2 DEF Accept, StaleInv, StaleOnlyAfter, Succeeded
<1>3. CASE Unlink
  BY <1>3 DEF Unlink, StaleInv, StaleOnlyAfter, Succeeded, NoFile
<1>4. CASE Create
  <2>1. cmd.kind \in {"build", "clean"} /\ (cmd.kind = "build" /\ cmd.raw.meta # "good" => json = NoFile)
    BY <1>4 DEF Create, BuildInv, Command, HasSidecar
  <2>2. writer' = [kind |-> cmd.kind, meta |-> cmd.raw.meta] /\ pc' = "write" /\ json' = json /\ cmd' = cmd
    BY <1>4 DEF Create
  <2> QED
    BY <2>1, <2>2 DEF StaleInv, StaleOnlyAfter, Succeeded, NoFile
<1>5. CASE Write
  <2>1. /\ wasm = [state |-> "part", of |-> result.out] /\ cmd.kind \in {"build", "clean"}
        /\ cmd.kind = "build" /\ ~HasSidecar => json = NoFile
    BY <1>5 DEF Write, BuildInv, Command
  <2>2. wasm'.of = wasm.of /\ wasm # NoFile /\ json' = json /\ writer' = writer /\ cmd' = cmd
    BY <1>5, <2>1 DEF Write, NoFile
  <2>3. writer = [kind |-> cmd.kind, meta |-> cmd.raw.meta]
    BY <1>5 DEF Write, StaleInv
  <2>4. CASE HasSidecar
    BY <1>5, <2>2, <2>3, <2>4 DEF Write, HasSidecar, StaleInv, StaleOnlyAfter, Succeeded
  <2>5. CASE ~HasSidecar
    BY <1>5, <2>1, <2>2, <2>3, <2>5 DEF Write, NoFile, StaleInv, StaleOnlyAfter, Succeeded
  <2> QED
    BY <2>4, <2>5
<1>6. CASE CreateSidecar
  BY <1>6 DEF CreateSidecar, StaleInv, StaleOnlyAfter, Succeeded
<1>7. CASE WriteSidecar
  <2>1. /\ wasm = [state |-> "whole", of |-> result.out]
        /\ json = [state |-> "part", of |-> result.out, wce |-> result.wce]
    BY <1>7 DEF WriteSidecar, BuildInv
  <2>2. json'.of = wasm'.of
    BY <1>7, <2>1 DEF WriteSidecar
  <2> QED
    BY <1>7, <2>2 DEF WriteSidecar, StaleInv, StaleOnlyAfter
<1>8. CASE Stop
  BY <1>8 DEF Stop, disk, StaleInv, StaleOnlyAfter, Succeeded
<1>9. CASE UNCHANGED vars
  BY <1>9 DEF vars, StaleInv, StaleOnlyAfter, Succeeded
<1> QED
  BY <1>1, <1>2, <1>3, <1>4, <1>5, <1>6, <1>7, <1>8, <1>9 DEF Next

\* A complete sidecar next to a wasm it does not describe is the doing of a
\* clean or of an unfinished build with metadata, however many commands have
\* been run, killed or failed before.
THEOREM BuildStaleOnlyAfter == Spec => []StaleOnlyAfter
<1>1. Init => StaleInv
  BY DEF Init, StaleInv, StaleOnlyAfter, Succeeded
<1>2. StaleInv => StaleOnlyAfter
  BY DEF StaleInv
<1> QED
  BY <1>1, <1>2, Initially, Preserved, StaleInvStays, PTL DEF Spec
=============================================================================
