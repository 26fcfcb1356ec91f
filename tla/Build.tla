-------------------------------- MODULE Build --------------------------------
(***************************************************************************)
(* rshooks build and rshooks clean (crates/rshooks-build/src/main.rs) over *)
(* one output path: the pipeline and its verdict (lib.rs), and the files   *)
(* they leave: the wasm and the .json sidecar next to it.  Any file        *)
(* operation may fail, the process may be killed between any two of them,  *)
(* and commands follow each other on the same directory.                   *)
(*                                                                         *)
(* A module is the set of rules it breaks and its size; the passes have    *)
(* modules of their own.                                                   *)
(***************************************************************************)
EXTENDS Integers, FiniteSets

CONSTANTS
  Raws,        \* what cargo may produce: [id, meta, breaks, size]
  MaxSize,     \* MAX_SIZE
  GuardSize    \* what auto-guard adds to a module

\* Rules broken: "hook" no hook export, "export" others than hook and cbak,
\* "import" not whitelisted, "recursion", "R1" no _g, "R2" a helper's type,
\* "ladder" nested too deep but for unnest, "nesting" nested too deep for good,
\* "loop" a loop without guard; "float" is looked for by the Rust validator
\* only, "wce" (too many instructions) by the upstream checker only.
Rules == {"hook", "export", "import", "recursion", "R1", "R2", "ladder", "nesting",
          "loop", "float", "wce"}
Module == [id : Nat, breaks : SUBSET Rules, size : Nat]
Options == [api : {0, 1}, auto : BOOLEAN, oversize : BOOLEAN]

ASSUME BuildInputs ==
  /\ MaxSize \in Nat /\ GuardSize \in Nat
  /\ Raws \subseteq [id : Nat, breaks : SUBSET Rules, size : Nat, meta : {"none", "good", "bad"}]

VARIABLES
  pc,       \* the next step of the command; "ok" or "idle" (failed) between commands
  cmd,      \* the command: [kind, raw, opts]
  result,   \* the outcome of its pipeline: [ok, out, oversize, wce]
  wasm,     \* the output file: NoFile or [state, of], state "part" or "whole"
  json,     \* the sidecar: NoFile or [state, of, wce]
  marked,   \* the command has said that its output is INVALID
  writer    \* the command that last replaced the wasm: [kind, meta]

vars == <<pc, cmd, result, wasm, json, marked, writer>>
disk == <<wasm, json>>

-----------------------------------------------------------------------------
(* The pipeline *)

Failed == [ok |-> FALSE]

Without(m, rules) == [m EXCEPT !.breaks = @ \ rules]

\* clean, flatten, unnest and auto_guard: whether they fail, what they return.
PassesFail(m, o) == "hook" \in m.breaks \/ (o.api = 0 /\ "recursion" \in m.breaks)
Shaped(m, o) == Without(m, IF o.api = 0 THEN {"export", "R1", "R2", "ladder"} ELSE {"export"})
AutoGuarded(m, o) ==
  IF o.auto /\ o.api = 0 /\ "loop" \in m.breaks
  THEN [Without(m, {"loop"}) EXCEPT !.size = @ + GuardSize] ELSE m

RustRules(o) == IF o.api = 0 THEN Rules \ {"wce"}
                             ELSE {"hook", "export", "import", "recursion", "float"}
NativeRules == Rules \ {"float", "recursion"}

\* verify
MutVerify(m, o) ==
  LET rust   == m.breaks \cap RustRules(o) = {} /\ (m.size <= MaxSize \/ o.oversize)
      native == m.breaks \cap NativeRules = {}
      accept == [ok |-> TRUE, oversize |-> rust /\ m.size > MaxSize, wce |-> o.api = 0] IN
  IF o.api = 1 THEN IF rust THEN accept ELSE Failed
  ELSE IF native THEN accept ELSE Failed
Verify(m, o) ==
  LET rust     == m.breaks \cap RustRules(o) = {} /\ (m.size <= MaxSize \/ o.oversize)
      native   == m.breaks \cap NativeRules = {}
      hardSize == m.size > MaxSize /\ ~o.oversize
      accept   == [ok |-> TRUE, oversize |-> rust /\ m.size > MaxSize, wce |-> o.api = 0] IN
  IF hardSize \/ o.api = 1 THEN IF rust THEN accept ELSE Failed
  ELSE IF native THEN accept ELSE Failed   \* the upstream verdict wins

\* run_pipeline
Pipeline(raw, o) ==
  LET m   == [id |-> raw.id, breaks |-> raw.breaks, size |-> raw.size]
      out == AutoGuarded(Shaped(m, o), o)
      v   == Verify(out, o) IN
  IF PassesFail(m, o) \/ ~v.ok THEN Failed
  ELSE [ok |-> TRUE, out |-> out, oversize |-> v.oversize, wce |-> v.wce]

-----------------------------------------------------------------------------
(* Commands *)

NoCmd == [kind |-> "none"]
NoFile == [state |-> "absent"]

Init ==
  /\ pc = "idle" /\ cmd = NoCmd /\ result = Failed
  /\ wasm = NoFile /\ json = NoFile /\ marked = FALSE /\ writer = NoCmd

Start ==
  /\ pc \in {"idle", "ok"}
  /\ \E k \in {"build", "clean"}, r \in Raws, o \in Options :
       cmd' = [kind |-> k, raw |-> r, opts |-> o]
  /\ marked' = FALSE /\ result' = Failed
  /\ pc' = "pipeline"
  /\ UNCHANGED <<wasm, json, writer>>

HasSidecar == cmd.kind = "build" /\ cmd.raw.meta = "good"

\* cargo build, extract_metadata, run_pipeline and prepare_sidecar succeed.
MutAccept ==
  /\ pc = "pipeline"
  /\ cmd.kind = "build" => cmd.raw.meta # "bad"
  /\ Pipeline(cmd.raw, cmd.opts).ok
  /\ result' = Pipeline(cmd.raw, cmd.opts)
  /\ pc' = "create"
  /\ UNCHANGED <<cmd, wasm, json, marked, writer>>
Accept ==
  /\ pc = "pipeline"
  /\ cmd.kind = "build" => cmd.raw.meta # "bad"
  /\ Pipeline(cmd.raw, cmd.opts).ok
  /\ result' = Pipeline(cmd.raw, cmd.opts)
  /\ pc' = IF cmd.kind = "clean" \/ HasSidecar THEN "create" ELSE "unlink"
  /\ UNCHANGED <<cmd, wasm, json, marked, writer>>

\* remove_stale_sidecar
Unlink ==
  /\ pc = "unlink"
  /\ json' = NoFile
  /\ pc' = "create"
  /\ UNCHANGED <<cmd, result, wasm, marked, writer>>

\* write_wasm: File::create truncates, write_all may stop half way.
Create ==
  /\ pc = "create"
  /\ wasm' = [state |-> "part", of |-> result.out]
  /\ writer' = [kind |-> cmd.kind, meta |-> cmd.raw.meta]
  /\ pc' = "write"
  /\ UNCHANGED <<cmd, result, json, marked>>

Write ==
  /\ pc = "write"
  /\ wasm' = [wasm EXCEPT !.state = "whole"]
  /\ marked' = result.oversize
  /\ pc' = IF HasSidecar THEN "json" ELSE "ok"
  /\ UNCHANGED <<cmd, result, json, writer>>

MutCreateSidecar ==
  /\ pc = "json"
  /\ json' = [state |-> "part", of |-> cmd.raw, wce |-> result.wce]
  /\ pc' = "jsonwrite"
  /\ UNCHANGED <<cmd, result, wasm, marked, writer>>
CreateSidecar ==
  /\ pc = "json"
  /\ json' = [state |-> "part", of |-> result.out, wce |-> result.wce]
  /\ pc' = "jsonwrite"
  /\ UNCHANGED <<cmd, result, wasm, marked, writer>>

WriteSidecar ==
  /\ pc = "jsonwrite"
  /\ json' = [json EXCEPT !.state = "whole"]
  /\ pc' = "ok"
  /\ UNCHANGED <<cmd, result, wasm, marked, writer>>

\* One of them refuses, a file operation fails, or the process is killed.
Stop ==
  /\ pc \notin {"idle", "ok"}
  /\ pc' = "idle" /\ cmd' = NoCmd /\ result' = Failed
  /\ UNCHANGED <<disk, marked, writer>>

Next ==
  \/ Start \/ Accept \/ Unlink \/ Create \/ Write
  \/ CreateSidecar \/ WriteSidecar \/ Stop

Spec == Init /\ [][Next]_vars

-----------------------------------------------------------------------------
(* Properties *)

Succeeded == pc = "ok"

\* build never ships what a node would refuse: what a successful command
\* leaves is complete, breaks no rule of its checker, and fits, unless the
\* user asked for an oversize artifact.
ShipsOnlyAccepted ==
  Succeeded =>
    /\ wasm.state = "whole"
    /\ wasm.of.size <= MaxSize \/ cmd.opts.oversize
    /\ wasm.of.breaks \cap (IF cmd.opts.api = 0 THEN NativeRules ELSE RustRules(cmd.opts)) = {}

\* After a successful build the sidecar is there exactly if the crate declares
\* metadata, complete, with the hash of the file next to it and with costs
\* exactly for API version 0, whatever earlier commands left behind.
PairMatches ==
  Succeeded /\ cmd.kind = "build" =>
    IF cmd.raw.meta = "good"
    THEN json.state = "whole" /\ json.of = wasm.of /\ json.wce = (cmd.opts.api = 0)
    ELSE json = NoFile

\* A complete sidecar stands next to a wasm it does not describe only after
\* clean, which knows of no sidecar, or while a build with metadata is
\* unfinished: a build without metadata never does this, wherever it stops.
StaleOnlyAfter ==
  wasm # NoFile /\ json.state = "whole" /\ json.of # wasm.of =>
    writer.kind = "clean" \/ (writer.meta = "good" /\ ~Succeeded)

\* An oversize artifact is marked INVALID when it is written.
OversizeMarked == Succeeded /\ wasm.of.size > MaxSize => marked
=============================================================================
