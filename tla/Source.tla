------------------------------- MODULE Source --------------------------------
(***************************************************************************)
(* From the source of a Hook to its file: the macros it invokes are        *)
(* expanded and compiled (Entities, Literals, Carrier), and what cargo     *)
(* then produces is what the first rshooks build works on (Build).         *)
(***************************************************************************)
EXTENDS Entities, Carrier, Literals, Build

CONSTANTS Calls   \* the invocations that may stand in the source

FirstStep(c) ==
  CASE c.macro \in Roles -> "vis" [] c.macro \in Derives -> "struct"
    [] c.macro = "crate" -> "item" [] OTHER -> "literal"

Idle == [macro |-> "none"]

SourceInit ==
  /\ Init
  /\ call \in Calls /\ step = FirstStep(call) /\ at = 1 /\ out = <<>>
  /\ parsed = IF call.macro = "crate" THEN NoMetadata ELSE Undeclared

Leaves == call' = Idle /\ step' = "idle" /\ at' = 1 /\ parsed' = Undeclared /\ out' = <<>>

\* Nothing more to see of an invocation, or the crate does not compile.
Settle ==
  /\ step \in {"refused", "rejected", "read", "used", "produced"}
     \/ (step = "compiled" /\ call.macro = "hook_state!")
  /\ Leaves

\* cargo build, and extract_metadata on what it produced.
Meta(found) == IF ~found.ok THEN "bad" ELSE IF found.meta = <<>> THEN "none" ELSE "good"
Cargo ==
  /\ step = "extracted" /\ pc = "idle"
  /\ \E r \in Raws, o \in Options :
       /\ r.meta = Meta(out.found)
       /\ ("hook" \in r.breaks) = (\A i \in DOMAIN out.exports : out.exports[i].name # <<"hook">>)
       /\ cmd' = [kind |-> "build", raw |-> r, opts |-> o]
  /\ pc' = "pipeline"
  /\ UNCHANGED <<result, wasm, json, marked, writer>>
  /\ Leaves

SourceNext ==
  \/ (DeclareNext \/ CrateNext \/ LiteralNext \/ Settle) /\ UNCHANGED vars
  \/ Cargo
  \/ step = "idle" /\ Next /\ UNCHANGED expansion

SourceSpec == SourceInit /\ [][SourceNext]_<<expansion, vars>>
=============================================================================
