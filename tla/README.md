# rshooks: a verification project

rshooks lets a developer write Xahau Hooks in Rust. A hook is a WebAssembly
module that a ledger runs once per transaction, under strict rules: no
recursion, no helper functions (API version 0), every loop guarded by a counter,
nesting at most 32, at most 65,535 bytes. `rshooks-build` turns what `rustc`
emits into a module of that kind; the `rshooks` crate wraps the host functions a
hook may call; `rshooks-macros` turns declarations into the keys, parameters and
values a hook reads and writes; and two of the examples are ports of the hooks
that govern the network itself. All are hard to test: the pipeline rewrites code
whose meaning must not change, the wrappers speak to a host that no unit test has,
the macros' mistakes are other people's wrong ledger entries, and a governance
table goes wrong, if it does, after years of votes.

This directory has TLA+ models of the parts whose correctness is not local, the
TLC configurations that check them on small instances, and proofs, checked by
TLAPS, of what matters most for instances of every size.

    tlc -workers 2 -config MCSlots.cfg MCSlots     # a run
    tlapm Slots_proofs.tla                         # the proofs of a module

## 1. Inventory

Paths are relative to the repository. "State" is what a component keeps while it
works, "hard" what a test would hardly reach, "correct" what has to hold.

### Build pipeline (`crates/rshooks-build/src`)

`main.rs` runs cargo, then `lib.rs` passes the module through cleaner, flatten,
unnest, (optionally) guard, cleaner's data trimming as part of emission, and the
two checkers, and `main.rs` writes `<hook>.wasm` and `<hook>.json`. Every pass
takes bytes, parses them with `ir.rs` and returns bytes: passes share no state,
but each relies on what the one before established.

| Part | State | Operations | Hard | Correct |
|---|---|---|---|---|
| `cleaner.rs` reachability and emission | work list, reachable set, used globals, index tables, output sections | locate entries, visit, collect globals, build tables, emit | two tables and several sections must agree; bodies are copied raw when nothing moved | keeps exactly what is reached, every reference keeps its target, ends |
| `cleaner.rs` data segments | segments left | test overlap, drop, cut | segments that touch or overlap, unsigned offsets, zero runs | a hook starts with the same memory |
| `ir.rs`, `flatten.rs` call graph | colours, path, stack, order | detect a cycle, order callees | two hand-written iterative traversals | recursion is found exactly when there is some, callees come first |
| `flatten.rs` inliner | finished bodies, body being written, type table | splice, renumber locals, rewrite returns and branches, rebuild types | locals and labels change meaning where a body is spliced | no call left, valid output, same behaviour |
| `unnest.rs` | body, iterations left | three rewritings to a fixed point | copies code and renumbers branches; its own bound on iterations | same behaviour, never deeper, reaches its fixed point |
| `guard.rs` | body, guard ids, import table | find unguarded loops, insert guards, import `_g` | the import shifts every index; budgets accumulate over calls | every loop guarded, guards change nothing until they run out |
| `main.rs`, `lib.rs` pipeline | output pair on disk | build, clean, check | failures and kills between file operations; leftovers of earlier commands | nothing refused is shipped, sidecar matches module |
| `validator.rs`, `whitelist.rs`, `guard_native.rs` | none | rules over a module | two checkers that disagree | the verdict is the authoritative checker's |
| `metadata.rs` | none | extract the declaration from an export's name, validate, build the masks, hash | taken before cleaning, which drops the export that carries it; completed after; two tables of transaction types | what was declared is what the sidecar says, of the final bytes |
| `fee.rs` | none | one product | - | - |

### Hook library (`crates/rshooks/src`)

| Part | State | Operations | Hard | Correct |
|---|---|---|---|---|
| `slot_obj.rs`, `api/slot.rs` | 255 host slots; affine handles | load, step, read, take, cast, clear, forget, paths | the host's slots outlive handles; a path can fail in its middle | a handle names what it was made for, slots are accounted for |
| `state.rs`, `api/state.rs`, `convert.rs` | host entries per account and namespace | typed, fixed-width, as-int64 and raw get, set, update, delete | byte order, padding of keys, absence against failure | keys are separate, values read back, failures do not look absent |
| `txn.rs`, `api/etxn.rs` | template bytes, prepared length | declare, set, prepare, emit | offsets, partial failure, length known only at run time | the emitted blob parses to what was set |
| `static_cell.rs` | taken flag | take | a second take | one winner |
| `xfl.rs`, `xfl_unchecked.rs`, `api/float.rs` | none | encode, decode; arithmetic by the host | normalisation at the ends of the range | literals round-trip |
| `macros.rs`, `api/control.rs` | none | `guard!`, `accept!`, `rollback!` | ids are line numbers | loops have different ids |
| `error.rs`, `errors.rs`, `types.rs`, `sfield.rs`, `tx_type.rs`, `buf_eq.rs` | none | tables, newtypes, comparisons | - | - |
| other `api/*.rs` | none | one host call each | - | - |

### Macros (`crates/rshooks-macros/src`)

Token transformations at compile time. They keep no state between invocations;
within one, a cursor and what has been read so far.

| Part | Operations | Hard | Correct |
|---|---|---|---|
| `decl_pair.rs` (`hook_state!`, `hook_parameter!`, `otxn_parameter!`) | read `key => value`, in six forms of key and two of value; generate structs, impls, constants and aliases | one grammar for three macros, told apart token by token; what is generated is text that is parsed again | what is declared is what was written; what was not meant is refused, by the macro or the compiler |
| `shape.rs`, `hook_key.rs`, `hook_data.rs`, `param_name.rs`, `param_value.rs` | read a struct, derive the traits | field order is byte order; lengths add up | a value reads back; the length is checked where it matters |
| `lib.rs` entry points, `metadata!` | wrap `hook` and `cbak`, hide a declaration in an export's name | travels through `rustc` as a symbol | reaches `metadata.rs` unchanged |
| `xfl_literal.rs`, `base58.rs`, `sha256.rs`, `paste` | compute a value or a name from a literal | digits, exponents, carries, checksums; raw identifiers | the value is the number or the account that was written |

### Network hooks (`examples/80_reward`, `examples/81_govern`)

Both run on the genesis account, for as long as the network does.

| Part | State (in the ledger) | Operations | Hard | Correct |
|---|---|---|---|---|
| `81_govern` | per table: member count, seat -> member and member -> seat entries, one vote per member and topic, one count per value; the reward rate and delay; installed hooks | setup, vote, change a vote, and when a count reaches its threshold: change a seat, a hook or a reward setting, or forward the vote to the L1 table | four kinds of entries are kept in step by hand over many transactions; members leave while their votes stand; emitted transactions arrive late, out of order or never | seats and members agree, counts count members' votes, nothing changes without its quorum |
| `80_reward` | the claimant's accumulator (the protocol's), the settings and seats of `81_govern` | opt in, claim | the accumulator is stale since the last balance change; seats change between claims | a claim pays the rate of the mean balance and the seated validators |
| `mint_txn.rs`, `txn.rs` | a buffer and the offsets to patch | build three transactions byte by byte | offsets kept while writing | the protocol reads what was meant |

### The rest

`crates/rshooks-core` (generated host declarations), `crates/xtask` (their
generator), the small `examples/`, `e2e/` (tests against a live node).
`PROJECT.json` lists all of them, and every hazard at its line.

## 2. Modules

Each component has a module with one action per step of the code, an `MC` module
and `.cfg` with its instance, and, where proofs exist, a `_proofs` module. `Mut...`
definitions are variants of the one that follows them with a bug that could have
been made there; no specification uses them, and substituting one makes the
property it is listed with fail.

**The pipeline**

| Module | Models | Notes |
|---|---|---|
| `Cleaner` | `fn clean`: entries, reachability, globals, tables, emission | a module is its references; indices are the program's, so tables that disagree show |
| `DataTrim` | the data section of `fn clean` | one step per segment; instantiates input and output side by side |
| `Clean` | the whole of `fn clean` | composes the two: the globals that an offset names are `Cleaner`'s, its range and bytes `DataTrim`'s |
| `CallGraph` | `find_call_cycle`, then `topo_post_order` | explicit stacks as in the code; the order edges are popped in is left open |
| `Wasm` | small-step semantics of the opcodes the passes tell apart | labels, locals, calls, traps, host calls, guards; integers modulo `Width`; `Invalid` is where a validator would have stopped, so that every step of every body is defined |
| `Flatten` | the inliner, one operator copied or spliced per step | then runs both modules in lock step |
| `Unnest` | the three rewritings and their fixed point | then runs both |
| `Guard` | scan, insertion, the import of `_g` | then runs both, under the host's count per guard id |
| `Build` | `build` and `clean` over one output pair | a step per file operation, any of which may fail; a kill between any two |

**From the source to the pipeline**

| Module | Models | Notes |
|---|---|---|
| `Tokens` | token trees and the state of one invocation | texts keep the gaps between tokens that the generated source needs, and `Lexed` reads them again |
| `Declarations` | the parsers of `decl_pair.rs` and `shape.rs`, a step per part of the grammar | |
| `Entities` | what they generate, what `rustc` makes of it (as far as the code relies on it: duplicate and conflicting items, missing traits, the orphan rule, length assertions), and the bytes of keys, names and values at run time | scalars are numbers written least significant byte first |
| `TxTypes` | the transaction type codes and their three tables | all 74, as in the code |
| `Carrier` | `#[hook]`, `#[cbak]`, `metadata!`, the export, extraction, validation, masks, warnings | a crate is a sequence of invocations, expanded one by one |
| `Literals` | `XFL!`, `account_id!`, `paste` | digit by digit, symbol by symbol |
| `Source` | a crate from its source to its files | composes `Entities`, `Carrier`, `Literals` with `Build`: what is extracted is what the first build works on |

**The library**

| Module | Models | Notes |
|---|---|---|
| `Slots` | slot objects and `slot_path!` over a ledger of nested items, array counts, amounts | a handle carries, as history, the item it was made for |
| `StateMap` | abstract: an update-once map from keys to values | what the typed layer promises |
| `HookState` | every family of state calls over the host's padded store | a hook is `typed` (one value type per key, the typed calls only) or mixes all families; the typed one implements `StateMap` |
| `StObject` | field headers, integers and amounts of the wire format | shared by the two writers of transactions |
| `TxnTemplate` | layout, compile-time checks, setters, `prepare_for_emit`, `Prepared` | byte for byte, with the protocol's reader as the judge |

**The network hooks**

| Module | Models | Notes |
|---|---|---|
| `RoundTable` | abstract: a table whose seats change by a quorum of its members of the moment | no counts, no collection, no member count |
| `Govern` | `81_govern` at the L1 table and an L2 table | one action per accepted Invoke; what is emitted is in flight and is delivered, in any order, or lost. Each table implements `RoundTable` |
| `Reward` | `80_reward` on the same account | extends `Govern`, so that settings and seats change between claims; XFL numbers are exact fractions; two ghost variables account independently for what a claim is owed |
| `Emitters` | the three transactions that the two hooks write | and a reader of nested objects and arrays |

`MCBuild`, `MCGenesis` and the other `MC...` modules hold the instances.

`Flatten`, `Unnest` and `Guard` extend `Wasm`; it is also what makes "same
behaviour" mean something: the pass is run, and then input and output are executed
with the same argument and host and compared at every observable step (host calls
with their arguments, results, traps), as `tests/flatten_differential.rs` and
`tests/unnest_differential.rs` do for chosen programs.

### What is abstracted

* Bytes of sections, opcodes copied unchanged, names and texts are values or
  left out. Widths are parameters: a word of two bytes shows byte order, a memory
  of four bytes has every way two segments can meet.
* Host functions are external: an operator says what the code relies on, and any
  call that can fail may fail at any time.
* `ir.rs` parses to what it read; `wasmparser` and `wasm-encoder` are trusted.
* `rustc` is external: `Compiles` in `Entities` says what of it the macros rely on.
* The protocol is external: what a transaction does to balances, accumulators and
  hooks is said in `Reward` and `Govern` as far as the two hooks depend on it.
* An invocation is expanded and used alone; several of them interact in `Carrier`
  only, since nothing else passes from one to another.

## 3. Runs

| Run | Instance | States | What it shows |
|---|---|---|---|
| `clean` | every call graph over one import and three functions, every initializer chain over three globals; every data section of up to two segments, and of three within bounds, over four bytes of memory | 348,022 | `KeepsWhatIsNeeded`: exactly what is reached is kept. `ReferencesPreserved`. `SameMemory`, `NoDeadWeight`: a hook starts with the same memory, and nothing is left to trim. `Terminates` |
| `callgraph` | every call graph over one import and three functions | 70,492 | `RecursionExact`; `InlineOrder`: complete, callees first |
| `flatten` | leaves, callers and entries of every return shape | 10,896 | `NoCallLeft`; `OutputSound`: valid, its types exact; `SameBehaviour` |
| `flatten_stale` | a callee with a local, called in a loop | - | violates `SameBehaviour` |
| `unnest` | two nested blocks with every content and continuation | 7,367 | `FixpointReached`, `NeverDeeper`, `SameBehaviour` |
| `guard` | 72 programs with plain, nested, endless and guarded loops, with and without `_g` | 11,995 | `ResultGuarded`; `GuardsInvisible`: nothing changes until a guard runs out, and none does early; `GuardedEnds` |
| `build` | every documented form of every macro, and each with one token missing, replaced or exchanged; crates with all 74 transaction types; literals around every bound; then eight crates with one flaw each, both API versions, all options | 160,961 | `DeclaredAsWritten`, `EntriesReached` (what is declared is what is compiled, encoded and read back), `MetadataSurvives`, `LiteralsExact`; `ShipsOnlyAccepted`, `PairMatches`, `StaleOnlyAfter` |
| `slots` | three interchangeable slots, objects, an array, amounts, a 64-bit field, three paths | 280,099 | `HandlesFaithful`, `Accounted`, `CheckedDecodes`, `PathCost` |
| `hook_state` | a unit and a one-byte variant, two spaces, reserve for two entries; typed and mixed hooks | 23,282 | `LittleEndianReadsBack`, `CasesIndependent`, `UpdatesNeverClobber`; `IsMap`: the typed layer refines `StateMap` |
| `txn_template` | two sound declarations and some thirty with one slip, which must not compile; both callback settings | 5,328 | `BlobDecodes`, `EmitReady` |
| `genesis` | two tables of four seats, six accounts, eleven scripts: which ballots, up to five votes, or two votes and four ledgers of claims; two emissions in flight | 72,138 | `TableSound`, `CountsAreMembersVotes`, `HookSetsRead`, `ActionedByQuorum`; `TablesAreRoundTables`: both tables refine `RoundTable`; `PaysTheMean`, `PaysSeatedValidators` |
| `emitted` | the same | - | violates `EmittedReads` |

Why the bounds are enough. Three defined functions have self-recursion, mutual
recursion, diamonds, unreachable cycles and functions shared by `hook` and `cbak`;
the traversals treat every further function alike, and the theorems hold for any
number. Programs for the passes have two levels of calls or blocks because every
rewriting looks at a construct and the one around it. Three slots are exhausted in
the middle of a path of three hops. Two entries are a reserve that a third one
exceeds. `MaxHeld = 2` nests one `Prepared` in another. Small widths: `Width = 16`
wraps within a run, `MaxIter = 3` runs out.

A mantissa of two digits with exponents -3 to 2 and `MaxI64 = 99` has every literal
that overflows, underflows, saturates or loses a digit to normalisation; radix 3
over bytes of 4 has carries in both directions and addresses with leading zeros.
Edits of one token are what tells a grammar's alternatives apart: each is decided
by one token.

Three members of four seats have thresholds of two and three, so that a change of
members moves a threshold past a standing count; five votes replace a member,
change a vote and action it again. The scripts of `genesis` bound what a behaviour
is about, not what may happen in it: any account votes at any moment, every
delivery is late, reordered or lost. `HookMax = 1` gives one position that is
collected and the last one, which is not. Two hashes differ in their first four
bytes only, which a count key overwrites (`keys.rs:53`). The claim scripts have
balances below and above one XAH, a rate above one, a delay below one second, and
settings that disable rewards.

### Configurations that end in a violation

Each states what the repository says and shows where the code differs. The first
two are runs, with findings in `PROJECT.json` that quote the lines; the others are
kept beside them.

* `MCFlattenStale` (`flatten_stale`), `SameBehaviour`: a callee spliced into a loop
  starts its second iteration with the locals of its first, where a call would
  start at zero (`flatten.rs:137`).
* `MCGenesisEmitted` (`emitted`), `EmittedReads`: the vote that an L2 table forwards
  has no EmitDetails and a zero byte in the way of its topic
  (`81_govern/src/txn.rs:315`), and the GenesisMint has its ledger window and fee
  written over the headers of their fields (`80_reward/src/mint_txn.rs:185`): neither
  reads as its README documents it.
* `MCHookStateDocs`, three properties, each violated by itself:
  `CasesIndependent`: when the first variant of a `state_keys!` enum has a payload,
  its keys and those of a shorter variant can be one host slot, since discriminant 0
  looks like the host's padding (`state.rs:851`, against "every variant is a
  separate, independently named case", `state.rs:109`).
  `BigEndianRoundTrips`: `state_update_u64` succeeds with 2^63 or more and its entry
  is unreadable from then on (`api/state.rs:387`, against lines 8 to 10).
  `ForeignTwinAgrees`: `state_foreign_u64_le` ignores the length it read and accepts
  short entries that `state_u64_le` refuses (`api/state.rs:592`, against the table at
  234).
* `MCFlattenLabel`, `SameBehaviour`: a callee without `return` may still branch to
  the label of its function; spliced bare, the branch leaves a construct of the
  caller (`flatten.rs:496`, against the comment at 314).
* `MCBuildOversize`, `OversizeMarked`: when only the Rust validator objects, the
  report starts anew and an oversize module is written without its mark
  (`lib.rs:112`, against `docs/DESIGN.md:1411`).

The passing runs of the same modules leave these inputs out: `flatten` has no
callee with uninitialised locals in a loop and no branch to a function label, and
`hook_state` has a unit first (the hypothesis `Separate` of the theorems).

### Fairness and deadlock

Only `Terminates` and `GuardedEnds` are liveness properties. Both are under
`WF` of the whole next-state relation: a pass is a sequential function of one thread
and a hook's interpreter keeps running, so while a step is possible one is taken.
Nothing stronger is assumed. `Govern` and `Reward` have no fairness at all: nobody
has to vote, and what is emitted may never be applied. `CHECK_DEADLOCK FALSE` stands
where the system ends: a pass that has returned, a hook that has finished, a script
whose votes are used up.

## 4. Proofs

| Theorem | Statement | Argument |
|---|---|---|
| `Clean_proofs!TypeCorrect` | `Spec => []TypeOK` | one step per action |
| `KeepsExactlyWhatIsNeeded` | kept = least closed set, of functions and of globals | `ReachLoop`, `GlobalsLoop`: what is kept is within every closed set, and every edge out of it is kept or still on the work list |
| `ReferencesKeepTheirTargets` | references keep their targets | `TablesInv`: a finished table numbers the kept indices 0, 1, ... in order; `SectionsInv`: the section written so far is that enumeration |
| `CleanKeepsMemory` | same initial memory | `DataInv`: both memories agree after every segment; a cut tail lies in memory that is still zero because ranges are disjoint. `Parts`: the whole pass is a behaviour of each of its halves |
| `CleanLeavesNoDeadWeight` | nothing is left to trim | `WeightInv`: every active segment written so far ends in a byte that is not zero; `EmittedWeighty`: so does the next one, for the cut is behind the last such byte and a segment without any is dropped |
| `CallGraph_proofs!TypeCorrect`, `RecursionCheckIsExact` | recursion is reported exactly when there is some | `DetectInv`: grey nodes are the path, edges of black nodes end in black ones, and black nodes have a well-founded rank |
| `OrderIsSound` | the order is complete and puts callees first | `OrderInv`, on top of the absence of cycles |
| `Flatten_proofs!NoCallLeftBehind` | no finished body calls a defined function | `InlineInv`: finished bodies are clean, callees of the body being written are finished |
| `OutputStaysSound` | constructs nest, branches have targets, locals exist; the type section is exact | `ValidInv`: what is written of a body so far is as deep as what was read of it, and a splice is a `Piece` (`InlinedPiece`): it never closes more than it opens, so depths add up (`PiecesConcat`); `TypesInv`: the section so far is the types of the imports already mapped, each once |
| `Guard_proofs!AutoGuardCorrect` | every loop of the result begins with its own `_g` | `GuardInv`: every loop already copied is guarded under the shifted indices, at most the last one is pending |
| `OutputIsGuardedInput` | the output is the input with a guard behind each unguarded loop, ids distinct and below those of `guard!`, indices translated, nothing else changed | `ShapeInv`: the body so far is the old one up to `pos`, each operator behind the guards of the loops before it (`Moved`), and the ids used so far are as many as those loops |
| `GuardsNotObservable` | host calls and the end are the input's, until the guard of a loop that has begun more than `MaxIter` iterations ends the hook | `RunInv`: the output's state always follows an earlier state of the input by at most four operators of one guard, or has ended there; below |
| `Build_proofs!BuildShipsOnlyAccepted`, `BuildPairMatches` | what succeeds is accepted and paired | `BuildInv`: per step of a command, which files are whole and whose they are |
| `BuildStaleOnlyAfter` | a stale pair is the doing of a clean or an unfinished build | `StaleInv`: from the moment it opens the module a command is its writer, and until it is done what does not match is its doing |
| `Slots_proofs!HandlesStayFaithful` | handles are faithful and exclusive | `SlotsInv`: adds the handle inside a path walk, which is live for nobody else |
| `SlotsAccounted`, `TypeCorrect` | taken slots are handles and leaks, and bounded | `StepEffect`: a step takes a free slot for a handle, gives one back, moves a handle within its slot or leaks it; the cardinalities follow |
| `CheckedTypesDecode` | derived and checked types decode | a handle with a type has an item of that kind, or of an opaque one; the ledger's widths do the rest |
| `PathsCostOneSlot` | a path costs one slot or none | `PathInv`: while it walks, a path has exactly one slot more than before it, whichever hop is next |
| `HookState_proofs!KeysAreSeparate` | slots of different keys differ | under `Separate`: no variant is shorter than the first, so padding never imitates discriminant 0 |
| `NoCallTouchesAnotherKey`, `TypedHookIsMap` | calls are independent; the typed layer is a map | `StoreShape`, `StateInv` and `KeysAreSeparate`; the refinement maps each slot to its key |
| `LittleEndianWordsReadBack` | little-endian words read back | what was written under a key is in its slot until the key is written again, which `KeysAreSeparate` decides; a word decodes to itself |
| `NoUpdateClobbers` | updates never replace what they could not read: typed ones in any space, fixed-width and big-endian ones on `Own` | `DecodeRead` and `ValueOrAbsent` are the only ways to a write; of a present entry that does not read, `LooseRefuses`, `ExactRefuses` and `BigEndianRefuses` show that they answer an error, whether or not the host call fails as well |
| `Govern_proofs!TablesStaySound` | seats and members are inverse, the count is the number of taken seats | `IInv` adds the types: a change of seats reads the two maps at the voted seat and the proposed member only, and `TableSound` says what they hold there; `SeatChangeCounts` does the eight cases of the member count |
| `OnlyMembersVotesStand` | votes stand only while their voter is a member | `VInv` adds that a table has no votes before its setup: a change of seats unseats one member and takes exactly that one's votes |
| `CountsStayExact` | votes are members' votes and counts are numbers of votes | `CInv` adds one vote per voter, layer and topic (`OneEach`): then `Less`, `More` and `Uncount` take off and put on exactly what `Recast` and `Collected` do |
| `CollectedCountsExact` | the same of the topics that are collected, for any number of accounts | there votes are members' votes, members are at most `SeatCount`, and that fits a byte (`ByteHolds`) |
| `NothingWithoutItsQuorum` | a forward has a majority of the members behind it, a hook and a reward setting all of them | `TallyIsPeople`: after a recorded vote, the count is how many members stand behind the value; `QInv` adds that the settings are rates |
| `TablesStayRoundTables` | both tables implement `RoundTable` | `RInv` adds that votes on seats name seats; a recorded vote is `Cast` or nothing (`RecordIsRound`), a change of seats is `Decide` (`SeatIsDecision`: who agrees is who is counted, and the votes that remain are those of who remains), setup is `OpenTable`; `RoundIsL1` and `RoundIsL2` unfold the two instances |
| `GenesisStaysSound`, `GenesisCountsStayExact` | the first two, and the counts, with `80_reward` on the account | the steps of `Reward` leave the tables alone and only add mints to what is in flight |
| `GenesisNeedsQuorum`, `GenesisKeepsRoundTables` | the quorums and `RoundTable` with `80_reward` on the account | `RewardStepEmits`: a step of `Reward` that is none of `Govern` emits mints only and leaves tables, votes and settings alone |
| `ClaimsPaySeatedValidators` | the rest of a claim goes to the seated validators | seats are distinct numbers, so `SeatAt` counts through them (`SeatAtCovers`); seats and members are inverse, so each occupant is paid once |
| `ClaimsPayTheMean` | a claim is paid the rate of the mean held since the last one | `AInv`: what was held at the closes is the accumulator and the ledgers since its last entry at the balance of the moment; a change of balance moves the one into the other |

All hold for every value of the constants that satisfies the modules' `ASSUME`s,
which say what a parsed WebAssembly module or a compiled crate is; TLC evaluates
them in the runs. `Separate` is a hypothesis of its theorems, not an assumption, and so
is `UserIdsApart` of `GuardsNotObservable`: `guard!` makes ids from 1 << 31 on, but a
hook can call `_g` with any number, and with an inserted guard's id it would use up
that guard's budget. `GuardRoom` says that there are not 1 << 30 unguarded loops, which
no module a chain accepts comes near and the code does not check (`guard.rs:385`);
`HostGuard` that an import named `_g` has the host's signature, which `guard.rs` takes
by its name.
`GovernParameters` says that the initial members of a table differ, which its
installer sees to and its code does not check, and that both reward settings
exist. `SeatCount < 256` is the type of `SEAT_COUNT`; `LedgerParameters` of `Slots` is
the serialization of the fields it names. `CountsStayExact` and
`GenesisCountsStayExact` alone have the hypothesis that there are fewer than 256
accounts: a count is a byte, and votes for the position that is not collected
outlive their voters, so that 256 accounts could bring one back to zero. Counts that
decide something are looked at while their voters sit, so the quorums, the round
tables and `CollectedCountsExact` need no such bound. The theorems of `Build` are about
its own specification; `Source`, which only restricts how a first build begins,
cannot be proved about (below).
The invariants named above are needed because the properties alone speak of the
end of a pass and say nothing about its loops.

**`GuardsNotObservable`.** `Execute` moves both executions by one operator, so the
output falls behind by four operators per guard it meets, without bound. The relation
is therefore with the past: there is an earlier state `e` of the input (`Reaches`:
from `e`, steps lead to `pre`, and the iterations counted at `e` are no more than
those counted since), and `post` is `e` with every position, return address and label
moved to its place in the output, and the calls of inserted guards put into its trace
(`Follows`). One step of the output is either one step of `e` (`StepPair`, a lemma per
kind of operator, which needs that `end`s and `else`s are where they were: `EndMoved`)
or one of the four of a guard, which push two operands, call `_g` and drop its answer (`GuardStep`).
The host's count of one id is the number of iterations of its loop (`Budgets`), since
ids differ and, by hypothesis, the program uses none of them itself; hence a guard
ends the hook only when its loop has begun more than `MaxIter`. TLC checks
`GuardsInvisible` itself in the run `guard`, whose programs all satisfy the hypothesis.

Only model-checked: the two liveness properties (fairness and `ENABLED`);
`SameBehaviour` of `Flatten`, which does not hold of every input (`flatten_stale`,
`MCFlattenLabel`), and of `Unnest`, where one rewriting moves whole constructs, so that
labels differ and not only positions; `FixpointReached` and `NeverDeeper`, about the
loop of `Unnest`, which rewrites a whole body at once; everything about `TxnTemplate`,
`Declarations`, `Entities`, `Carrier`, `Literals` and `Emitters`, and `HookSetsRead`
(recursion over tokens, digits and blobs).

## 5. Not modelled

Formatting, argument parsing, printing, JSON text and the text of
`80_reward/src/message.rs`; the rules of the validator that are predicates of one
module; the vendored guard checker (its verdict is an input of `Build`); generated
declarations and their generator; wrappers of one host call; static cells (a single
atomic swap, and every execution has fresh ones); XFL arithmetic (the host's); SHA-256
(an external function of `Literals`); the fee estimate (one product); the small
examples and the tests.

* A `rustc -V` probe that is given five seconds is a choice of `Build` between a
  version and none: a probe whose grandchild keeps its output open after it ends
  would block the read that follows, outside the deadline (`main.rs:442`).
* `guard!` takes the line number for an id (`macros.rs:36`): two loops on the same
  line of two files share one budget. `Guard` gives every loop an id of its own.
* `emit_details_region` hands out part of a template for the program to fill by
  itself; `TxnTemplate` leaves it to `prepare_for_emit`. `etxn_reserve` is not there.
* `Prepared` is `DerefMut` to the template (`crates/rshooks/src/txn.rs:577`), so a
  program may also assign a whole template through it, `*prepared = T::new()`. The
  handle stays live with its old length, and what it would then emit is a template
  that was never prepared: `EmitReady` and `BlobDecodes` do not hold of such a program.
  `Set` of `TxnTemplate` has the generated setters only, and the two properties are
  about programs that use nothing else.
* `80_reward` reads the UNLReport into a buffer for 128 validators and looks at no more
  of them (`lib.rs:34`, `MAX_UNL`, lines 43 and 355); a longer array does not fit the
  buffer, and the claim then pays no seat. `CanReward` has no such bound:
  `PaysSeatedValidators` is about reports of at most 128 validators.
* `81_govern` does not check that initial members differ (`lib.rs:382`); a repeated
  one would have two seats and one reverse entry.

Where the macros are more liberal, or stricter, than one might think, the models say
what the code does: a transaction type written `r#Payment` passes `metadata!` and is
refused by the builder; a declaration whose value names itself is left to `rustc`;
attributes and `pub` in field lists are skipped; derives refuse a field whose generic
type has a comma; the length of a `HookKey` is asserted only where the key is encoded,
that of a parameter's name where it stands; `paste` cannot name a setter for a raw
identifier and panics, where its comment (`rshooks-macros/src/lib.rs:510`) says it
cannot fail.

## 6. Plan

Every module of this plan's first half exists. What is left, in this order:

1. Guard ids in `Guard`: `guard!` and `guard_m!` over two source files, with 32-bit
   ids, and budgets of one site over several calls.
2. EmitDetails filled by hand, a template assigned through `Prepared`, and emission
   against a reserve, in `TxnTemplate`.
3. Proofs: `NeverDeeper` of `Unnest`, with the lemmas on depths of `Flatten_proofs`,
   then `SameBehaviour` of `Unnest` and, for inputs without uninitialised locals and
   branches to a function's label, of `Flatten`, as histories like `RunInv`.
