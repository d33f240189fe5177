# VulnFix in TLA+

VulnFix repairs a crashing C program. It collects inputs that reach the crash
location, takes *snapshots* (the values of the visible variables) at a *fix
location*, infers *patch invariants* that hold on all passing snapshots and on
no failing one, refines them with counter-examples obtained by *mutating* the
program state at the fix location, and turns the surviving invariants into
patches that it builds and validates. This directory models that program,
checks the models with TLC and proves their main invariants with TLAPS.

Paths below are relative to the repository (`src/` is the Python tool, `lib/`
the C code that runs inside the instrumented program).

## Inventory

| Part | State it keeps | Operations | What makes it correct |
|---|---|---|---|
| Snapshot pool (`src/snapshot_pool.py`, `src/snapshot.py`) | `pass_ss`, `fail_ss`, `snapshot_hashes`, `values.candidate_variables` | insertion with de-duplication; removal of empty snapshots; pruning to common keys; choice of candidate variables | all snapshots have the same keys; values are never altered; evidence is never lost; a state has one label |
| Main loop (`src/main.py`) | stage, time budget, latest non-empty invariants | filter tests, first inference, refinement rounds, early termination, saving | it ends; an answer once found is not lost; the answer is supported by the pool |
| Refiner (`src/ce_refiner.py`) | candidates, round, unused driver tests, PAC sample counts | one refinement round, choice of driver tests | every test gets its turn; termination is only declared on a stable number of candidates |
| Counter-examples (`src/ce_single_var.py`) | solver, mutation instructions, k | build the constraint, next model, run the mutation, collect snapshots | a counter-example is a state of the run that produced it |
| Instrumented runs (`src/subroutines.py`, `lib/patch.c`) | `snapshot.out`, `snapshot.out.processed`, `execution_counter` | snapshot, mutate, post_mutate; start, wait, time out, clean up, parse | a run is given its own snapshots, in order; a mutation counts only if the crash location was still reached; what killed or crashed runs leave behind is not mistaken for a result |
| Backends (`src/backend.py`) | input files of Daikon or cvc5 | write inputs, run, filter, de-duplicate | inputs are well formed; results are consistent with the pool |
| Patch generation (`src/patch_gen.py`, `src/utils.py`) | file to fix, its backup, the built binary, saved patches | back up, restore, edit, rebuild, validate, diff, reset | a saved patch is one change, validated as built; the program is not damaged |
| Fuzzer control (`src/subroutines.py`, `src/main.py`) | fuzzer processes, their output directories, the cycle | run AFL; check, start, resume, pause DAFL/AFLGo per cycle; classify inputs and turn them into snapshots | no fuzzer runs while its output is read; what was found in any cycle reaches the pool |
| ConcFuzz (`src/concfuzz.py`) | sensitivity map, hash set, saved tests, clock | map the bytes of a seed, change bytes, run, save | each saved test shows its own new state; it ends |
| Ghost variables (`lib/ghost.c`) | ASan shadow bytes | size, base, adjust redzone | sizes are those of memory, neighbours untouched |
| Fork server, marks (`lib/afl-rt.c`, `lib/afl_mark.c`, `lib/e9afl.cpp`) | two pipes, the child, marks shared by all runs | hello, request, fork, wait, reply; clear and set marks | one true answer per request; marks of that run; nobody waits for ever |
| Variables (`lib/patch.c`, `lib/variables.c`, `lib/addr_map.c`, `lib/dwarf_eval.c`) | the program's memory, the list of variables, the evaluation stack | evaluate locations, walk variables and pointers, print, clean up, mutate | locations are right; the walk is bounded; a snapshot is consistent and shows the mutation |
| Instrumentation plugin (`lib/e9AFLPlugin.cpp`) | control-flow graph, points, optimized blocks | build the graph, choose points, un-optimize blocks | recorded blocks determine the path; a point runs whenever its block does |

The parts interact through shared Python state (the pool and `values`), through
files (`snapshot.out`, `afl-pass`, `afl-fail`, `fix-file-backup.c`) and through
processes that the driver starts, waits for with a time limit, and kills. The
hard behaviours are: a process killed between two steps of the file protocol;
order of the fix and the crash location inside a run; sequences of insertions
with different keys; a sample count read before a round and used after it; an
exception that leaves a half-done edit for the next invariant; insertions that
shift lines which are later addressed by number; a fuzzer that ends between a
check and the signal it is meant for; a timer that fires while the child it
would kill ends; sizes recorded before, and used after, an alias has changed. `PROJECT.json` lists them as
hazards, each at its line.

## Modules

### SnapshotPool

State: `pass_ss`, `fail_ss`, `snapshot_hashes`, `candidate_variables` as in the
code, `cycle` (how often the initial processing ran) and `status` ("error" once
an IndexError ended main). A snapshot is a function from variables to values or
`Absent`. A list is a function whose domain names the entries by the snapshot
that was hashed when the entry was appended, and whose values are the
dictionaries the list holds now; so "hashed before pruning, pruned later" is in
the model. List order is not observable by any caller and is left out; hash
collisions are not modelled.

`AddNewSnapshots` is the whole of `add_new_snapshots`: passing before failing,
hash test, removal of empty dictionaries, pruning to the common keys, the
IndexError on an empty pool. `PostProcessInitial` and `AddCounterExamples` are
its two callers. The heuristics of `decide_vars_to_include` may choose any
subset of the common keys (`DecideVarsToInclude`). With `Refining` TRUE the
module describes snapshot fuzzing (one initial processing, then
counter-examples), with FALSE the DAFL and AFLGo modes (one processing per
cycle).

`AddCounterExamples` has a guard that the function itself lacks: the pool has a
variable. It states when the refiner calls it (the last inference had an
answer); module `Repair` composes pool, refiner and main loop without that guard
and is shown to implement `PoolSpec`, which discharges it.

### Repair

Extends `SnapshotPool` with main from STEP (2) on, the refiner, and the
inference contract: a result is an invariant over a variable of the pool that
holds on all passing and on no failing snapshot, and a run may return any part
of these (`BackendRun`; the tool itself is external). One action per step:
`FilterStoreInitialTests`, `InitialInference`, `OneStepRefinement`, the exits
`TotalTimeout`, `EarlyTermination` and the empty answer, and
`AbortOnUnclassifiedTest` for `os.abort()`. `BudgetExhausted` is the clock. The
snapshots of a round are any batch, which over-approximates the solver and the
mutation runs. `last` is a history variable (the candidates one round before,
and why main left the loop).

### SnapshotFile

The driver and one instrumented process sharing `snapshot.out`. Process steps:
`SnapshotAtFixLocation`, `MutateAtFixLocation`, `PostMutateAtCrashLocation`, in
any order and number, and `StopsPrinting`: the process dies, or hangs, within a
snapshot. Driver steps: start (`RunBinSnapshot`, `RunBinMutate`), `ProcessExits`
(clean up, remove, parse; an exception without a file, and one on a line that is
cut, which leaves the file where it is) and `TimeoutExpired` (kill, nothing
cleaned up). A snapshot is its origin: run, number of the execution, original,
mutated, or only a part of one. `reached` (history) records
whether the crash location followed the mutated execution. `outcome` is what the
caller learns.

### PatchGen

The loop over the final invariants, `PatchGenerator`, backup and restore,
rebuild, validation and `--reset-bench`. A file is a sequence of lines; a line
has a kind (what `gen` tests), an identity and a text, the program's own with the
parts that edits put before and behind it. Where the condition at the fix line
begins and ends (`ends`, offsets from that line) is any result the searches of
`patch_gen.py` can have, the -1 of a failed one included. Edits go by line number,
as the `sed` commands do (`Integrate`: one line, or the two ends of a condition
of several lines), and new lines are computed from the backup, as in the code; so
a walkaround inserted for one invariant becomes the "if" that the next invariant
finds at the fix line, and an inserted `#include`, whose line number is that of the
unedited file, moves everything below. `bin_orig` is the source the binary
was built from; a failed build leaves it. Whether a file builds and what the
program does are nondeterministic. `clean`, `rejected` and `matched` (no search
failed so far) are histories.
Exceptions other than a validation timeout (a libclang that cannot be loaded, a
full disk) are not modelled.

### Shadow and Ghost

`Shadow` has `generic_buffer_size`, `generic_buffer_base` and
`adjust_redzone_size` as operators on a function from shadow addresses to shadow
bytes; loops over shadow bytes become the nearest redzone on either side and sets
of bytes, with their early exits (`stops`). `Ghost` and `Variables` are built on it.

`Ghost`: one process at the fix location, with a pointer into a buffer, the gap
behind the buffer and a neighbour. `MutateGSize` and `MutateGDiff` are the two
ghost cases of `mutate_var`, with the values that `ce_single_var.py` lets the
solver choose.
Elements have one byte. The layout is AddressSanitizer's and external; the gap
has at least `REDZONE_SIZE` bytes, on which `adjust_redzone_size` relies: with a
gap of one shadow byte an enlargement could reach the neighbour.

### RunService and ForkServer

`RunService` is the promise that afl-fuzz relies on: requests one at a time, and
one answer to each, which tells how that very run ended. `ForkServer` is the
loop of `__afl_start_forkserver`, one action per system call, with calls that
fail, the children with the marks in shared memory, and afl-fuzz (external) at
the other end of the pipes: its timer may fire before or after the child has
ended or was reaped, and `run_afl` kills it at any moment. A child may hang.
`ImplementsRunService` is the refinement, `INSTANCE RunService WITH` the ends of
the children as the truth. The uninitialised `child_pid` is a value of its own.
The marks are cleared by the child, since the runtime's `init` enters the fork
server first; a child that cannot map them aborts.

### FuzzCycle

Extends `SnapshotPool` (with `Refining` FALSE) with the AFL, DAFL and AFLGo
modes. Check, start or resume, sleep, check and pause are separate actions, so a
fuzzer may end, or find inputs, between any two of them. `Collect` is the whole
of `filter_store_initial_tests_and_snapshots`, including the insertion into the
pool; each input is run up to three times and a flaky one may be classified
differently each time. `CollectRaises` are its exceptions, which end main: a
directory that is missing, an input that is killed at its time limit, one that
leaves no snapshot file. AFL and the cycles share everything from `Collect` on. A
fuzzer that is started again keeps its directories. The arithmetic of the bound
on cycles is left out: a cycle may be the last.

### DwarfEval and Variables

`DwarfEval` is memory and the stack machine of `dwarf_evaluate` with all its
operators (skip and bra are disabled in the source) and the assertions that end
it; the failures of `dwarf_var_parsing_init` are a frame base of NULL, and the
snapshot is then empty. `Compile` and `Meaning` define, for the check only, what an expression tree means. A byte has four
values, so that a word of eight bytes stays within TLC's integers. Operations
that return at once (`DW_OP_call_frame_cfa`, `DW_OP_implicit_value`,
`DW_OP_stack_value`) are taken to be the last of their expression.

`Variables` extends it with the walk over variables, fields and pointers, the
ghost variables, printing by type, `cleanup_snapshot_file` (aliases, orphaned
ghosts, `_GDiff_`, elements) and `mutate`: the prefix of repeated values, the
four cases of `mutate_var` and the second walk before printing. Values asked for
are within the constraints that `ce_single_var.py` gives to the solver. Sizes are
in elements or raw (`use_raw_size`). Buffers are read from, and resized in, the
shadow memory of `Shadow`, so that sizes are missed and ends are hidden as
`ghost.c` does it; memory outside of the buffers of a program counts as redzone.
A type of size 0 stands for one without `DW_AT_byte_size`, as clang's pointers
are. Assumed of the programs: no variable hides another, no pointer has an array type
as its target, every object has a buffer of its own. Identifiers count as one
letter when the shortest alias is chosen. Pointers outside the address range
that `is_ptr_out_range` drops do not occur.

### Instrument

The plugin's `calcInstrumentPoints` on whole small binaries: `buildCFG` (with
its habit of never handling the last instruction, of rounding targets up, and of
giving a conditional jump before padding a successor where no block begins),
the choice of points, the removal of bad blocks, and the collection.
`optimizeBlock` and `optimizePaths` call each other; `calls` is their stack, one
element per call of `optimizeBlock` under way, with its `paths` and the loops over
successors that it and its nested calls of `optimizePaths` are in. A step is one
successor of the innermost loop (`optimizePaths`: no path to it yet, a path and a
block to un-optimize, or the degenerate case) or the end of a loop (`endLoop`).
The assertion that every target has an entry is the phase "aborted". The
disassembler and the set of targets are external. `verify`, the plugin's debugging
aid, is used by a property only and stands, as the recursive function it is, in
`MCInstrument`.

### ConcFuzz

The loop over seeds, `init_sensitivity_map` and `fuzz_with_sensitivity_map`, one
action per byte, with the clock advancing at any moment. `fail_dir` starts with
the exploit, as file 0, whose state is in no hash set. `MCFuzzModes` is the choice
of main between ConcFuzz and the modes of `FuzzCycle`; the two share no state. A run may reach the fix
location, miss it, or be killed and leave `snapshot.out`.

Definitions whose comment begins with "Mutant" are deliberate faults. They are
used nowhere in the specifications; each replaces one definition to confirm that
a property notices the fault.

## Runs

`tlc -config <cfg> <module>`; deadlock is not checked because every one of these
programs ends, or reaches the bound on runs or insertions.

| Run | Module, cfg | Result | What it shows |
|---|---|---|---|
| pool | MCSnapshotPool, SnapshotPool.cfg | holds | insertions of snapshot fuzzing: types, common keys, candidates only, faithful entries, hashes in use, evidence kept |
| repair | MCRepair, Repair.cfg | holds | main loop, refiner and pool together: supported and kept answers, stable early termination, driver tests in turn, termination, and refinement of `PoolSpec` |
| file | SnapshotFile, SnapshotFile.cfg | holds | own snapshots in order, certificate of a first mutation, a file left behind only by a run that was killed or cut a line |
| file_stale | SnapshotFile, SnapshotFileStale.cfg | violated | after a timeout the next run can be given the killed run's snapshots |
| patchgen | MCPatchGen, PatchGen.cfg | holds | patches validated as built, one option each and the first valid one, program kept while conditions are found, termination |
| patchgen_reset | MCPatchGen, PatchGenReset.cfg | violated | after two invariants the backup is a patched file, and reset restores that |
| ghost | Ghost, Ghost.cfg | holds | ghost variables true before and after mutation, neighbours untouched, exactly the new bytes cleared, size within one shadow byte of the request |
| variables | MCVariables, Variables.cfg | holds | locations are right, the walk is bounded, ghosts belong to their pointers also after mutations through aliases, and the snapshot shows the mutation, sizes up to a shadow byte |
| forkserver | ForkServer, ForkServer.cfg | holds | stale waits never block or read garbage, marks are of this run, refinement of `RunService`, nobody waits for ever |
| fuzz | MCFuzzModes, FuzzModes.cfg | holds | AFL, DAFL, AFLGo: quiet fuzzers while inputs are read, and the state of every crash of all cycles was hashed under the variables chosen last. ConcFuzz: beside the exploit, saved tests are the new states, each of its own run, and it ends |
| fuzz_passing | MCFuzzCycle, FuzzCyclePassing.cfg | violated | an input found by DAFL or AFLGo that passes gets into neither list |
| instrument | MCInstrument, Instrument.cfg | holds | uninstrumented blocks never hide a path, from the moment a block is handled; points run with their blocks; the plugin's verifier objects to nothing but two edges between the same blocks |

`CrashesReachPool` is about the hash only. That a remembered hash has its entry
in the pool is `HashesInUse`, which holds in snapshot fuzzing; in cycles an
entry may have been pruned to nothing since, or be filed as passing.

`NoDeepNesting` allows three arrows for names that begin with a star: clang gives
pointer types no size, and `dwarf_get_vars_from_ptr` drops `only_ghost` for a
target without one, so that a field of type `T **` behind two arrows is
recorded, and what it points to. `MutationShown` states the sizes that
`adjust_redzone_size` really gives (`SizeGiven`); its other exceptions are in its
comment.

Bounds. *Pool*: three variables, two values, four inputs (two full states that
differ, one with another key set, the empty one), batches of two; that is enough
for every combination of new, known, empty and key-dropping snapshots in one
insertion, and for pruning to one and to no key. *Repair*: two variables, one
passing and two failing tests of which one is flaky, batches of one; the PAC
counts are scaled down (4 samples at the start instead of 10000, then 1 or 2) so
that early termination happens in a few rounds; `MaxRound` saturates the round
counter only. *SnapshotFile*: three runs (one to be killed, one to inherit, one
to follow), three executions of the fix location, mutation of the first or the
second. *PatchGen*: four lines (an include, a for, the if to fix, a statement),
three invariants of which the second needs the `#include`, two failing inputs;
the third invariant works on a file shifted by the second, with the for at the
fix line. *Ghost*: sizes of one to five shadow bytes with every kind of last
byte, gaps of two to four, a neighbour of part of a byte, one, or three, every
pointer into the buffer and just behind it, every requested size up to 16 more
than the largest; `TRAVERSE_THRESHOLD` is 4 instead of 10000, so that buffers
too long to traverse occur. *Variables*: two pointers into one buffer of 5, 6, 8,
9, 16 or 18 bytes (whole and partial shadow bytes, whole and partial elements, raw
sizes), with integers of several types next to them; a cyclic list reached through
a structure, a pointer and a pointer to a pointer; a structure in read-only
memory, nested arrays, a union and a `void *`; a tree with a `T **` field whose
pointers have no size; a program without frame base. Frame bases by CFA and by
register, up to two repeated values before the mutation, `TRAVERSE_THRESHOLD` 8,
and expression trees of up to three levels over all operators. *ForkServer*: three requests, so that a killed
run has one before and one after it. *FuzzCycle*: three cycles, four inputs (the
exploit, a crash whose state lacks a variable, a passing and a flaky one).
*ConcFuzz*: two seeds of none to two bytes, of which the shorter gets no map, four
runs, three hashes; `MaxRuns` only limits the inputs that are run. *Instrument*:
all binaries of four free instructions and a last one, in four layouts of long
instructions, padding and addresses in data, and four settings of the options.

Fairness. `Repair`: weak fairness of main (a sequential program that never waits
for others) and of the clock. `PatchGen`: weak fairness of main; runs of
the program have a time limit of five seconds, but `rebuild_project` has none,
so this assumes that builds end. `ForkServer`: processes are scheduled, the
fuzzer reads its pipe, its timer fires, a child that does not hang ends; nothing
makes a child pass a location, or the fuzzer send a request. `MCFuzzModes`: the
main loop of ConcFuzz, whose runs have a time limit, and the clock.

## What the violated runs mean

* **Stale snapshot file** (`subroutines.py`): the timeout path skips the
  clean-up that exists to detect exactly this. `ConcFuzz` is not affected, because
  it removes the files itself.
* **Backup** (`patch_gen.py`): made once per invariant, so the second invariant
  backs up the first one's patch, even a rejected one. Saved patches from the
  second on are relative to that file, not to the vulnerable program.
* **Passing inputs** (`main.py:148`): looked for in the list that the line before
  has reduced to the failing inputs, against the comment above it. In the DAFL and
  AFLGo modes only a flaky input is ever a passing test, and the passing states of
  the pool are those that precede a crash.

## Observations

Met while modelling; the models follow the code.

* Pool: snapshots are hashed before pruning, so pruning can make equal entries of
  different ones, against the comment at `snapshot_pool.py:14`; they cost
  inference time and count as samples of the PAC bound.
* Refiner: early termination compares numbers of invariants, not invariants.
* Certificate (`lib/patch.c:868`): written at counter 1 only, so it says nothing
  about what follows a mutation of a later execution.
* Redzone (`lib/ghost.c:197`): an enlargement that ends on a shadow-byte boundary
  writes the shadow byte 0, eight bytes more than asked for. Shrinking below eight
  bytes can stop at eight. The snapshot records the size that memory really has.
  A pointer just behind a buffer whose size is a multiple of eight is in no buffer,
  so its ghosts are missing, also when the mutation asked for one of them.
* Snapshot files: a line that is cut raises an exception before `snapshot.out` is
  removed (`subroutines.py:721`), so the file is there for the next run; a file cut
  between two lines is taken for whole.
* Patches: after a failed search for the end of a condition (`patch_gen.py:229`,
  `375`) the line before the fix line is overwritten with the last line of the
  file, and nothing but the build can notice. For a condition of several lines, the
  options that put the invariant at its end add one parenthesis too many
  (`patch_gen.py:292`), so they do not build; if both ends of a `for` condition are
  on one later line, the second edit replaces the first.
* Snapshots: arrays are in the list but not printed (`variables.c:179`), so the
  `_GSize_` of an array has no parent in the file and is always removed with the
  orphans. `dwarf_peel_type` removes const, so the filter for const variables
  finds none. `_Bool` is printed as four bytes and written as one; `char` is
  printed unsigned while the solver looks for -128 to 127.
* Mutation: `_GSize_` is repeated in whole elements, so a part of an element at
  the end is cut off, and then the recorded old size of an alias is wrong. A size
  of 0 elements switches off the bound on `_GDiff_`.
* A variable that hides another: the mutation takes the outermost, the snapshot
  the one with the larger address. A pointer to an array gives the array the name
  of the pointer, and its mutation has no effect.
* DWARF: `pick` counts from one behind the top, `over` is `dup` with a
  deeper stack, and `rot` rotates in its own order.
* Plugin: calls have no successor edges to their targets; `verify` stops on two
  edges to one block, which the optimizer allows as degenerate.
* Cycles: with passing inputs configured, the normal fuzzer is not started while the first is
  alive (resume is called instead), and then its directories are missing. The last
  fuzzer is left paused. With the default epsilon of 1 no cycle runs. Two of
  the three backends do not return the pair that the cycle modes unpack; the
  logarithm of an empty hypothesis space raises an exception.
* ConcFuzz: the hash of an unclassified run suppresses later classified runs with
  the same states; a seed whose map takes all its time ends the later seeds too;
  the hash is of the processed file, not of the ".forhash" file that the
  docstring describes; the exploit is saved without its hash, so its state is
  saved a second time when a run shows it.
* A fuzzer killed while its child hangs leaves server and child behind.

## Proofs

All for arbitrary constants under the named assumptions of the modules. Each
proof module states an inductive invariant `...Inv`, proves it of the
specification (`...Invariant`), and reads the checked properties off it. Hardly any
of the properties is inductive alone.

* `SnapshotPoolProofs`: `PoolInv` gives types, `UniversalKeys`,
  `KeysWithinCandidates`, `EntriesFaithful`, `HashesInUse` and, as an action
  property, `EvidenceKept`. The heart of the
  argument is what an entry is: the named snapshot restricted to the pool's
  keys. From that, and from the facts that names are hashes and that the two
  lists have disjoint names, one shows that removing empty dictionaries removes
  nothing old while the pool has a key, so the new common keys are a subset of
  the old ones, and restricting twice is restricting to the smaller set. The
  lemmas at the top are about `PruneSnapshot`, `CommonVars` and `Extend`.
* `RepairProofs` carries `PoolInv` over to the main loop: a round only
  inserts while there is an answer, an answer is about a variable, and so the pool
  has a key, which is what the insertion of counter-examples needs; every other
  step is the first insertion or leaves the pool alone. That is `RepairImplementsPool`,
  the refinement of `PoolSpec`. `Answers` says that the loop is only
  entered, and only continued, with a non-empty answer that explains the pool;
  it gives `CandidatesExplainPool` and `AnswerNotLost`. `Stable` says that the
  sample threshold is out of reach as long as the number of candidates moves, which is
  `EarlyTermIsStable` one step before main leaves. `Rounds` counts the driver
  tests (`EveryTestGetsItsRound`). Expressions, inputs and tests are assumed
  finite (`FiniteAssumption`): the properties are about cardinalities.
* `FuzzingProofs`, first part (`FuzzCycle`), also builds on the pool. `Turns` says which fuzzer may be present and
  running when main is where; `Counts` that what main counted before it acts is
  stale only in the harmless direction: a fuzzer may have ended since, none
  can have started. They give `FuzzerQuiet`. `CrashesReachPool` and `UniversalKeys` follow from the insertions of one collection. Second part
  (`ConcFuzz`): the files of a directory, beside the exploit, are numbered 1 to
  its counter, so a new test replaces none; with it `EveryStateHasItsTest` is inductive.
* `SnapshotFileProofs`: `FileInv` adds what `snapshot.out` holds while a process
  runs: after the first execution of the fix location exactly the executions so
  far of this run, whatever was there before, because the first print truncates;
  only the last of them can be a part.
  It gives types, `OwnSnapshotsInOrder`, `FirstMutationCertified` and
  `RawRemovedBetweenRuns`.
* `PatchGenProofs`, first part: `PatchInv` adds that, while an option is in work, all
  options before it were rejected on the same backup, and during validation the
  binary is that of the file, which is the option applied to the backup. It
  gives `SavedPatchesValidated` and `FirstValidOption` with its two parts. Second
  part: `PatchedFile` says of a file that there is a map from the lines of the
  vulnerable file to its own lines, increasing and onto the lines that no edit
  inserted, which keeps each line and its text. The insertion of the `#include` and
  of a new line preserve it, and so do the one or two edits of an option, since each
  writes to a line what the backup has there; so it holds of file, backup and built
  file as long as the ends of the conditions are found (`FilesInv`). It gives types and `ProgramKept`.
* `GhostProofs`: the shadow of the buffer has a `Shape`: redzone, full shadow
  bytes, one last byte, redzone up to the neighbour. The allocator makes it,
  each branch of `adjust_redzone_size` (`EnlargedShape`, `ShrunkShape`)
  keeps it and only moves the last byte, and what `_GSize_`, `_GBase_` and the
  program see is computed from it. It gives `GhostsAreTrue`,
  `NeighboursUntouched`, `NewBytesCleared` and `WithinOneShadowByte` for every
  size, gap, neighbour and limit of the traversal.
* `ForkServerProofs`: `Conversation` lists which messages are under way in each pair
  of states of fuzzer and server, and which child they are about; the other parts
  (one child at a time, requests, marks) do not depend on the fuzzer and survive
  its death. It gives `WaitsForOwnChild` and `MarksOfThisRun`, and
  `ForkRefinesService` shows each step to be a step of `RunService` or a stutter:
  a run of the service is the end of a child, its answer the fuzzer's reading of
  the status, and no step of the server is seen: a new child has not ended, and
  one that is reaped had.
* `InstrumentProofs`: a call of `optimizeBlock` builds a tree. `GoodCall` says of a
  call under way that each edge of its block, and of every optimized block it has
  reached, is an edge of the tree or is yet to come in one of its loops. Each case
  of `optimizePaths` keeps this (`KnownPath`, `NewPath`), and so does whatever other
  calls un-optimize meanwhile, since that only takes edges away
  (`FewerOptimized`); a call that returns has `Told` its block, for good
  (`LoopEnds`). In a tree, paths to the same block are the same (`OnePath`), and the
  paths that `SilentPaths` lists are such paths (`ListedPathsSilent`). `CoverageInv`
  puts this together for the stack of calls: every block that is instrumented and
  was come to, or was un-optimized, is told or is on the stack. It gives
  `CoverageTellsPaths`, for every graph and every order in which calls nest.
  `PointOnEveryEntry` is separate: the point is within the block (`PointInBlock`),
  and two blocks with one point would have a target between start and point.

The assumptions on constants are that parameters have their types, that
AddressSanitizer leaves at least 16 bytes between buffers (`SizesAssumption`),
that the fix line is a line of the program and no line is from a patch yet,
that there is a failing input, that special values differ from real ones,
that instructions have 1 to 15 bytes and targets are finitely many and not at
address 0 (`ProgramsAssumption`), and the finiteness above. TLC evaluates all of them.

Where a proof needs induction (`SumOfBytes`, the sum that `_GSize_`
computes; `MinIsMember`, the smallest line number; `AlongTheTree`, `OnePath` and
`ListedPathsSilent`, the length of a path) it takes a smallest
counter-example from the well-foundedness of the natural numbers, because
induction theorems with an operator as parameter are beyond the provers.

Only model-checked: liveness (`Terminates`, `PatchGenTerminates`, `NobodyWaitsForever`,
`ConcFuzzEnds`), which is beyond the prover; the properties of `Variables` with `DwarfEval` (`LocationsRight`,
`NoDeepNesting`, `GhostsMatchPointers`, `MutationShown`) and `VerifierAgrees`,
whose code is recursive and is modelled with recursive operators (and bitwise
ones), which the prover cannot use.

## Not modelled

The subject programs under `data/`: sources of third-party programs that the tool
is evaluated on, which make up about nine tenths of the lines of code. Daikon, cvc5,
Z3, e9tool, libdw and the fuzzers (external). Text formats, logging and
configuration; scripts that run experiments; `patch_hook.c`, which only exits;
the emission of trampolines; the parsing of sanitizer output. The solver loop of
`ce_single_var.py`: the values it finds are any within its constraints
(`Variables`), the snapshots it returns any batch (`Repair`). Hash collisions.
Signals are assumed to kill: `killpg` is not followed by a wait, so a killed
process could still write for a moment.

## Plan

1. Theorems: `Variables` with its walk over variables as a stack of calls, as in
   `Instrument`, so that the bound on nesting can be proved.
2. The solver loop of `ce_single_var.py` on top of `SnapshotFile` (k, the slice
   from the k-th snapshot, exceptions), replacing "any batch" in `Repair`.
3. Variable selection in `snapshot.py` as operators; the order of checks in the
   parsing of sanitizer output.
