----------------------------- MODULE FuzzCycle -----------------------------
(***************************************************************************)
(* The fuzzing modes: VulnFix runs a fuzzer for a while, turns the inputs  *)
(* it found into snapshots and infers invariants from the pool.  With AFL  *)
(* this happens once; with DAFL and AFLGo in cycles, between which the     *)
(* fuzzer is paused (main.py, subroutines.py).  The fuzzers (external)     *)
(* find inputs, and end, by themselves while they run.                     *)
(*                                                                         *)
(* A test stands for an input file: how running it is classified, and the  *)
(* snapshots its run gives.  A flaky test may be classified as passing or  *)
(* failing each time it is run.  The file hash of a run is its snapshots.  *)
(***************************************************************************)
EXTENDS SnapshotPool

CONSTANTS Tests,    \* inputs the fuzzers may find
          Exploit,  \* the input that VulnFix starts from
          Flaky,    \* tests with no fixed result
          Result,   \* [Tests -> {"passing", "failing", "unclassified"}]
          Shots     \* [Tests -> [before, last]]: snapshots of a run

ASSUME TestsAssumption ==
    /\ Exploit \in Tests \ Flaky /\ Flaky \subseteq Tests
    /\ Result \in [Tests -> {"passing", "failing", "unclassified"}]
    /\ Result[Exploit] = "failing"
    /\ Shots \in [Tests -> [before : SUBSET Inputs, last : Inputs]]

VARIABLES mode,         \* "afl" or "dafl" (DAFL and AFLGo)
          normal_in,    \* the configuration names passing inputs
          main,         \* where main is
          which,        \* the fuzzer that is being run: "crash" or "normal"
          alive,        \* what check_fuzzer_status returned
          fuzzers,      \* [crash, normal]: "none", "running", "paused", "ended"
          crashes,      \* the tests in the crashes directories
          normals,      \* the tests in the normals directories
          passTests     \* the tests that the last collection copied as passing

config == <<mode, normal_in>>
control == <<which, alive, fuzzers>>
found == <<crashes, normals>>
vars == <<poolVars, config, main, control, found, passTests>>

Kinds == {"crash", "normal"}

-----------------------------------------------------------------------------
\* Fuzzers (external)

\* afl-whatsup counts processes that exist, paused ones too.
AliveFuzzers == {f \in Kinds : fuzzers[f] \in {"running", "paused"}}

\* afl-pause and afl-resume signal every fuzzer of the runtime directory.
SetAll(from, to) == [f \in Kinds |-> IF fuzzers[f] = from THEN to ELSE fuzzers[f]]

\* DAFL and AFLGo run a binary that crashes behind the fix location, so that
\* passing inputs lie with the crashes too.
Find == /\ \E f \in Kinds : fuzzers[f] = "running"
        /\ \E t \in Tests \ {Exploit} :
              \/ /\ mode = "dafl" \/ t \in Flaky \/ Result[t] = "failing"
                 /\ crashes' = crashes \cup {t} /\ UNCHANGED normals
              \/ /\ mode = "afl" /\ (t \in Flaky \/ Result[t] # "failing")
                 /\ normals' = normals \cup {t} /\ UNCHANGED crashes
        /\ UNCHANGED <<poolVars, config, main, control, passTests>>

FuzzerEnds == /\ \E f \in Kinds : fuzzers[f] = "running"
                                  /\ fuzzers' = [fuzzers EXCEPT ![f] = "ended"]
              /\ UNCHANGED <<poolVars, config, main, which, alive, found, passTests>>

-----------------------------------------------------------------------------
\* After the runs of a fuzzer: the normal one, if there are inputs for it.
NextRun == IF which = "crash" /\ normal_in THEN which' = "normal" /\ main' = "fuzz"
                                           ELSE which' = "crash" /\ main' = "collect"

\* run_afl and run_afl_normal: wait for the fuzzer, or kill it at its time limit.
StartAFL ==
    /\ main = "fuzz" /\ mode = "afl"
    /\ fuzzers' = [fuzzers EXCEPT ![which] = "running"]
    /\ main' = "sleep"
    /\ UNCHANGED <<poolVars, config, which, alive, found, passTests>>

EndAFL ==
    /\ main = "sleep" /\ mode = "afl"
    /\ fuzzers' = [fuzzers EXCEPT ![which] = "ended"]
    /\ NextRun
    /\ UNCHANGED <<poolVars, config, alive, found, passTests>>

(***************************************************************************)
(* The loop's test of the bound, here without its arithmetic, and of the   *)
(* time budget, which is looked at only here.                              *)
(***************************************************************************)
StartCycle ==
    /\ main = "start"
    /\ \/ main' = "save"
       \/ cycle < MaxCycles /\ main' = "fuzz"
    /\ UNCHANGED <<poolVars, config, control, found, passTests>>

\* run_dafl, run_dafl_normal and their AFLGo twins: a check, ...
CheckBefore ==
    /\ main = "fuzz" /\ mode = "dafl"
    /\ alive' = Cardinality(AliveFuzzers)
    /\ main' = "launch"
    /\ UNCHANGED <<poolVars, config, which, fuzzers, found, passTests>>

\* ... a start, or a resume when some fuzzer is there, ...
Launch ==
    /\ main = "launch"
    /\ fuzzers' = IF alive < 1 THEN [fuzzers EXCEPT ![which] = "running"]
                               ELSE SetAll("paused", "running")
    /\ main' = "sleep" /\ alive' = 0
    /\ UNCHANGED <<poolVars, config, which, found, passTests>>

CheckAfter ==
    /\ main = "sleep" /\ mode = "dafl"
    /\ alive' = Cardinality(AliveFuzzers)
    /\ main' = "pause"
    /\ UNCHANGED <<poolVars, config, which, fuzzers, found, passTests>>

\* Mutant: a single fuzzer is not worth a pause.
PauseMany ==
    /\ main = "pause"
    /\ fuzzers' = IF alive > 1 THEN SetAll("running", "paused") ELSE fuzzers
    /\ NextRun /\ alive' = 0
    /\ UNCHANGED <<poolVars, config, found, passTests>>

\* ... and a pause if the check after the sleep still counts one, although
\* that one may have ended since.
Pause ==
    /\ main = "pause"
    /\ fuzzers' = IF alive > 0 THEN SetAll("running", "paused") ELSE fuzzers
    /\ NextRun /\ alive' = 0
    /\ UNCHANGED <<poolVars, config, found, passTests>>

-----------------------------------------------------------------------------
\* From inputs to snapshots

\* The tests of S that a run classifies as r, when the flaky ones in f pass.
Classified(S, r, f) ==
    {t \in S : IF t \in Flaky THEN r = (IF t \in f THEN "passing" ELSE "failing")
                              ELSE Result[t] = r}

\* Mutant: inputs whose snapshot is known from an earlier cycle are skipped.
RawFailsNew(S, f) == Classified({t \in S : Shots[t].last \notin snapshot_hashes}, "failing", f)

\* The crashing inputs, run again ...
RawFails(S, f) == Classified(S, "failing", f)

\* ... and the passing ones, filtered out of these by one more run.
RawPasses(S, f) == Classified(S, "passing", f)

\* process_raw_inputs: the tests that it keeps, one for each new hash.
ProcessRawInputs(S, r, f, seen) == {t \in Classified(S, r, f) : Shots[t] \notin seen}

\* The directory of the normal fuzzer does not exist.
NoNormalDir == normal_in /\ fuzzers["normal"] = "none"

(***************************************************************************)
(* filter_store_initial_tests_and_snapshots: f1, f2 and f3 are the flaky   *)
(* tests that pass in the first, the second and the third run of each.     *)
(***************************************************************************)
Collect ==
    /\ main = "collect" /\ ~NoNormalDir
    /\ \E f1, f2, f3 \in SUBSET Flaky, C \in SUBSET Vars :
            LET raw_fails == IF mode = "dafl" THEN RawFails(crashes, f1) ELSE crashes
                raw_passes == IF mode = "dafl" THEN RawPasses(raw_fails, f2) ELSE normals
                P == ProcessRawInputs(raw_passes, "passing", f3, {})
                F == ProcessRawInputs({Exploit} \cup raw_fails, "failing", f3,
                                      {Shots[t] : t \in P})
            IN  /\ PostProcessInitial((UNION {Shots[t].before \cup {Shots[t].last} : t \in P})
                                         \cup (UNION {Shots[t].before : t \in F}),
                                      {Shots[t].last : t \in F}, C)
                /\ passTests' = P
                /\ main' = IF status' = "ready" THEN "infer" ELSE "error"
    /\ UNCHANGED <<config, control, found>>

(***************************************************************************)
(* An exception in it ends main: of the directory that is not there; of an *)
(* input that run_bin_orig kills at its time limit; of one whose snapshot  *)
(* run ends without a snapshot file.                                       *)
(***************************************************************************)
CollectRaises ==
    /\ main = "collect" /\ (NoNormalDir \/ crashes \cup normals # {})
    /\ status' = "error" /\ main' = "error"
    /\ UNCHANGED <<pass_ss, fail_ss, snapshot_hashes, candidate_variables, cycle, passTests,
                   config, control, found>>

(***************************************************************************)
(* Inference, and in cycles the new bound.  An empty hypothesis space has  *)
(* no logarithm.                                                           *)
(***************************************************************************)
Infer ==
    /\ main = "infer"
    /\ \/ main' = (IF mode = "afl" THEN "save" ELSE "start") /\ UNCHANGED status
       \/ mode = "dafl" /\ PoolKeys = {} /\ main' = "error" /\ status' = "error"
    /\ passTests' = {}
    /\ UNCHANGED <<pass_ss, fail_ss, snapshot_hashes, candidate_variables, cycle, config,
                   control, found>>

SaveInvariantResult ==
    /\ main = "save" /\ main' = "done"
    /\ UNCHANGED <<poolVars, config, control, found, passTests>>

Init == /\ PoolInit
        /\ mode \in {"afl", "dafl"} /\ normal_in \in BOOLEAN
        /\ main = IF mode = "afl" THEN "fuzz" ELSE "start"
        /\ which = "crash" /\ alive = 0
        /\ fuzzers = [f \in Kinds |-> "none"]
        /\ crashes = {} /\ normals = {}
        /\ passTests = {}

Next == \/ Find \/ FuzzerEnds
        \/ StartAFL \/ EndAFL \/ StartCycle \/ CheckBefore \/ Launch \/ CheckAfter \/ Pause
        \/ Collect \/ CollectRaises \/ Infer \/ SaveInvariantResult

Spec == Init /\ [][Next]_vars

-----------------------------------------------------------------------------
(***************************************************************************)
(* Whenever a fuzzer ends by itself between a check and the signal that    *)
(* follows it: while main reads the output directories, runs the inputs    *)
(* and infers, no fuzzer adds to them, and never are two running at once.  *)
(***************************************************************************)
FuzzerQuiet ==
    /\ main \in {"collect", "infer", "save", "done"} =>
          \A f \in Kinds : fuzzers[f] # "running"
    /\ Cardinality({f \in Kinds : fuzzers[f] = "running"}) <= 1

(***************************************************************************)
(* Each cycle processes all inputs found so far under the variables that   *)
(* it chooses anew: when inference starts, the state that a reproducible   *)
(* crash was observed in is among the hashes that the pool remembers under *)
(* these variables, in whichever cycle the input was found.                *)
(***************************************************************************)
CrashesReachPool ==
    main = "infer" =>
        \A t \in {Exploit} \cup crashes :
            t \notin Flaky /\ Result[t] = "failing" /\ Keys(Shots[t].last) # {} =>
                PruneSnapshot(Shots[t].last, candidate_variables) \in snapshot_hashes

(***************************************************************************)
(* "For DAFL, We need to separate normal and crash inputs from crash       *)
(* inputs [...] by checking the return status" (main.py:143): in a cycle   *)
(* the state of every input that reliably passes is taken from a passing   *)
(* test.                                                                   *)
(***************************************************************************)
PassingInputsSeparated ==
    main = "infer" /\ mode = "dafl" =>
        \A t \in crashes \ Flaky :
            Result[t] = "passing" => \E p \in passTests : Shots[p] = Shots[t]

=============================================================================
