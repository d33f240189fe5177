------------------------------- MODULE Repair -------------------------------
(***************************************************************************)
(* The snapshot-fuzzing mode of VulnFix from the collected tests to the    *)
(* final patch invariants: main() of src/main.py from STEP (2) on, the     *)
(* refiner of src/ce_refiner.py, the snapshot pool they share and the      *)
(* inference backend (Daikon, external) through the contract main relies   *)
(* on: whatever it returns holds on all passing snapshots of the pool and  *)
(* is violated by all failing ones.                                        *)
(*                                                                         *)
(* An invariant is a predicate over one variable: the values it allows.    *)
(* The counter-examples of a round are any batches the executions may      *)
(* produce; time is a flag that the environment raises once.               *)
(***************************************************************************)
EXTENDS SnapshotPool

CONSTANTS PassTests,       \* passing inputs the fuzzer may have found
          FailTests,       \* failing inputs it may have found
          Exploit,         \* the exploit, always among the failing inputs
          Flaky,           \* tests a re-run may leave unclassified
          NoTest,          \* no passing test (None)
          EarlyTerm,       \* values.early_term
          InitComplexity,  \* the refiner's initial sample_complexity (10000)
          PacSamples,      \* n |-> int(20 * (ln n + ln 50))
          MaxRound         \* bound: the round counter stops here

\* A candidate invariant; ok is neither unsatisfiable nor trivial.
Expr == [var : Vars, ok : (SUBSET Vals) \ {{}, Vals}]

ASSUME TestAssumption == /\ Exploit \in FailTests
                         /\ NoTest \notin PassTests \cup FailTests
                         /\ PassTests \cap FailTests = {}
ASSUME PacAssumption == /\ InitComplexity \in Nat \ {0}
                        /\ \A n \in 1..Cardinality(Expr) : PacSamples[n] \in Nat \ {0}
                        /\ EarlyTerm \in BOOLEAN
                        /\ MaxRound \in Nat
ASSUME RefiningAssumption == Refining
\* A program point has finitely many variables, of machine integers.
ASSUME FiniteAssumption == /\ IsFiniteSet(Expr) /\ IsFiniteSet(Inputs)
                           /\ IsFiniteSet(PassTests) /\ IsFiniteSet(FailTests)

VARIABLES stage,                  \* where main is
          time_up,                \* time.time() > time_end
          inputs_pass,            \* tests saved in afl-pass
          inputs_fail,            \* tests saved in afl-fail
          untouched_inputs_pass,
          untouched_inputs_fail,
          curr_pass,              \* the passing test that drives the round
          curr_fail,              \* the failing test that drives the round
          round,                  \* rounds of refinement with an answer
          candidate_exprs,        \* invariants of the current round
          latest_non_empty_invs,
          final_patch_invs,
          sample_complexity,
          prev_sample_size,
          last                    \* history: the round before and why main left

testVars == <<inputs_pass, inputs_fail>>
pickVars == <<untouched_inputs_pass, untouched_inputs_fail, curr_pass, curr_fail,
              round>>
pacVars == <<sample_complexity, prev_sample_size>>
invVars == <<candidate_exprs, latest_non_empty_invs, final_patch_invs>>
vars == <<poolVars, stage, time_up, testVars, pickVars, invVars, pacVars, last>>

-----------------------------------------------------------------------------
Holds(e, ss) == ss[e.var] \in e.ok

\* Mutant: also about variables the pool does not have.
ConsistentAnyVar(passes, fails) ==
    {e \in Expr : /\ \A ss \in passes : Holds(e, ss)
                  /\ \A ss \in fails : ~Holds(e, ss)}

\* What inference may report about a pool of passing and failing dictionaries.
Consistent(passes, fails) ==
    {e \in Expr : /\ e.var \in CommonVars(passes \cup fails)
                  /\ \A ss \in passes : Holds(e, ss)
                  /\ \A ss \in fails : ~Holds(e, ss)}

\* backend.run(): its templates, filters and de-duplication keep any part.
BackendRun(passes, fails) == SUBSET Consistent(passes, fails)

PoolSize == Cardinality(DOMAIN pass_ss) + Cardinality(DOMAIN fail_ss)

\* Mutant: any test, used or not.
PickAny(untouched, all) == all

\* __pick_pass_input and __pick_fail_input: unused tests first.
Pick(untouched, all) == IF untouched # {} THEN untouched ELSE all

\* __refresh_driver_tests, given the sets of tests not used so far.
RefreshDriverTests(up, uf, ip, if) ==
    /\ curr_pass' \in IF ip = {} THEN {NoTest} ELSE Pick(up, ip)
    /\ untouched_inputs_pass' = up \ {curr_pass'}
    /\ curr_fail' \in Pick(uf, if)
    /\ untouched_inputs_fail' = uf \ {curr_fail'}

-----------------------------------------------------------------------------
(***************************************************************************)
(* STEP (2): the tests that are kept and their snapshots.  The exploit is  *)
(* copied next to the failing inputs whether or not its run was usable.    *)
(* An IndexError on the way ends the program.                              *)
(***************************************************************************)
FilterStoreInitialTests(P, F, C) ==
    /\ stage = "filter"
    /\ PostProcessInitial(P, F, C)
    /\ \E ip \in SUBSET PassTests, if \in SUBSET FailTests :
          /\ Exploit \in if
          /\ inputs_pass' = ip
          /\ inputs_fail' = if
    /\ stage' = IF status' = "error" THEN "crashed" ELSE "infer"
    /\ UNCHANGED <<time_up, pickVars, invVars, pacVars, last>>

(***************************************************************************)
(* STEP (3): the first inference.  Without a result main is done; with one *)
(* it builds the refiner and enters the loop.                              *)
(***************************************************************************)
InitialInference ==
    /\ stage = "infer"
    /\ candidate_exprs' \in BackendRun(Dicts(pass_ss), Dicts(fail_ss))
    /\ latest_non_empty_invs' = candidate_exprs'
    /\ IF candidate_exprs' = {}
       THEN /\ stage' = "done"
            /\ final_patch_invs' = {}
            /\ last' = [last EXCEPT !.exit = "none"]
            /\ UNCHANGED pickVars
       ELSE /\ stage' = "loop"
            /\ RefreshDriverTests(inputs_pass, inputs_fail, inputs_pass, inputs_fail)
            /\ UNCHANGED round
            /\ UNCHANGED <<final_patch_invs, last>>
    /\ UNCHANGED <<poolVars, time_up, testVars, pacVars>>

\* Mutant: the invariants of the round before are returned as well.
LeaveLoopAccumulates(why) ==
    /\ stage' = "done"
    /\ final_patch_invs' = latest_non_empty_invs \cup last.exprs
    /\ last' = [last EXCEPT !.exit = why]

\* Mutant: the answer of the last round is returned, empty or not.
LeaveLoopLastAnswer(why) ==
    /\ stage' = "done"
    /\ final_patch_invs' = IF why = "empty" THEN {} ELSE latest_non_empty_invs
    /\ last' = [last EXCEPT !.exit = why]

\* The end of the loop: the latest invariants that were not empty.
LeaveLoop(why) ==
    /\ stage' = "done"
    /\ final_patch_invs' = latest_non_empty_invs
    /\ last' = [last EXCEPT !.exit = why]

\* Mutant: the clock is not looked at before the first round is over.
TotalTimeoutAfterRound ==
    /\ stage = "loop" /\ time_up /\ round > 0
    /\ LeaveLoop("timeout")
    /\ UNCHANGED <<poolVars, time_up, testVars, pickVars, candidate_exprs,
                   latest_non_empty_invs, pacVars>>

\* The time check at the head of the loop.
TotalTimeout ==
    /\ stage = "loop"
    /\ time_up
    /\ LeaveLoop("timeout")
    /\ UNCHANGED <<poolVars, time_up, testVars, pickVars, candidate_exprs,
                   latest_non_empty_invs, pacVars>>

\* Mutant: the pool of this round counts, not that of the round before.
ReachCriteriaWithThisPool == sample_complexity <= PoolSize

ReachEarlyTerminationCriteria == sample_complexity <= prev_sample_size

EarlyTermination ==
    /\ stage = "loop"
    /\ ~time_up
    /\ EarlyTerm /\ ReachEarlyTerminationCriteria
    /\ LeaveLoop("early")
    /\ UNCHANGED <<poolVars, time_up, testVars, pickVars, candidate_exprs,
                   latest_non_empty_invs, pacVars>>

(***************************************************************************)
(* one_step_refinement: counter-examples P and F enter the pool, inference *)
(* runs again.  An empty answer leaves the refiner as it was and ends the  *)
(* loop with the invariants of the round before.                           *)
(***************************************************************************)
OneStepRefinement(P, F) ==
    /\ stage = "loop"
    /\ ~time_up
    /\ ~(EarlyTerm /\ ReachEarlyTerminationCriteria)
    /\ AddNewSnapshots(P, F)
    /\ UNCHANGED <<candidate_variables, cycle, time_up, testVars>>
    /\ \E exprs \in BackendRun(Dicts(pass_ss'), Dicts(fail_ss')) :
        \/ /\ exprs = {}
           /\ LeaveLoop("empty")
           /\ UNCHANGED <<candidate_exprs, latest_non_empty_invs, pickVars, pacVars>>
        \/ /\ exprs # {}
           /\ round' = IF round < MaxRound THEN round + 1 ELSE round
           /\ candidate_exprs' = exprs
           /\ latest_non_empty_invs' = exprs
           /\ prev_sample_size' = PoolSize
           /\ sample_complexity' =
                 IF Cardinality(exprs) = Cardinality(candidate_exprs)
                 THEN sample_complexity
                 ELSE PoolSize + PacSamples[Cardinality(candidate_exprs)]
           /\ RefreshDriverTests(untouched_inputs_pass, untouched_inputs_fail,
                                 inputs_pass, inputs_fail)
           /\ last' = [last EXCEPT !.exprs = candidate_exprs]
           /\ UNCHANGED <<final_patch_invs, stage>>

\* A driver test that is unclassified when it is re-run: os.abort().
AbortOnUnclassifiedTest ==
    /\ stage = "loop"
    /\ ~time_up
    /\ ~(EarlyTerm /\ ReachEarlyTerminationCriteria)
    /\ {curr_pass, curr_fail} \cap Flaky # {}
    /\ stage' = "crashed"
    /\ UNCHANGED <<poolVars, time_up, testVars, pickVars, invVars, pacVars, last>>

\* The environment: the time budget runs out.
BudgetExhausted ==
    /\ ~time_up
    /\ time_up' = TRUE
    /\ UNCHANGED <<poolVars, stage, testVars, pickVars, invVars, pacVars, last>>

Init == /\ PoolInit
        /\ stage = "filter"
        /\ time_up = FALSE
        /\ inputs_pass = {} /\ inputs_fail = {}
        /\ untouched_inputs_pass = {} /\ untouched_inputs_fail = {}
        /\ curr_pass = NoTest /\ curr_fail = NoTest
        /\ round = 0
        /\ candidate_exprs = {}
        /\ latest_non_empty_invs = {}
        /\ final_patch_invs = {}
        /\ sample_complexity = InitComplexity
        /\ prev_sample_size = 0
        /\ last = [exprs |-> {}, exit |-> "running"]

Main == \/ \E P, F \in Batches :
              \/ \E C \in SUBSET Vars : FilterStoreInitialTests(P, F, C)
              \/ OneStepRefinement(P, F)
        \/ InitialInference
        \/ TotalTimeout
        \/ EarlyTermination
        \/ AbortOnUnclassifiedTest

Next == Main \/ BudgetExhausted

Spec == Init /\ [][Next]_vars

\* main never waits for anything but its own steps, and time passes.
FairSpec == Spec /\ WF_vars(Main) /\ WF_vars(BudgetExhausted)

-----------------------------------------------------------------------------
(***************************************************************************)
(* The invariants the refiner works on, and the ones main ends with unless *)
(* the last round had no answer, are over variables the pool still has,    *)
(* hold on every passing entry and fail on every failing entry: pruning    *)
(* and insertion never leave the refiner with a candidate that its own     *)
(* evidence refutes.                                                       *)
(***************************************************************************)
CandidatesExplainPool ==
    LET explained == Consistent(Dicts(pass_ss), Dicts(fail_ss))
    IN  /\ stage = "loop" => candidate_exprs \subseteq explained
        /\ stage = "done" /\ last.exit \in {"timeout", "early"} =>
              final_patch_invs \subseteq explained

(***************************************************************************)
(* Once the first inference had an answer, main ends with an answer ("the  *)
(* latest non-empty invariants"), whatever later rounds return.            *)
(***************************************************************************)
AnswerNotLost ==
    stage = "done" => (final_patch_invs = {} <=> last.exit = "none")

(***************************************************************************)
(* Early termination asks for stability: it never follows a round that     *)
(* changed the number of candidates.                                       *)
(***************************************************************************)
EarlyTermIsStable ==
    stage = "done" /\ last.exit = "early" =>
        Cardinality(final_patch_invs) = Cardinality(last.exprs)

(***************************************************************************)
(* The refiner takes its driver tests without replacement until none is    *)
(* left: after n rounds n + 1 failing (passing) tests have driven one, or  *)
(* all of them have.                                                       *)
(***************************************************************************)
EveryTestGetsItsRound ==
    stage = "loop" /\ round < MaxRound =>
        /\ \/ untouched_inputs_fail = {}
           \/ Cardinality(inputs_fail \ untouched_inputs_fail) = round + 1
        /\ \/ untouched_inputs_pass = {}
           \/ Cardinality(inputs_pass \ untouched_inputs_pass) = round + 1

\* main always ends: with its result or with the program's end.
Terminates == <>(stage \in {"done", "crashed"})

=============================================================================
