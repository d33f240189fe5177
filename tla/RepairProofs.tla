---------------------------- MODULE RepairProofs ----------------------------
(***************************************************************************)
(* Proofs about the refinement loop of main, for every set of variables,   *)
(* values, tests and inputs.  The loop only runs with candidates that      *)
(* explain the pool; these name a variable the pool still has, which is    *)
(* what makes a round an insertion that loses nothing, so that the pool's  *)
(* own invariant (SnapshotPoolProofs) carries over.                        *)
(***************************************************************************)
EXTENDS Repair, SnapshotPoolProofs, FiniteSetTheorems

\* The set of invariants that the pool's entries do not refute.
Explained == Consistent(Dicts(pass_ss), Dicts(fail_ss))

RepairTypeOK ==
    /\ stage \in {"filter", "infer", "loop", "done", "crashed"}
    /\ candidate_exprs \subseteq Expr
    /\ last \in [exprs : SUBSET Expr, exit : {"running", "none", "timeout", "early", "empty"}]
    /\ round \in 0..MaxRound
    /\ sample_complexity \in Nat /\ prev_sample_size \in Nat
    /\ IsFiniteSet(DOMAIN pass_ss) /\ IsFiniteSet(DOMAIN fail_ss)
    /\ inputs_pass \subseteq PassTests /\ inputs_fail \subseteq FailTests
    /\ untouched_inputs_pass \subseteq inputs_pass
    /\ untouched_inputs_fail \subseteq inputs_fail

\* What main has done when it is at a stage.
Stages ==
    /\ stage = "filter" => cycle = 0 /\ untouched_inputs_pass = {} /\ untouched_inputs_fail = {}
    /\ stage \in {"infer", "loop"} => status = "ready" /\ cycle > 0
    /\ stage \in {"filter", "infer"} => round = 0 /\ prev_sample_size < sample_complexity

\* The loop has an answer, and the pool agrees with it.
Answers ==
    /\ stage = "loop" => /\ candidate_exprs # {} /\ latest_non_empty_invs = candidate_exprs
                         /\ candidate_exprs \subseteq Explained
    /\ stage = "done" => /\ final_patch_invs = {} <=> last.exit = "none"
                         /\ last.exit \in {"timeout", "early"} => final_patch_invs \subseteq Explained

\* The threshold is out of reach for as long as the number of candidates moves.
Stable ==
    /\ stage = "loop" /\ sample_complexity <= prev_sample_size =>
          Cardinality(candidate_exprs) = Cardinality(last.exprs)
    /\ EarlyTermIsStable

\* A set of tests of which one was taken in each round so far.
Taken(untouched, all) == untouched = {} \/ Cardinality(all \ untouched) = round + 1

Rounds == stage = "loop" /\ round < MaxRound =>
              /\ Taken(untouched_inputs_pass, inputs_pass)
              /\ Taken(untouched_inputs_fail, inputs_fail)

RepairInv == PoolInv /\ RepairTypeOK /\ Stages /\ Answers /\ Stable /\ Rounds

-----------------------------------------------------------------------------
\* Nothing is inferred and nobody has asked yet.
LEMMA RepairInvInit == Init => RepairInv
  <1> SUFFICES ASSUME Init PROVE RepairInv
    OBVIOUS
  <1>1. PoolInv
    BY PoolInvInit DEF Init
  <1>2. DOMAIN pass_ss = {} /\ DOMAIN fail_ss = {}
    BY DEF Init, PoolInit
  <1>3. IsFiniteSet({})
    BY FS_EmptySet
  <1>4. RepairTypeOK
    BY <1>2, <1>3, PacAssumption DEF Init, RepairTypeOK
  <1>5. Stages /\ Answers /\ Stable /\ Rounds
    BY PacAssumption DEF Init, PoolInit, Stages, Answers, Stable, EarlyTermIsStable, Rounds
  <1>6. QED  BY <1>1, <1>4, <1>5 DEF RepairInv

\* A step that leaves the pool alone leaves its invariant and what it explains.
LEMMA PoolKept ==
    ASSUME PoolInv, UNCHANGED poolVars
    PROVE  /\ PoolInv' /\ Explained' = Explained
           /\ UNCHANGED <<pass_ss, fail_ss, snapshot_hashes, candidate_variables, cycle, status>>
  BY PoolInvNext DEF poolVars, Explained

\* A non-empty answer about the pool names a variable that the pool has.
LEMMA AnswerHasKey ==
    ASSUME NEW exprs, exprs # {}, exprs \subseteq Explained
    PROVE  PoolKeys # {}
  BY DEF Explained, Consistent, PoolKeys, PoolDicts

\* Pruned batches are finite, and so are the lists after their insertion.
LEMMA FiniteLists ==
    ASSUME PoolTypeOK, IsFiniteSet(DOMAIN pass_ss), IsFiniteSet(DOMAIN fail_ss),
           NEW P \in SUBSET Snapshot, NEW F \in SUBSET Snapshot,
           IsFiniteSet(P), IsFiniteSet(F), AddNewSnapshots(P, F)
    PROVE  IsFiniteSet(DOMAIN pass_ss') /\ IsFiniteSet(DOMAIN fail_ss')
  <1>1. /\ DOMAIN pass_ss' = DOMAIN ValidPasses(P)
        /\ DOMAIN fail_ss' = DOMAIN ValidFails(P, F)
    BY Unfolded DEF PruneList
  <1>2. /\ DOMAIN ValidPasses(P) \in SUBSET (DOMAIN pass_ss \cup P)
        /\ DOMAIN ValidFails(P, F) \in SUBSET (DOMAIN fail_ss \cup F)
    BY DEF ValidPasses, ValidFails, RemoveInvalid, Extend, NewPasses, NewFails
  <1>3. IsFiniteSet(DOMAIN pass_ss \cup P) /\ IsFiniteSet(DOMAIN fail_ss \cup F)
    BY FS_Union
  <1>4. QED  BY <1>1, <1>2, <1>3, FS_Subset

\* What main inserts of a batch once the variables are chosen.
Pruned(B, C) == {PruneSnapshot(ss, C) : ss \in Valid(B)}

\* Batches are finite, also when they are pruned.
LEMMA FiniteBatches ==
    ASSUME NEW B \in Batches, NEW C \in SUBSET Vars
    PROVE  /\ IsFiniteSet(B) /\ B \in SUBSET Snapshot
           /\ IsFiniteSet(Pruned(B, C)) /\ Pruned(B, C) \in SUBSET Snapshot
  <1> DEFINE V == Valid(B)
             T == {PruneSnapshot(ss, C) : ss \in V}
             f == [ss \in V |-> PruneSnapshot(ss, C)]
  <1>1. B \in SUBSET Inputs /\ B \in SUBSET Snapshot /\ V \in SUBSET B
    BY InputsAssumption DEF Batches, Valid
  <1>2. IsFiniteSet(B)
    BY <1>1, FiniteAssumption, FS_Subset
  <1>3. IsFiniteSet(V)
    BY <1>1, <1>2, FS_Subset
  <1> HIDE DEF V
  <1>4. f \in Surjection(V, T)
    BY DEF Surjection
  <1>5. IsFiniteSet(T)
    BY <1>3, <1>4, FS_Surjection
  <1>6. T \in SUBSET Snapshot
    BY <1>1, PruneFacts
  <1>7. Pruned(B, C) = T
    BY DEF V, Pruned
  <1>8. QED  BY <1>1, <1>2, <1>5, <1>6, <1>7

\* Taking a test that is left, if one is.
LEMMA TakeOne ==
    ASSUME NEW all, IsFiniteSet(all), NEW untouched \in SUBSET all, NEW n \in Nat, NEW c,
           untouched # {} => c \in untouched,
           untouched = {} \/ Cardinality(all \ untouched) = n
    PROVE  untouched \ {c} = {} \/ Cardinality(all \ (untouched \ {c})) = n + 1
  <1>1. CASE untouched = {}
    BY <1>1
  <1>2. CASE untouched # {}
    <2>1. c \in untouched /\ Cardinality(all \ untouched) = n
      BY <1>2
    <2>2. all \ (untouched \ {c}) = (all \ untouched) \cup {c} /\ c \notin all \ untouched
      BY <2>1
    <2>3. IsFiniteSet(all \ untouched)
      BY FS_Subset
    <2>4. QED  BY <2>1, <2>2, <2>3, FS_AddElement
  <1>3. QED  BY <1>1, <1>2

-----------------------------------------------------------------------------
\* STEP (2): an insertion of the pool, and the tests.
LEMMA FilterStep ==
    ASSUME RepairInv, NEW P \in Batches, NEW F \in Batches, NEW C \in SUBSET Vars,
           FilterStoreInitialTests(P, F, C)
    PROVE  RepairInv'
  <1>1. PoolInv /\ RepairTypeOK /\ Stages /\ Stable
    BY DEF RepairInv
  <1>2. /\ stage = "filter" /\ PostProcessInitial(P, F, C)
        /\ stage' = IF status' = "error" THEN "crashed" ELSE "infer"
        /\ inputs_pass' \subseteq PassTests /\ inputs_fail' \subseteq FailTests
        /\ UNCHANGED <<untouched_inputs_pass, untouched_inputs_fail, round, candidate_exprs,
                       sample_complexity, prev_sample_size, last>>
    BY DEF FilterStoreInitialTests, pickVars, invVars, pacVars
  <1>3. PoolInv'
    BY <1>1, <1>2, InitialStep, BatchesAreSnapshots
  <1>4. IsFiniteSet(DOMAIN pass_ss') /\ IsFiniteSet(DOMAIN fail_ss')
    <2>1. CASE UNCHANGED <<pass_ss, fail_ss>>
      BY <1>1, <2>1 DEF RepairTypeOK
    <2>2. CASE AddNewSnapshots(Pruned(P, C), Pruned(F, C))
      <3>1. /\ IsFiniteSet(Pruned(P, C)) /\ Pruned(P, C) \in SUBSET Snapshot
            /\ IsFiniteSet(Pruned(F, C)) /\ Pruned(F, C) \in SUBSET Snapshot
        BY FiniteBatches
      <3>2. QED  BY <1>1, <2>2, <3>1, FiniteLists DEF PoolInv, RepairTypeOK
    <2>3. QED  BY <1>2, <2>1, <2>2 DEF PostProcessInitial, Pruned
  <1>5. RepairTypeOK'
    BY <1>1, <1>2, <1>4 DEF RepairTypeOK, Stages
  <1>6. cycle \in Nat /\ cycle' = cycle + 1 /\ status' \in {"ready", "error"}
    BY <1>1, <1>2, <1>3 DEF PostProcessInitial, PoolInv, PoolTypeOK
  <1>7. Stages'
    BY <1>1, <1>2, <1>6 DEF Stages
  <1>8. Answers' /\ Stable' /\ Rounds'
    BY <1>2 DEF Answers, Stable, EarlyTermIsStable, Rounds
  <1>9. QED  BY <1>3, <1>5, <1>7, <1>8 DEF RepairInv

\* The record that remembers the round before.
LEMMA LastFacts ==
    ASSUME RepairTypeOK, NEW e \in SUBSET Expr, NEW why \in {"none", "timeout", "early", "empty"}
    PROVE  /\ [last EXCEPT !.exit = why].exit = why
           /\ [last EXCEPT !.exit = why].exprs = last.exprs
           /\ [last EXCEPT !.exprs = e].exprs = e
           /\ [last EXCEPT !.exit = why] \in [exprs : SUBSET Expr,
                  exit : {"running", "none", "timeout", "early", "empty"}]
           /\ [last EXCEPT !.exprs = e] \in [exprs : SUBSET Expr,
                  exit : {"running", "none", "timeout", "early", "empty"}]
  BY DEF RepairTypeOK

\* STEP (3): an empty answer ends main, another one starts the loop.
LEMMA InferStep ==
    ASSUME RepairInv, InitialInference
    PROVE  RepairInv'
  <1>1. PoolInv /\ RepairTypeOK /\ Stages
    BY DEF RepairInv
  <1>2. /\ stage = "infer" /\ UNCHANGED <<inputs_pass, inputs_fail, sample_complexity, prev_sample_size>>
        /\ latest_non_empty_invs' = candidate_exprs' /\ UNCHANGED poolVars
        /\ candidate_exprs' \subseteq Explained
    BY DEF InitialInference, testVars, pacVars, BackendRun, Explained
  <1>3. /\ PoolInv' /\ Explained' = Explained
        /\ UNCHANGED <<pass_ss, fail_ss, snapshot_hashes, candidate_variables, cycle, status>>
    BY <1>1, <1>2, PoolKept
  <1>4. candidate_exprs' \subseteq Expr
    BY <1>2 DEF Explained, Consistent
  <1>5. CASE candidate_exprs' = {}
    <2>1. /\ stage' = "done" /\ final_patch_invs' = {} /\ last' = [last EXCEPT !.exit = "none"]
          /\ UNCHANGED <<untouched_inputs_pass, untouched_inputs_fail, round>>
      BY <1>5 DEF InitialInference, pickVars
    <2>2. RepairTypeOK' /\ last'.exit = "none"
      BY <1>1, <1>2, <1>3, <1>4, <2>1, LastFacts DEF RepairTypeOK
    <2>3. Stages' /\ Answers' /\ Stable' /\ Rounds'
      BY <2>1, <2>2 DEF Stages, Answers, Stable, EarlyTermIsStable, Rounds
    <2>4. QED  BY <1>3, <2>2, <2>3 DEF RepairInv
  <1>6. CASE candidate_exprs' # {}
    <2>1. /\ stage' = "loop" /\ UNCHANGED <<round, final_patch_invs, last>>
          /\ RefreshDriverTests(inputs_pass, inputs_fail, inputs_pass, inputs_fail)
      BY <1>6 DEF InitialInference
    <2>2. /\ untouched_inputs_pass' = inputs_pass \ {curr_pass'}
          /\ untouched_inputs_fail' = inputs_fail \ {curr_fail'}
          /\ inputs_pass # {} => curr_pass' \in inputs_pass
          /\ inputs_fail # {} => curr_fail' \in inputs_fail
      BY <2>1 DEF RefreshDriverTests, Pick
    <2>3. RepairTypeOK'
      BY <1>1, <1>2, <1>3, <1>4, <2>1, <2>2 DEF RepairTypeOK
    <2>4. round = 0 /\ prev_sample_size < sample_complexity
          /\ prev_sample_size \in Nat /\ sample_complexity \in Nat
      BY <1>1, <1>2 DEF Stages, RepairTypeOK
    <2>5. Stages' /\ Answers'
      BY <1>1, <1>2, <1>3, <1>6, <2>1 DEF Stages, Answers
    <2>6. Stable'
      BY <1>2, <2>1, <2>4 DEF Stable, EarlyTermIsStable
    <2>7. ASSUME NEW all, NEW c, all # {} => c \in all
          PROVE  all \ {c} = {} \/ Cardinality(all \ (all \ {c})) = 1
      <3>1. CASE all = {}
        BY <3>1
      <3>2. CASE all # {}
        <4>1. all \ (all \ {c}) = {c}
          BY <2>7, <3>2
        <4>2. QED  BY <4>1, FS_Singleton
      <3>3. QED  BY <3>1, <3>2
    <2>8. Rounds'
      BY <1>2, <2>1, <2>2, <2>4, <2>7 DEF Rounds, Taken
    <2>9. QED  BY <1>3, <2>3, <2>5, <2>6, <2>8 DEF RepairInv
  <1>7. QED  BY <1>5, <1>6

\* The loop ends by the clock or by the threshold, with its candidates.
LEMMA LeaveStep ==
    ASSUME RepairInv, TotalTimeout \/ EarlyTermination
    PROVE  RepairInv'
  <1>1. PoolInv /\ RepairTypeOK /\ Stages /\ Answers /\ Stable
    BY DEF RepairInv
  <1>2. /\ stage = "loop" /\ stage' = "done" /\ final_patch_invs' = latest_non_empty_invs
        /\ UNCHANGED <<inputs_pass, inputs_fail, untouched_inputs_pass, untouched_inputs_fail,
                       round, candidate_exprs, sample_complexity, prev_sample_size>>
        /\ UNCHANGED poolVars
    BY DEF TotalTimeout, EarlyTermination, LeaveLoop, testVars, pickVars, pacVars
  <1>3. PICK why \in {"timeout", "early"} :
           /\ last' = [last EXCEPT !.exit = why]
           /\ why = "early" => sample_complexity <= prev_sample_size
    BY DEF TotalTimeout, EarlyTermination, LeaveLoop, ReachEarlyTerminationCriteria
  <1>4. /\ PoolInv' /\ Explained' = Explained
        /\ UNCHANGED <<pass_ss, fail_ss, snapshot_hashes, candidate_variables, cycle, status>>
    BY <1>1, <1>2, PoolKept
  <1>5. RepairTypeOK' /\ last'.exit = why /\ last'.exprs = last.exprs
    BY <1>1, <1>2, <1>3, <1>4, LastFacts DEF RepairTypeOK
  <1>6. Answers'
    BY <1>1, <1>2, <1>4, <1>5 DEF Answers
  <1>7. Stable'
    BY <1>1, <1>2, <1>3, <1>5 DEF Stable, EarlyTermIsStable, Answers
  <1>8. Stages' /\ Rounds'
    BY <1>2 DEF Stages, Rounds
  <1>9. QED  BY <1>4, <1>5, <1>6, <1>7, <1>8 DEF RepairInv

\* A round is an insertion of counter-examples into a pool that keeps a key.
LEMMA RoundInserts ==
    ASSUME RepairInv, NEW P \in Batches, NEW F \in Batches, OneStepRefinement(P, F)
    PROVE  /\ AddCounterExamples(P, F) /\ PoolInv' /\ status' = "ready" /\ cycle' > 0
           /\ IsFiniteSet(DOMAIN pass_ss') /\ IsFiniteSet(DOMAIN fail_ss')
  <1>1. PoolInv /\ RepairTypeOK /\ Stages /\ Answers
    BY DEF RepairInv
  <1>2. /\ stage = "loop" /\ AddNewSnapshots(P, F)
        /\ candidate_variables' = candidate_variables /\ cycle' = cycle
    BY DEF OneStepRefinement
  <1>3. PoolKeys # {}
    BY <1>1, <1>2, AnswerHasKey DEF Answers
  <1>4. status = "ready" /\ cycle > 0 /\ Refining
    BY <1>1, <1>2, RefiningAssumption DEF Stages
  <1>5. AddCounterExamples(P, F)
    BY <1>2, <1>3, <1>4 DEF AddCounterExamples
  <1>6. PoolInv'
    BY <1>1, <1>5, CounterExampleStep
  <1>7. PoolDicts # {} /\ P \in SUBSET Snapshot /\ F \in SUBSET Snapshot
    BY <1>1, <1>4, BatchesAreSnapshots DEF PoolInv, KeysWithinCandidates
  <1>8. status' = "ready"
    BY <1>1, <1>2, <1>3, <1>7, InsertionKeeps DEF PoolInv
  <1>9. IsFiniteSet(P) /\ IsFiniteSet(F)
    <2>1. {} \in SUBSET Vars
      OBVIOUS
    <2>2. QED  BY <2>1, FiniteBatches
  <1>10. IsFiniteSet(DOMAIN pass_ss') /\ IsFiniteSet(DOMAIN fail_ss')
    BY <1>1, <1>2, <1>7, <1>9, FiniteLists DEF PoolInv, RepairTypeOK
  <1>11. QED  BY <1>2, <1>4, <1>5, <1>6, <1>8, <1>10

\* The number of samples that the criteria compare.
LEMMA Samples ==
    ASSUME RepairTypeOK, candidate_exprs # {}
    PROVE  PoolSize \in Nat /\ PacSamples[Cardinality(candidate_exprs)] \in Nat \ {0}
  <1>1. PoolSize \in Nat
    BY FS_CardinalityType DEF RepairTypeOK, PoolSize
  <1>2. IsFiniteSet(candidate_exprs) /\ Cardinality(candidate_exprs) <= Cardinality(Expr)
    BY FiniteAssumption, FS_Subset DEF RepairTypeOK
  <1>3. Cardinality(candidate_exprs) \in Nat /\ Cardinality(Expr) \in Nat
    BY <1>2, FiniteAssumption, FS_CardinalityType
  <1>4. Cardinality(candidate_exprs) # 0
    BY <1>2, FS_EmptySet
  <1>5. QED  BY <1>1, <1>2, <1>3, <1>4, PacAssumption

\* A round of refinement.
LEMMA RoundStep ==
    ASSUME RepairInv, NEW P \in Batches, NEW F \in Batches, OneStepRefinement(P, F)
    PROVE  RepairInv'
  <1>1. RepairTypeOK /\ Stages /\ Answers /\ Stable /\ Rounds /\ stage = "loop"
    BY DEF RepairInv, OneStepRefinement
  <1>2. /\ PoolInv' /\ status' = "ready" /\ cycle' > 0
        /\ IsFiniteSet(DOMAIN pass_ss') /\ IsFiniteSet(DOMAIN fail_ss')
    BY RoundInserts
  <1>3. UNCHANGED <<inputs_pass, inputs_fail>>
    BY DEF OneStepRefinement, testVars
  <1>4. PICK exprs \in SUBSET Explained' :
        \/ /\ exprs = {}
           /\ LeaveLoop("empty")
           /\ UNCHANGED <<candidate_exprs, latest_non_empty_invs, pickVars, pacVars>>
        \/ /\ exprs # {}
           /\ round' = IF round < MaxRound THEN round + 1 ELSE round
           /\ candidate_exprs' = exprs
           /\ latest_non_empty_invs' = exprs
           /\ prev_sample_size' = PoolSize
           /\ sample_complexity' =
                 IF Cardinality(exprs) = Cardinality(candidate_exprs)
                 THEN sample_complexity
                 ELSE PoolSize + PacSamples[Cardinality(candidate_exprs)]
           /\ RefreshDriverTests(untouched_inputs_pass, untouched_inputs_fail,
                                 inputs_pass, inputs_fail)
           /\ last' = [last EXCEPT !.exprs = candidate_exprs]
           /\ UNCHANGED <<final_patch_invs, stage>>
    BY DEF OneStepRefinement, BackendRun, Explained
  <1>5. CASE exprs = {}
    <2>1. /\ stage' = "done" /\ final_patch_invs' = latest_non_empty_invs
          /\ last' = [last EXCEPT !.exit = "empty"]
          /\ UNCHANGED <<candidate_exprs, latest_non_empty_invs, round, untouched_inputs_pass,
                         untouched_inputs_fail, sample_complexity, prev_sample_size>>
      BY <1>4, <1>5 DEF LeaveLoop, pickVars, pacVars
    <2>2. RepairTypeOK' /\ last'.exit = "empty"
      BY <1>1, <1>2, <1>3, <2>1, LastFacts DEF RepairTypeOK
    <2>3. Stages' /\ Answers' /\ Stable' /\ Rounds'
      BY <1>1, <2>1, <2>2 DEF Stages, Answers, Stable, EarlyTermIsStable, Rounds
    <2>4. QED  BY <1>2, <2>2, <2>3 DEF RepairInv
  <1>6. CASE exprs # {}
    <2>1. /\ round' = IF round < MaxRound THEN round + 1 ELSE round
          /\ candidate_exprs' = exprs /\ latest_non_empty_invs' = exprs
          /\ prev_sample_size' = PoolSize
          /\ sample_complexity' =
                IF Cardinality(exprs) = Cardinality(candidate_exprs)
                THEN sample_complexity
                ELSE PoolSize + PacSamples[Cardinality(candidate_exprs)]
          /\ RefreshDriverTests(untouched_inputs_pass, untouched_inputs_fail,
                                inputs_pass, inputs_fail)
          /\ last' = [last EXCEPT !.exprs = candidate_exprs]
          /\ UNCHANGED <<final_patch_invs, stage>>
      BY <1>4, <1>6
    <2>2. /\ untouched_inputs_pass' = untouched_inputs_pass \ {curr_pass'}
          /\ untouched_inputs_fail' = untouched_inputs_fail \ {curr_fail'}
          /\ untouched_inputs_pass # {} => curr_pass' \in untouched_inputs_pass
          /\ untouched_inputs_fail # {} => curr_fail' \in untouched_inputs_fail
      BY <1>1, <2>1 DEF RefreshDriverTests, Pick, RepairTypeOK
    <2>3. exprs \subseteq Expr
      BY DEF Explained, Consistent
    <2>4. PoolSize \in Nat /\ PacSamples[Cardinality(candidate_exprs)] \in Nat \ {0}
      BY <1>1, Samples DEF Answers
    <2>5. /\ last'.exprs = candidate_exprs
          /\ last' \in [exprs : SUBSET Expr,
                        exit : {"running", "none", "timeout", "early", "empty"}]
      BY <1>1, <2>1, LastFacts DEF RepairTypeOK
    <2>6. round \in 0..MaxRound /\ MaxRound \in Nat /\ round' \in 0..MaxRound
      BY <1>1, <2>1, PacAssumption DEF RepairTypeOK
    <2>7. sample_complexity' \in Nat /\ prev_sample_size' \in Nat
      BY <1>1, <2>1, <2>4 DEF RepairTypeOK
    <2>8. RepairTypeOK'
      BY <1>1, <1>2, <1>3, <2>1, <2>2, <2>3, <2>5, <2>6, <2>7 DEF RepairTypeOK
    <2>9. Stages' /\ Answers'
      BY <1>1, <1>2, <1>6, <2>1 DEF Stages, Answers
    <2>10. Stable'
      BY <1>1, <2>1, <2>4, <2>5 DEF Stable, EarlyTermIsStable
    <2>11. IsFiniteSet(inputs_pass) /\ IsFiniteSet(inputs_fail)
      BY <1>1, FiniteAssumption, FS_Subset DEF RepairTypeOK
    <2>12. Rounds'
      <3> SUFFICES ASSUME round' < MaxRound
                   PROVE  /\ Taken(untouched_inputs_pass, inputs_pass)'
                          /\ Taken(untouched_inputs_fail, inputs_fail)'
        BY DEF Rounds
      <3>1. round' = round + 1 /\ round < MaxRound /\ round + 1 \in Nat
        BY <2>1, <2>6
      <3>2. /\ untouched_inputs_pass = {}
               \/ Cardinality(inputs_pass \ untouched_inputs_pass) = round + 1
            /\ untouched_inputs_fail = {}
               \/ Cardinality(inputs_fail \ untouched_inputs_fail) = round + 1
            /\ untouched_inputs_pass \in SUBSET inputs_pass
            /\ untouched_inputs_fail \in SUBSET inputs_fail
        BY <1>1, <3>1 DEF Rounds, Taken, RepairTypeOK
      <3>3. untouched_inputs_pass' = {}
            \/ Cardinality(inputs_pass \ untouched_inputs_pass') = round + 1 + 1
        BY <2>2, <2>11, <3>1, <3>2, TakeOne
      <3>4. untouched_inputs_fail' = {}
            \/ Cardinality(inputs_fail \ untouched_inputs_fail') = round + 1 + 1
        BY <2>2, <2>11, <3>1, <3>2, TakeOne
      <3>5. QED  BY <1>3, <3>1, <3>3, <3>4 DEF Taken
    <2>13. QED  BY <1>2, <2>8, <2>9, <2>10, <2>12 DEF RepairInv
  <1>7. QED  BY <1>5, <1>6

\* An aborted driver run, time that passes, and a step of nobody.
LEMMA OtherSteps ==
    ASSUME RepairInv, AbortOnUnclassifiedTest \/ BudgetExhausted \/ UNCHANGED vars
    PROVE  RepairInv'
  <1>1. /\ stage' = stage \/ stage' = "crashed"
        /\ UNCHANGED poolVars
        /\ UNCHANGED <<inputs_pass, inputs_fail, untouched_inputs_pass, untouched_inputs_fail,
                       round, candidate_exprs, latest_non_empty_invs, final_patch_invs,
                       sample_complexity, prev_sample_size, last>>
    BY DEF AbortOnUnclassifiedTest, BudgetExhausted, vars, testVars, pickVars, invVars, pacVars
  <1>2. PoolInv /\ RepairTypeOK /\ Stages /\ Answers /\ Stable /\ Rounds
    BY DEF RepairInv
  <1>3. /\ PoolInv' /\ Explained' = Explained
        /\ UNCHANGED <<pass_ss, fail_ss, snapshot_hashes, candidate_variables, cycle, status>>
    BY <1>1, <1>2, PoolKept
  <1>4. RepairTypeOK'
    BY <1>1, <1>2, <1>3 DEF RepairTypeOK
  <1>5. Stages' /\ Answers'
    BY <1>1, <1>2, <1>3 DEF Stages, Answers
  <1>6. Stable' /\ Rounds'
    BY <1>1, <1>2 DEF Stable, EarlyTermIsStable, Rounds, Taken
  <1>7. QED  BY <1>3, <1>4, <1>5, <1>6 DEF RepairInv

\* Every step of main preserves the invariant.
LEMMA RepairInvNext == RepairInv /\ [Next]_vars => RepairInv'
  BY FilterStep, InferStep, LeaveStep, RoundStep, OtherSteps DEF Next, Main

-----------------------------------------------------------------------------
\* The inductive invariant holds as long as main runs.
THEOREM RepairInvariant == Spec => []RepairInv
  BY RepairInvInit, RepairInvNext, PTL DEF Spec

(***************************************************************************)
(* The candidates of the refiner, and the invariants that main ends with   *)
(* after a timeout or an early termination, hold on every passing entry of *)
(* the pool, fail on every failing one and name only variables it has.     *)
(***************************************************************************)
THEOREM RepairCandidatesExplain == Spec => []CandidatesExplainPool
  <1>1. RepairInv => CandidatesExplainPool
    BY DEF RepairInv, Answers, Explained, CandidatesExplainPool
  <1>2. QED  BY <1>1, RepairInvariant, PTL

(***************************************************************************)
(* Once the first inference had an answer main ends with one, although a   *)
(* round with an empty answer ends the loop.                               *)
(***************************************************************************)
THEOREM RepairAnswerNotLost == Spec => []AnswerNotLost
  <1>1. RepairInv => AnswerNotLost
    BY DEF RepairInv, Answers, AnswerNotLost
  <1>2. QED  BY <1>1, RepairInvariant, PTL

(***************************************************************************)
(* reach_early_termination_criteria is not true after a round that changed *)
(* the number of candidates, whatever the PAC sample counts are, as long   *)
(* as they are positive.                                                   *)
(***************************************************************************)
THEOREM RepairEarlyTermIsStable == Spec => []EarlyTermIsStable
  <1>1. RepairInv => EarlyTermIsStable
    BY DEF RepairInv, Stable
  <1>2. QED  BY <1>1, RepairInvariant, PTL

(***************************************************************************)
(* The refiner's driver tests are taken without replacement: as long as a  *)
(* test is unused, n rounds have used n + 1 different ones.                *)
(***************************************************************************)
THEOREM RepairEveryTestGetsItsRound == Spec => []EveryTestGetsItsRound
  <1>1. RepairInv => EveryTestGetsItsRound
    BY DEF RepairInv, Rounds, Taken, EveryTestGetsItsRound
  <1>2. QED  BY <1>1, RepairInvariant, PTL

(***************************************************************************)
(* main and the refiner use the pool as its specification allows: every    *)
(* round of refinement inserts into a pool that has entries and a variable *)
(* common to all of them, so what is proved about the pool holds in main.  *)
(***************************************************************************)
THEOREM RepairImplementsPool == Spec => PoolSpec
  <1>1. Init => PoolInit
    BY DEF Init
  <1>2. RepairInv /\ [Next]_vars => [PoolNext]_poolVars
    <2> SUFFICES ASSUME RepairInv, [Next]_vars PROVE [PoolNext]_poolVars
      OBVIOUS
    <2>1. ASSUME NEW P \in Batches, NEW F \in Batches, NEW C \in SUBSET Vars,
                 FilterStoreInitialTests(P, F, C)
          PROVE  PoolNext
      BY <2>1 DEF FilterStoreInitialTests, PoolNext
    <2>2. ASSUME NEW P \in Batches, NEW F \in Batches, OneStepRefinement(P, F)
          PROVE  PoolNext
      BY <2>2, RoundInserts DEF PoolNext
    <2>3. CASE \/ InitialInference \/ TotalTimeout \/ EarlyTermination
               \/ AbortOnUnclassifiedTest \/ BudgetExhausted \/ UNCHANGED vars
      <3>1. UNCHANGED poolVars
        BY <2>3 DEF InitialInference, TotalTimeout, EarlyTermination, AbortOnUnclassifiedTest,
                    BudgetExhausted, vars
      <3>2. QED  BY <3>1
    <2>4. QED  BY <2>1, <2>2, <2>3 DEF Next, Main
  <1>3. QED  BY <1>1, <1>2, RepairInvariant, PTL DEF Spec, PoolSpec
=============================================================================
