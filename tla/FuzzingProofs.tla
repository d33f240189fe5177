--------------------------- MODULE FuzzingProofs ---------------------------
(***************************************************************************)
(* Proofs about the fuzzing modes, for every set of tests, results and     *)
(* snapshots: the cycles of AFL, DAFL and AFLGo (FuzzCycle) first, then    *)
(* concentrated fuzzing (ConcFuzz).                                        *)
(*                                                                         *)
(* The inductive invariant of the cycles says when a fuzzer can be         *)
(* running: there is at most one that runs or is paused, and what main     *)
(* counted of them before it acts is stale only in the direction that does *)
(* no harm.  The pool's own invariant (SnapshotPoolProofs) carries over.   *)
(***************************************************************************)
EXTENDS FuzzCycle, ConcFuzz, SnapshotPoolProofs, FiniteSetTheorems

Running(f) == fuzzers[f] = "running"
Present(f) == fuzzers[f] \in {"running", "paused"}

FuzzTypeOK ==
    /\ mode \in {"afl", "dafl"}
    /\ main \in {"start", "fuzz", "launch", "sleep", "pause", "collect", "infer", "save",
                 "done", "error"}
    /\ which \in Kinds
    /\ alive \in Nat
    /\ fuzzers \in [Kinds -> {"none", "running", "paused", "ended"}]

\* Who may be there, and run, when main is where.
Turns ==
    /\ \A f, g \in Kinds : Present(f) /\ Present(g) => f = g
    /\ \A f \in Kinds : Running(f) => main \in {"sleep", "pause"}
    /\ mode = "afl" => /\ main \notin {"start", "launch", "pause"}
                       /\ \A f \in Kinds : Present(f) => Running(f) /\ f = which

\* What the two checks counted, until main acts on it.
Counts ==
    /\ main = "launch" /\ alive < 1 => \A f \in Kinds : ~Present(f)
    /\ main = "pause" /\ alive = 0 => \A f \in Kinds : ~Running(f)

FuzzInv == FuzzTypeOK /\ Turns /\ Counts /\ CrashesReachPool

-----------------------------------------------------------------------------
\* afl-whatsup's count is a number, and 0 only if it met nobody.
LEMMA Counted ==
    ASSUME FuzzTypeOK
    PROVE  /\ Cardinality(AliveFuzzers) \in Nat
           /\ Cardinality(AliveFuzzers) = 0 => \A f \in Kinds : ~Present(f)
  <1>1. IsFiniteSet(Kinds)
    <2>1. IsFiniteSet({"crash"})
      BY FS_Singleton
    <2>2. IsFiniteSet({"crash"} \cup {"normal"})
      BY <2>1, FS_AddElement
    <2>3. Kinds = {"crash"} \cup {"normal"}
      BY DEF Kinds
    <2>4. QED  BY <2>2, <2>3
  <1>2. AliveFuzzers \in SUBSET Kinds
    BY DEF AliveFuzzers
  <1>3. IsFiniteSet(AliveFuzzers)
    BY <1>1, <1>2, FS_Subset
  <1>4. Cardinality(AliveFuzzers) = 0 => AliveFuzzers = {}
    BY <1>3, FS_EmptySet
  <1>5. QED  BY <1>3, <1>4, FS_CardinalityType DEF AliveFuzzers, Present

\* No fuzzer is there at the start.
LEMMA FuzzInvInit == Init => FuzzInv
  BY DEF Init, FuzzInv, FuzzTypeOK, Turns, Counts, CrashesReachPool,
         Present, Running, Kinds

\* A step that does not lead to inference has nothing to show for the pool.
LEMMA NotInferring ==
    ASSUME main' # "infer"
    PROVE  CrashesReachPool'
  BY DEF CrashesReachPool

\* The fuzzers' own steps are taken while main sleeps or is about to pause.
LEMMA FuzzerSteps ==
    ASSUME FuzzInv, Find \/ FuzzerEnds
    PROVE  FuzzInv'
  <1>1. FuzzTypeOK /\ Turns /\ Counts
    BY DEF FuzzInv
  <1>2. /\ UNCHANGED <<mode, main, which, alive, passTests>>
        /\ \E f \in Kinds : Running(f)
    BY DEF Find, FuzzerEnds, config, control, Running
  <1>3. main \in {"sleep", "pause"}
    BY <1>1, <1>2 DEF Turns
  <1>4. CrashesReachPool'
    BY <1>2, <1>3, NotInferring
  <1>5. CASE Find
    <2>1. fuzzers' = fuzzers
      BY <1>5 DEF Find, control
    <2>2. QED  BY <1>1, <1>2, <1>4, <2>1 DEF FuzzInv, FuzzTypeOK, Turns, Counts, Present, Running
  <1>6. CASE FuzzerEnds
    <2>1. PICK f \in Kinds : fuzzers' = [fuzzers EXCEPT ![f] = "ended"]
      BY <1>6 DEF FuzzerEnds
    <2>2. FuzzTypeOK'
      BY <1>1, <1>2, <2>1 DEF FuzzTypeOK
    <2>3. \A g \in Kinds : (Present(g)' => Present(g)) /\ (Running(g)' <=> Running(g) /\ g # f)
                           /\ (Present(g)' <=> Present(g) /\ g # f)
      BY <1>1, <2>1 DEF FuzzTypeOK, Present, Running
    <2>4. Turns' /\ Counts'
      BY <1>1, <1>2, <2>3 DEF Turns, Counts
    <2>5. QED  BY <1>4, <2>2, <2>4 DEF FuzzInv
  <1>7. QED  BY <1>5, <1>6

\* main's steps in the AFL mode, where a fuzzer is run to its end.
LEMMA AFLSteps ==
    ASSUME FuzzInv, StartAFL \/ EndAFL
    PROVE  FuzzInv'
  <1>1. FuzzTypeOK /\ Turns /\ Counts
    BY DEF FuzzInv
  <1>2. mode = "afl" /\ UNCHANGED <<mode, alive, passTests>>
    BY DEF StartAFL, EndAFL, config
  <1>3. CASE StartAFL
    <2>1. /\ main = "fuzz" /\ main' = "sleep" /\ which' = which
          /\ fuzzers' = [fuzzers EXCEPT ![which] = "running"]
      BY <1>3 DEF StartAFL
    <2>2. FuzzTypeOK'
      BY <1>1, <1>2, <2>1 DEF FuzzTypeOK
    <2>3. \A f \in Kinds : ~Present(f)
      BY <1>1, <1>2, <2>1 DEF Turns
    <2>4. \A f \in Kinds : Present(f)' => f = which /\ Running(f)'
      BY <1>1, <2>1, <2>3 DEF FuzzTypeOK, Present, Running
    <2>5. Turns' /\ Counts'
      BY <1>1, <1>2, <2>1, <2>4 DEF Turns, Counts
    <2>6. CrashesReachPool'
      BY <1>2, <2>1, NotInferring
    <2>7. QED  BY <2>2, <2>5, <2>6 DEF FuzzInv
  <1>4. CASE EndAFL
    <2>1. /\ main = "sleep" /\ fuzzers' = [fuzzers EXCEPT ![which] = "ended"]
          /\ main' \in {"fuzz", "collect"} /\ which' \in Kinds
      BY <1>4 DEF EndAFL, NextRun, Kinds
    <2>2. FuzzTypeOK'
      BY <1>1, <1>2, <2>1 DEF FuzzTypeOK
    <2>3. \A f \in Kinds : ~Present(f)' /\ ~Running(f)'
      BY <1>1, <1>2, <2>1 DEF FuzzTypeOK, Turns, Present, Running
    <2>4. Turns' /\ Counts'
      BY <1>2, <2>1, <2>3 DEF Turns, Counts
    <2>5. CrashesReachPool'
      BY <1>2, <2>1, NotInferring
    <2>6. QED  BY <2>2, <2>4, <2>5 DEF FuzzInv
  <1>5. QED  BY <1>3, <1>4

\* main's steps in a cycle of DAFL or AFLGo.
LEMMA CycleSteps ==
    ASSUME FuzzInv, StartCycle \/ CheckBefore \/ Launch \/ CheckAfter \/ Pause
    PROVE  FuzzInv'
  <1>1. FuzzTypeOK /\ Turns /\ Counts
    BY DEF FuzzInv
  <1>2. UNCHANGED <<mode, passTests>>
    BY DEF StartCycle, CheckBefore, Launch, CheckAfter, Pause, config
  <1>3. mode = "dafl"
    BY <1>1 DEF StartCycle, CheckBefore, Launch, CheckAfter, Pause, Turns, FuzzTypeOK
  <1>4. main' # "infer"
    BY DEF StartCycle, CheckBefore, Launch, CheckAfter, Pause, NextRun
  <1>5. CrashesReachPool'
    BY <1>2, <1>4, NotInferring
  <1>6. /\ Cardinality(AliveFuzzers) \in Nat
        /\ Cardinality(AliveFuzzers) = 0 => \A f \in Kinds : ~Present(f)
    BY <1>1, Counted
  <1>7. CASE StartCycle
    <2>1. /\ main = "start" /\ main' \in {"save", "fuzz"}
          /\ UNCHANGED <<which, alive, fuzzers>>
      BY <1>7 DEF StartCycle, control
    <2>2. FuzzTypeOK' /\ Turns' /\ Counts'
      BY <1>1, <1>2, <1>3, <2>1 DEF FuzzTypeOK, Turns, Counts, Present, Running
    <2>3. QED  BY <1>5, <2>2 DEF FuzzInv
  <1>8. CASE CheckBefore \/ CheckAfter
    <2>1. /\ alive' = Cardinality(AliveFuzzers) /\ UNCHANGED <<which, fuzzers>>
          /\ \/ main = "fuzz" /\ main' = "launch"
             \/ main = "sleep" /\ main' = "pause"
      BY <1>8 DEF CheckBefore, CheckAfter
    <2>2. \A f \in Kinds : (Present(f)' <=> Present(f)) /\ (Running(f)' <=> Running(f))
      BY <2>1 DEF Present, Running
    <2>3. \A f \in Kinds : Running(f) => Present(f)
      BY DEF Present, Running
    <2>4. FuzzTypeOK' /\ Turns'
      BY <1>1, <1>2, <1>3, <1>6, <2>1, <2>2 DEF FuzzTypeOK, Turns
    <2>5. Counts'
      BY <1>6, <2>1, <2>2, <2>3 DEF Counts
    <2>6. QED  BY <1>5, <2>4, <2>5 DEF FuzzInv
  <1>9. CASE Launch
    <2>1. /\ main = "launch" /\ main' = "sleep" /\ which' = which /\ alive' = 0
          /\ fuzzers' = IF alive < 1 THEN [fuzzers EXCEPT ![which] = "running"]
                                     ELSE SetAll("paused", "running")
      BY <1>9 DEF Launch
    <2>2. CASE alive < 1
      <3>1. \A f \in Kinds : ~Present(f)
        BY <1>1, <2>1, <2>2 DEF Counts
      <3>2. fuzzers' = [fuzzers EXCEPT ![which] = "running"]
        BY <2>1, <2>2
      <3>3. FuzzTypeOK' /\ \A f \in Kinds : Present(f)' => f = which
        BY <1>1, <1>2, <2>1, <3>1, <3>2 DEF FuzzTypeOK, Present
      <3>4. Turns' /\ Counts'
        BY <1>2, <1>3, <2>1, <3>3 DEF Turns, Counts
      <3>5. QED  BY <1>5, <3>3, <3>4 DEF FuzzInv
    <2>3. CASE ~(alive < 1)
      <3>1. fuzzers' = SetAll("paused", "running")
        BY <2>1, <2>3
      <3>2. FuzzTypeOK' /\ \A f \in Kinds : Present(f)' => Present(f)
        BY <1>1, <1>2, <2>1, <3>1 DEF FuzzTypeOK, Present, SetAll
      <3>3. Turns' /\ Counts'
        BY <1>1, <1>2, <1>3, <2>1, <3>2 DEF Turns, Counts
      <3>4. QED  BY <1>5, <3>2, <3>3 DEF FuzzInv
    <2>4. QED  BY <2>2, <2>3
  <1>10. CASE Pause
    <2>1. /\ main = "pause" /\ main' \in {"fuzz", "collect"} /\ which' \in Kinds /\ alive' = 0
          /\ fuzzers' = IF alive > 0 THEN SetAll("running", "paused") ELSE fuzzers
      BY <1>10 DEF Pause, NextRun, Kinds
    <2>2. FuzzTypeOK' /\ \A f \in Kinds : (Present(f)' => Present(f)) /\ ~Running(f)'
      <3>1. CASE alive > 0
        BY <1>1, <1>2, <2>1, <3>1 DEF FuzzTypeOK, Present, Running, SetAll
      <3>2. CASE alive = 0
        BY <1>1, <1>2, <2>1, <3>2 DEF FuzzTypeOK, Present, Running, Counts
      <3>3. QED  BY <1>1, <3>1, <3>2 DEF FuzzTypeOK
    <2>3. Turns' /\ Counts'
      BY <1>1, <1>2, <1>3, <2>1, <2>2 DEF Turns, Counts
    <2>4. QED  BY <1>5, <2>2, <2>3 DEF FuzzInv
  <1>11. QED  BY <1>7, <1>8, <1>9, <1>10

\* The last steps of a cycle, and of main, with the pool as it is.
LEMMA InferSteps ==
    ASSUME FuzzInv, Infer \/ SaveInvariantResult
    PROVE  FuzzInv'
  <1>1. FuzzTypeOK /\ Turns /\ Counts
    BY DEF FuzzInv
  <1>2. /\ UNCHANGED <<mode, which, alive, fuzzers>>
        /\ \/ main = "infer" /\ passTests' = {}
           \/ main = "save" /\ passTests' = passTests
        /\ main' \in {"save", "start", "error", "done"}
        /\ main' = "start" => mode # "afl"
    BY DEF Infer, SaveInvariantResult, config, control
  <1>3. FuzzTypeOK' /\ Turns' /\ Counts'
    BY <1>1, <1>2 DEF FuzzTypeOK, Turns, Counts, Present, Running
  <1>4. CrashesReachPool'
    BY <1>2 DEF FuzzInv, CrashesReachPool
  <1>5. QED  BY <1>3, <1>4 DEF FuzzInv

\* What is inserted is known afterwards, new or not.
LEMMA InsertedIsKnown ==
    ASSUME NEW P, NEW F, AddNewSnapshots(P, F)
    PROVE  P \cup F \subseteq snapshot_hashes'
  BY DEF AddNewSnapshots, NewSnapshots

\* The inputs that a collection keeps, by the results of its three runs.
RawFailing(f1) == IF mode = "dafl" THEN RawFails(crashes, f1) ELSE crashes
RawPassing(f1, f2) == IF mode = "dafl" THEN RawPasses(RawFailing(f1), f2) ELSE normals
Passing(f1, f2, f3) == ProcessRawInputs(RawPassing(f1, f2), "passing", f3, {})
Failing(f1, f2, f3) == ProcessRawInputs({Exploit} \cup RawFailing(f1), "failing", f3,
                                        {Shots[t] : t \in Passing(f1, f2, f3)})

(***************************************************************************)
(* A crash that can be reproduced is among the failing inputs, unless its  *)
(* snapshots are those of a passing one.                                   *)
(***************************************************************************)
LEMMA CrashIsCollected ==
    ASSUME NEW f1, NEW f2, NEW f3, NEW t \in {Exploit} \cup crashes,
           t \notin Flaky, Result[t] = "failing"
    PROVE  \/ t \in Failing(f1, f2, f3)
           \/ \E p \in Passing(f1, f2, f3) : Shots[p] = Shots[t]
  <1>1. t \in {Exploit} \cup RawFailing(f1)
    BY DEF RawFailing, RawFails, Classified
  <1>2. t \in Classified({Exploit} \cup RawFailing(f1), "failing", f3)
    BY <1>1 DEF Classified
  <1>3. QED  BY <1>2 DEF Failing, ProcessRawInputs

\* The collection of the inputs found so far.
LEMMA CollectStep ==
    ASSUME FuzzInv, Collect \/ CollectRaises
    PROVE  FuzzInv'
  <1>1. FuzzTypeOK /\ Turns /\ Counts
    BY DEF FuzzInv
  <1>2. main = "collect" /\ UNCHANGED <<mode, which, alive, fuzzers, crashes>>
    BY DEF Collect, CollectRaises, config, control, found
  <1>3. main' \in {"infer", "error"}
    BY DEF Collect, CollectRaises
  <1>4. FuzzTypeOK' /\ Turns' /\ Counts'
    BY <1>1, <1>2, <1>3 DEF FuzzTypeOK, Turns, Counts, Present, Running
  <1>5. CASE CollectRaises
    <2>1. CrashesReachPool'
      BY <1>5, NotInferring DEF CollectRaises
    <2>2. QED  BY <1>4, <2>1 DEF FuzzInv
  <1>6. CASE Collect
    <2>1. PICK f1, f2, f3 \in SUBSET Flaky, C \in SUBSET Vars :
             /\ PostProcessInitial(
                   (UNION {Shots[t].before \cup {Shots[t].last} : t \in Passing(f1, f2, f3)})
                      \cup (UNION {Shots[t].before : t \in Failing(f1, f2, f3)}),
                   {Shots[t].last : t \in Failing(f1, f2, f3)}, C)
             /\ passTests' = Passing(f1, f2, f3)
             /\ main' = IF status' = "ready" THEN "infer" ELSE "error"
      BY <1>6 DEF Collect, Passing, Failing, RawPassing, RawFailing
    <2> DEFINE P == Passing(f1, f2, f3)
               F == Failing(f1, f2, f3)
               rp == (UNION {Shots[t].before \cup {Shots[t].last} : t \in P})
                        \cup (UNION {Shots[t].before : t \in F})
               rf == {Shots[t].last : t \in F}
               PP == {PruneSnapshot(ss, C) : ss \in Valid(rp)}
               FF == {PruneSnapshot(ss, C) : ss \in Valid(rf)}
    <2>2. CrashesReachPool'
      <3> SUFFICES ASSUME main' = "infer", NEW t \in {Exploit} \cup crashes,
                          t \notin Flaky, Result[t] = "failing", Keys(Shots[t].last) # {}
                   PROVE  PruneSnapshot(Shots[t].last, candidate_variables') \in snapshot_hashes'
        BY <1>2 DEF CrashesReachPool
      <3>1. status' = "ready" /\ PostProcessInitial(rp, rf, C)
        BY <2>1
      <3>2. Shots[t].last \in rp \/ Shots[t].last \in rf
        <4>1. CASE t \in F
          BY <4>1
        <4>2. CASE \E p \in P : Shots[p] = Shots[t]
          <5>1. PICK p \in P : Shots[p] = Shots[t]
            BY <4>2
          <5>2. Shots[t].last \in Shots[p].before \cup {Shots[p].last}
            BY <5>1
          <5>3. QED  BY <5>2
        <4>3. QED  BY <4>1, <4>2, CrashIsCollected
      <3> HIDE DEF rp, rf
      <3>3. candidate_variables' = C /\ AddNewSnapshots(PP, FF)
        BY <3>1 DEF PostProcessInitial
      <3>4. PruneSnapshot(Shots[t].last, C) \in PP \cup FF
        BY <3>2 DEF Valid
      <3>5. QED  BY <3>3, <3>4, InsertedIsKnown
    <2>3. QED  BY <1>4, <2>2 DEF FuzzInv
  <1>7. QED  BY <1>5, <1>6

\* Every step of main and of the fuzzers preserves the invariant.
LEMMA FuzzInvNext == FuzzInv /\ [Next]_vars => FuzzInv'
  <1> SUFFICES ASSUME FuzzInv, [Next]_vars PROVE FuzzInv'
    OBVIOUS
  <1>1. CASE Next
    BY <1>1, FuzzerSteps, AFLSteps, CycleSteps, CollectStep, InferSteps DEF Next
  <1>2. CASE UNCHANGED vars
    <2>1. UNCHANGED <<mode, main, which, alive, fuzzers, crashes, passTests, snapshot_hashes,
                      candidate_variables>>
      BY <1>2 DEF vars, poolVars, config, control, found
    <2>2. FuzzTypeOK' /\ Turns' /\ Counts'
      BY <2>1 DEF FuzzInv, FuzzTypeOK, Turns, Counts, Present, Running
    <2>3. CrashesReachPool'
      BY <2>1 DEF FuzzInv, CrashesReachPool
    <2>4. QED  BY <2>2, <2>3 DEF FuzzInv
  <1>3. QED  BY <1>1, <1>2

-----------------------------------------------------------------------------
\* The inductive invariant holds in every run of the fuzzing modes.
THEOREM FuzzInvariant == Spec => []FuzzInv
  BY FuzzInvInit, FuzzInvNext, PTL DEF Spec

(***************************************************************************)
(* The count of afl-whatsup may be stale when main starts, resumes or      *)
(* pauses: no fuzzer runs while the output directories are read, and       *)
(* there are never two that run.                                           *)
(***************************************************************************)
THEOREM FuzzFuzzerQuiet == Spec => []FuzzerQuiet
  <1>1. FuzzInv => FuzzerQuiet
    <2> SUFFICES ASSUME FuzzInv PROVE FuzzerQuiet
      OBVIOUS
    <2> DEFINE R == {f \in Kinds : fuzzers[f] = "running"}
    <2>1. main \in {"collect", "infer", "save", "done"} => \A f \in Kinds : fuzzers[f] # "running"
      BY DEF FuzzInv, Turns, Running
    <2>2. R = {} \/ \E f : R = {f}
      BY DEF FuzzInv, Turns, Present
    <2>3. Cardinality(R) <= 1
      <3>1. CASE R = {}
        BY <3>1, FS_EmptySet
      <3>2. CASE \E f : R = {f}
        BY <3>2, FS_Singleton
      <3>3. QED  BY <2>2, <3>1, <3>2
    <2>4. QED  BY <2>1, <2>3 DEF FuzzerQuiet
  <1>2. QED  BY <1>1, FuzzInvariant, PTL

(***************************************************************************)
(* Whatever passes or fails at random in three runs of an input, a         *)
(* reproducible crash is known to the pool when inference starts, in the   *)
(* variables chosen in this cycle.                                         *)
(***************************************************************************)
THEOREM FuzzCrashesReachPool == Spec => []CrashesReachPool
  <1>1. FuzzInv => CrashesReachPool
    BY DEF FuzzInv
  <1>2. QED  BY <1>1, FuzzInvariant, PTL

-----------------------------------------------------------------------------
\* The snapshots of runs are snapshots.
LEMMA ShotsAreSnapshots ==
    ASSUME NEW S \in SUBSET Tests, NEW t \in S
    PROVE  Shots[t].before \subseteq Snapshot /\ Shots[t].last \in Snapshot
  BY TestsAssumption, InputsAssumption

\* An error elsewhere leaves the pool as it is.
LEMMA ErrorKeepsPool ==
    ASSUME PoolInv, status' = "error",
           UNCHANGED <<pass_ss, fail_ss, snapshot_hashes, candidate_variables, cycle>>
    PROVE  PoolInv'
  <1>1. PoolTypeOK'
    BY DEF PoolInv, PoolTypeOK, IsList
  <1>2. EntriesFaithful'
    BY DEF PoolInv, EntriesFaithful, PoolKeys, PoolDicts, Dicts
  <1>3. QED  BY <1>1, <1>2 DEF PoolInv, KeysWithinCandidates, HashesInUse

\* The directories hold tests, and the pool keeps its invariant.
FuzzPoolInv == crashes \subseteq Tests /\ normals \subseteq Tests /\ PoolInv

\* A collection inserts snapshots, however many.
LEMMA CollectInserts ==
    ASSUME FuzzPoolInv, Collect \/ CollectRaises
    PROVE  FuzzPoolInv'
  <1>1. UNCHANGED <<crashes, normals>>
    BY DEF Collect, CollectRaises, found
  <1>2. CASE CollectRaises
    BY <1>1, <1>2, ErrorKeepsPool DEF CollectRaises, FuzzPoolInv
  <1>3. CASE Collect
    <2>1. PICK f1, f2, f3 \in SUBSET Flaky, C \in SUBSET Vars :
             PostProcessInitial(
                   (UNION {Shots[t].before \cup {Shots[t].last} : t \in Passing(f1, f2, f3)})
                      \cup (UNION {Shots[t].before : t \in Failing(f1, f2, f3)}),
                   {Shots[t].last : t \in Failing(f1, f2, f3)}, C)
      BY <1>3 DEF Collect, Passing, Failing, RawPassing, RawFailing
    <2> DEFINE P == Passing(f1, f2, f3)
               F == Failing(f1, f2, f3)
               rp == (UNION {Shots[t].before \cup {Shots[t].last} : t \in P})
                        \cup (UNION {Shots[t].before : t \in F})
               rf == {Shots[t].last : t \in F}
    <2>2. Exploit \in Tests
      BY TestsAssumption
    <2>3. P \in SUBSET Tests /\ F \in SUBSET Tests
      BY <2>2 DEF FuzzPoolInv, Passing, Failing, RawPassing, RawFailing, ProcessRawInputs,
                  RawPasses, RawFails, Classified
    <2> HIDE DEF P, F
    <2>4. rp \in SUBSET Snapshot /\ rf \in SUBSET Snapshot
      <3>1. \A t \in P \cup F : Shots[t].before \subseteq Snapshot /\ Shots[t].last \in Snapshot
        BY <2>3, ShotsAreSnapshots
      <3>2. QED  BY <3>1
    <2>5. PostProcessInitial(rp, rf, C)
      BY <2>1 DEF P, F
    <2> HIDE DEF rp, rf
    <2>6. PoolInv'
      BY <2>4, <2>5, InitialStep DEF FuzzPoolInv
    <2>7. QED  BY <1>1, <2>6 DEF FuzzPoolInv
  <1>4. QED  BY <1>2, <1>3

(***************************************************************************)
(* However many inputs the fuzzers find and in however many cycles they    *)
(* are processed, all snapshots that inference is given have the same      *)
(* keys, although each cycle may choose other variables.                   *)
(***************************************************************************)
THEOREM FuzzUniversalKeys == Spec => []UniversalKeys
  <1>1. Init => FuzzPoolInv
    BY PoolInvInit DEF Init, FuzzPoolInv
  <1>2. FuzzPoolInv /\ [Next]_vars => FuzzPoolInv'
    <2> SUFFICES ASSUME FuzzPoolInv, [Next]_vars PROVE FuzzPoolInv'
      OBVIOUS
    <2>1. CASE Collect \/ CollectRaises
      BY <2>1, CollectInserts
    <2>2. CASE Infer
      <3>1. UNCHANGED <<crashes, normals>>
        BY <2>2 DEF Infer, found
      <3>2. UNCHANGED <<pass_ss, fail_ss, snapshot_hashes, candidate_variables, cycle>>
        BY <2>2 DEF Infer
      <3>3. CASE status' = status
        <4>1. UNCHANGED poolVars
          BY <3>2, <3>3 DEF poolVars
        <4>2. QED  BY <3>1, <4>1, PoolInvNext DEF FuzzPoolInv
      <3>4. CASE status' = "error"
        BY <3>1, <3>2, <3>4, ErrorKeepsPool DEF FuzzPoolInv
      <3>5. QED  BY <2>2, <3>3, <3>4 DEF Infer
    <2>3. CASE \/ Find \/ FuzzerEnds \/ StartAFL \/ EndAFL \/ StartCycle \/ CheckBefore
               \/ Launch \/ CheckAfter \/ Pause \/ SaveInvariantResult \/ UNCHANGED vars
      <3>1. UNCHANGED poolVars
        BY <2>3 DEF Find, FuzzerEnds, StartAFL, EndAFL, StartCycle, CheckBefore, Launch,
                    CheckAfter, Pause, SaveInvariantResult, vars
      <3>2. (crashes \subseteq Tests /\ normals \subseteq Tests)'
        BY <2>3 DEF Find, FuzzerEnds, StartAFL, EndAFL, StartCycle, CheckBefore, Launch,
                    CheckAfter, Pause, SaveInvariantResult, vars, found, FuzzPoolInv
      <3>3. QED  BY <3>1, <3>2, PoolInvNext DEF FuzzPoolInv
    <2>4. QED  BY <2>1, <2>2, <2>3 DEF Next
  <1>3. FuzzPoolInv => UniversalKeys
    BY FaithfulKeys DEF FuzzPoolInv, PoolInv
  <1>4. QED  BY <1>1, <1>2, <1>3, PTL DEF Spec

-----------------------------------------------------------------------------
(***************************************************************************)
(* Concentrated fuzzing, for any number of seeds, any lengths of them, any *)
(* hashes and any number of runs.  A test enters a directory under a       *)
(* number that no file of it has yet, which is why the property needs the  *)
(* numbers: the files of a directory are 1 .. its counter, and in fail_dir *)
(* the exploit, as number 0.                                               *)
(***************************************************************************)

\* The files of a directory are numbered without a gap up to its counter.
Numbered == /\ pass_count \in Nat /\ DOMAIN pass_dir = 1..pass_count
            /\ fail_count \in Nat /\ DOMAIN fail_dir = 0..fail_count
            /\ fail_dir[0].run = 0

\* EveryStateHasItsTest as a statement about any set of tests and hashes.
StatesHaveTests(tests, skipped, hashes) ==
    /\ \A t \in tests : t.from = t.run
    /\ \A t, u \in tests : t.hash = u.hash => t = u
    /\ {t.hash : t \in tests} \cup skipped = hashes

ConcInv == Numbered /\ StatesHaveTests(Found, unclassified, hash_set)

\* A file with a new number is added to a directory, and replaces none.
LEMMA FileAdded ==
    ASSUME NEW dir, NEW n \in Nat, DOMAIN dir \in {0..n, 1..n}, NEW test
    PROVE  /\ DOMAIN SaveTest(dir, n + 1, test) = DOMAIN dir \cup {n + 1}
           /\ Files(SaveTest(dir, n + 1, test), n + 1) = Files(dir, n) \cup {test}
           /\ DOMAIN dir = 0..n => SaveTest(dir, n + 1, test)[0] = dir[0]
  <1> DEFINE new == SaveTest(dir, n + 1, test)
  <1>1. DOMAIN new = DOMAIN dir \cup {n + 1}
    BY DEF SaveTest
  <1>2. \A i \in DOMAIN dir \cup {n + 1} : new[i] = IF i = n + 1 THEN test ELSE dir[i]
    BY DEF SaveTest
  <1> HIDE DEF new
  <1>3. \A i \in 1..(n + 1) : new[i] = IF i = n + 1 THEN test ELSE dir[i]
    BY <1>2
  <1>4. Files(new, n + 1) = Files(dir, n) \cup {test}
    BY <1>3 DEF Files
  <1>5. DOMAIN dir = 0..n => new[0] = dir[0]
    BY <1>2
  <1>6. QED  BY <1>1, <1>4, <1>5 DEF new

\* A test of its own run with a new hash joins the others.
LEMMA TestAdded ==
    ASSUME NEW tests, NEW skipped, NEW hashes, StatesHaveTests(tests, skipped, hashes),
           NEW test, test.from = test.run, test.hash \notin hashes
    PROVE  StatesHaveTests(tests \cup {test}, skipped, hashes \cup {test.hash})
  BY DEF StatesHaveTests

\* A hash that gets no test is either known or remembered as skipped.
LEMMA HashSkipped ==
    ASSUME NEW tests, NEW skipped, NEW hashes, StatesHaveTests(tests, skipped, hashes), NEW h
    PROVE  /\ h \in hashes => StatesHaveTests(tests, skipped, hashes \cup {h})
           /\ StatesHaveTests(tests, skipped \cup {h}, hashes \cup {h})
  BY DEF StatesHaveTests

\* No seed has been looked at when fuzzing starts.
LEMMA ConcInvInit == ConcInit => ConcInv
  BY DEF ConcInit, ConcInv, Numbered, StatesHaveTests, Found, Files

(***************************************************************************)
(* What is done with a run whose file is its own: the state gets a test, a *)
(* place among the unclassified ones, or was known.                        *)
(***************************************************************************)
LEMMA KeepTestSound ==
    ASSUME ConcInv, NEW file, file.run = runs', NEW result \in Results, KeepTest(file, result)
    PROVE  ConcInv'
  <1> DEFINE test == [run |-> runs', hash |-> file.hash, from |-> file.run]
             new == file.hash \notin hash_set
  <1>1. test.from = test.run /\ test.hash = file.hash
    OBVIOUS
  <1>2. hash_set' = hash_set \cup {file.hash}
    BY DEF KeepTest
  <1>3. Numbered /\ StatesHaveTests(Found, unclassified, hash_set)
    BY DEF ConcInv
  <1>4. CASE new /\ result = "passing"
    <2>1. /\ pass_count' = pass_count + 1 /\ pass_dir' = SaveTest(pass_dir, pass_count + 1, test)
          /\ UNCHANGED <<fail_count, fail_dir, unclassified>>
      BY <1>4 DEF KeepTest
    <2> HIDE DEF test
    <2>2. /\ DOMAIN pass_dir' = 1..(pass_count + 1)
          /\ Files(pass_dir', pass_count + 1) = Files(pass_dir, pass_count) \cup {test}
      <3>1. pass_count \in Nat /\ DOMAIN pass_dir = 1..pass_count
        BY <1>3 DEF Numbered
      <3>2. DOMAIN pass_dir \in {0..pass_count, 1..pass_count}
        BY <3>1
      <3>3. /\ DOMAIN SaveTest(pass_dir, pass_count + 1, test) = DOMAIN pass_dir \cup {pass_count + 1}
            /\ Files(SaveTest(pass_dir, pass_count + 1, test), pass_count + 1)
                  = Files(pass_dir, pass_count) \cup {test}
            /\ DOMAIN pass_dir = 0..pass_count
                  => SaveTest(pass_dir, pass_count + 1, test)[0] = pass_dir[0]
        BY <3>1, <3>2, FileAdded
      <3>4. DOMAIN pass_dir' = 1..(pass_count + 1)
        <4>1. DOMAIN pass_dir' = (1..pass_count) \cup {pass_count + 1}
          BY <2>1, <3>1, <3>3
        <4>2. (1..pass_count) \cup {pass_count + 1} = 1..(pass_count + 1)
          BY <3>1
        <4>3. QED  BY <4>1, <4>2
      <3>5. Files(pass_dir', pass_count + 1) = Files(pass_dir, pass_count) \cup {test}
        BY <2>1, <3>3 DEF Files
      <3>6. QED  BY <3>4, <3>5
    <2>3. Numbered'
      BY <1>3, <2>1, <2>2 DEF Numbered
    <2>4. Found' = Found \cup {test}
      BY <2>1, <2>2 DEF Found
    <2>5. QED  BY <1>1, <1>2, <1>3, <1>4, <2>1, <2>3, <2>4, TestAdded DEF ConcInv
  <1>5. CASE new /\ result = "failing"
    <2>1. /\ fail_count' = fail_count + 1 /\ fail_dir' = SaveTest(fail_dir, fail_count + 1, test)
          /\ UNCHANGED <<pass_count, pass_dir, unclassified>>
      BY <1>5 DEF KeepTest
    <2> HIDE DEF test
    <2>2. /\ DOMAIN fail_dir' = 0..(fail_count + 1)
          /\ Files(fail_dir', fail_count + 1) = Files(fail_dir, fail_count) \cup {test}
          /\ fail_dir'[0] = fail_dir[0]
      <3>1. fail_count \in Nat /\ DOMAIN fail_dir = 0..fail_count
        BY <1>3 DEF Numbered
      <3>2. DOMAIN fail_dir \in {0..fail_count, 1..fail_count}
        BY <3>1
      <3>3. /\ DOMAIN SaveTest(fail_dir, fail_count + 1, test) = DOMAIN fail_dir \cup {fail_count + 1}
            /\ Files(SaveTest(fail_dir, fail_count + 1, test), fail_count + 1)
                  = Files(fail_dir, fail_count) \cup {test}
            /\ DOMAIN fail_dir = 0..fail_count
                  => SaveTest(fail_dir, fail_count + 1, test)[0] = fail_dir[0]
        BY <3>1, <3>2, FileAdded
      <3>4. DOMAIN fail_dir' = 0..(fail_count + 1)
        <4>1. DOMAIN fail_dir' = (0..fail_count) \cup {fail_count + 1}
          BY <2>1, <3>1, <3>3
        <4>2. (0..fail_count) \cup {fail_count + 1} = 0..(fail_count + 1)
          BY <3>1
        <4>3. QED  BY <4>1, <4>2
      <3>5. Files(fail_dir', fail_count + 1) = Files(fail_dir, fail_count) \cup {test}
        BY <2>1, <3>3 DEF Files
      <3>6. fail_dir'[0] = fail_dir[0]
        BY <2>1, <3>1, <3>3
      <3>7. QED  BY <3>4, <3>5, <3>6
    <2>3. Numbered'
      BY <1>3, <2>1, <2>2 DEF Numbered
    <2>4. Found' = Found \cup {test}
      BY <2>1, <2>2 DEF Found
    <2>5. QED  BY <1>1, <1>2, <1>3, <1>5, <2>1, <2>3, <2>4, TestAdded DEF ConcInv
  <1>6. CASE ~new \/ result = "unclassified"
    <2>1. /\ UNCHANGED <<pass_count, pass_dir, fail_count, fail_dir>>
          /\ unclassified' = IF new THEN unclassified \cup {file.hash} ELSE unclassified
      BY <1>6 DEF KeepTest, Results
    <2>2. Found' = Found /\ Numbered'
      BY <1>3, <2>1 DEF Found, Numbered
    <2>3. QED  BY <1>2, <1>3, <2>1, <2>2, HashSkipped DEF ConcInv
  <1>7. QED  BY <1>4, <1>5, <1>6 DEF Results

\* Every step of main, and the clock, preserves the invariant.
LEMMA ConcInvNext == ConcInv /\ [ConcNext]_concVars => ConcInv'
  <1> SUFFICES ASSUME ConcInv, [ConcNext]_concVars PROVE ConcInv'
    OBVIOUS
  <1>1. ASSUME UNCHANGED <<hash_set, counters, unclassified>> PROVE ConcInv'
    BY <1>1 DEF ConcInv, Numbered, StatesHaveTests, Found, counters
  <1>2. CASE FuzzByte
    <2>1. PICK file \in {OldFiles} \cup [run : {runs'}, hash : Hashes] :
             \/ UNCHANGED <<hash_set, counters, unclassified>>
             \/ /\ file # NoFile
                /\ \E result \in Results : KeepTest(file, result)
      BY <1>2 DEF FuzzByte
    <2>2. file # NoFile => file.run = runs'
      BY DEF OldFiles
    <2>3. QED  BY <1>1, <2>1, <2>2, KeepTestSound
  <1>3. CASE ConcNext /\ ~FuzzByte
    BY <1>1, <1>3 DEF ConcNext, Main, NextSeed, AllSeedsDone, InferSensitivity, MapInferred,
                      StartFuzzing, TimeIsUp, SkipSensitive, NewRound, Clock, fuzzVars
  <1>4. CASE UNCHANGED concVars
    BY <1>1, <1>4 DEF concVars, fuzzVars
  <1>5. QED  BY <1>2, <1>3, <1>4

\* The inductive invariant holds throughout concentrated fuzzing.
THEOREM ConcInvariant == ConcSpec => []ConcInv
  BY ConcInvInit, ConcInvNext, PTL DEF ConcSpec

(***************************************************************************)
(* Whatever runs are killed and leave a snapshot file behind, and however  *)
(* the time is split between the seeds: fuzz_with_sensitivity_map keeps    *)
(* exactly one test, of its own run, for each state it remembers, the ones *)
(* first seen in an unclassified run excepted, beside the exploit.         *)
(***************************************************************************)
THEOREM ConcStatesHaveTests == ConcSpec => []EveryStateHasItsTest
  <1>1. ConcInv => EveryStateHasItsTest
    BY DEF ConcInv, Numbered, StatesHaveTests, EveryStateHasItsTest
  <1>2. QED  BY <1>1, ConcInvariant, PTL

============================================================================
