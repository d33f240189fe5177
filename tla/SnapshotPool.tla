---------------------------- MODULE SnapshotPool ----------------------------
(***************************************************************************)
(* The pool of program-state snapshots that invariant inference works on   *)
(* (src/snapshot_pool.py), with the sanitising every insertion ends in     *)
(* (src/snapshot.py) and its two callers: the processing of the initial    *)
(* snapshots (src/main.py), done once in the snapshot-fuzzing mode and     *)
(* once per fuzzing cycle in the DAFL and AFLGo modes, and the refiner's   *)
(* insertion of counter-examples (src/ce_refiner.py).                      *)
(*                                                                         *)
(* A snapshot is a dictionary: a function that gives every variable of the *)
(* fix location its value, or Absent when the dictionary lacks the key.    *)
(* The lists pass_ss and fail_ss are functions too: an entry is named by   *)
(* the snapshot whose hash was taken when it was appended (a hash enters   *)
(* once, so the name is unique) and maps to the dictionary the list holds  *)
(* now, which later insertions prune in place.  The lists' order is not    *)
(* observable and is left out; hash collisions are not modelled.           *)
(***************************************************************************)
EXTENDS Integers, FiniteSets

CONSTANTS Vars,         \* the variables visible at the fix location
          Vals,         \* the values a variable may have
          Absent,       \* marks a key that a dictionary does not have
          Inputs,       \* the snapshots that executions may produce
          MaxBatch,     \* bound: snapshots of one label in one insertion
          Refining,     \* TRUE: snapshot fuzzing; FALSE: DAFL/AFLGo cycles
          MaxCycles     \* bound: times the initial snapshots are processed

Snapshot == [Vars -> Vals \cup {Absent}]

ASSUME AbsentAssumption == Absent \notin Vals
ASSUME InputsAssumption == Inputs \subseteq Snapshot
ASSUME ModeAssumption == /\ Refining \in BOOLEAN
                         /\ MaxBatch \in Nat
                         /\ MaxCycles \in Nat \ {0}

VARIABLES pass_ss,              \* entries recorded as passing
          fail_ss,              \* entries recorded as failing
          snapshot_hashes,      \* every snapshot ever appended
          candidate_variables,  \* values.candidate_variables
          cycle,                \* rounds of initial processing so far
          status                \* "ready", or "error": an IndexError ended main

poolVars == <<pass_ss, fail_ss, snapshot_hashes, candidate_variables, cycle, status>>

-----------------------------------------------------------------------------
\* Dictionaries and lists of them

Keys(ss) == {v \in Vars : ss[v] # Absent}

PruneSnapshot(ss, keys) ==
    [v \in Vars |-> IF v \in keys THEN ss[v] ELSE Absent]

Dicts(list) == {list[e] : e \in DOMAIN list}

\* Mutant: the keys some dictionary has.
CommonVarsUnion(dicts) == {v \in Vars : \E ss \in dicts : v \in Keys(ss)}

CommonVars(dicts) == {v \in Vars : \A ss \in dicts : v \in Keys(ss)}

\* Mutant: no pruning when there is no common key.
PruneListUnlessEmpty(list, keys) ==
    [e \in DOMAIN list |-> IF keys = {} THEN list[e] ELSE PruneSnapshot(list[e], keys)]

PruneList(list, keys) == [e \in DOMAIN list |-> PruneSnapshot(list[e], keys)]

\* Mutant: dictionaries with a single key leave too.
RemoveSmall(list) ==
    [e \in {x \in DOMAIN list : Cardinality(Keys(list[x])) > 1} |-> list[e]]

\* remove_invalid_snapshots: the empty dictionaries leave the list.
RemoveInvalid(list) ==
    [e \in {x \in DOMAIN list : Keys(list[x]) # {}} |-> list[e]]

\* Mutant: the new snapshots replace the list.
ExtendReplaces(list, new) == [e \in IF new = {} THEN DOMAIN list ELSE new |->
                                  IF e \in new THEN e ELSE list[e]]

\* The list after the snapshots of new have been appended as they are.
Extend(list, new) == [e \in DOMAIN list \cup new |->
                          IF e \in new THEN e ELSE list[e]]

\* Mutant: the hash set is not asked.
NewSnapshotsAll(batch, hashes) == batch

\* is_new_snapshot: the snapshots of a batch whose hash is not known.
NewSnapshots(batch, hashes) == batch \ hashes

PoolDicts == Dicts(pass_ss) \cup Dicts(fail_ss)

PoolKeys == CommonVars(PoolDicts)

-----------------------------------------------------------------------------
(***************************************************************************)
(* add_new_snapshots: passing snapshots first, then failing ones, each     *)
(* only when its hash is new; then sanitize_snapshots over the whole pool, *)
(* which first drops empty dictionaries and then prunes every dictionary   *)
(* to the keys all of them have.  With no dictionary left, snapshots[0]    *)
(* raises an IndexError that nothing catches.                              *)
(***************************************************************************)
AddNewSnapshots(new_passes, new_fails) ==
    LET np == NewSnapshots(new_passes, snapshot_hashes)
        nf == NewSnapshots(new_fails, snapshot_hashes \cup np)
        ps == RemoveInvalid(Extend(pass_ss, np))
        fs == RemoveInvalid(Extend(fail_ss, nf))
        universal_keys == CommonVars(Dicts(ps) \cup Dicts(fs))
    IN  /\ snapshot_hashes' = snapshot_hashes \cup np \cup nf
        /\ pass_ss' = PruneList(ps, universal_keys)
        /\ fail_ss' = PruneList(fs, universal_keys)
        /\ status' = IF Dicts(ps) \cup Dicts(fs) = {} THEN "error" ELSE "ready"

Valid(batch) == {ss \in batch : Keys(ss) # {}}

Batches == {B \in SUBSET Inputs : Cardinality(B) <= MaxBatch}

\* decide_vars_to_include: its heuristics may keep any of the shared keys.
DecideVarsToInclude(ps, fs) == SUBSET CommonVars(ps \cup fs)

(***************************************************************************)
(* post_process_of_initial_snapshots: sanitise the collected snapshots,    *)
(* choose candidate_variables among the keys they share (the choice, C,    *)
(* reads fail_ss[0]), prune to the choice and insert.                      *)
(***************************************************************************)
PostProcessInitial(raw_pass, raw_fail, C) ==
    LET ps == Valid(raw_pass)
        fs == Valid(raw_fail)
    IN  /\ status = "ready"
        /\ cycle < (IF Refining THEN 1 ELSE MaxCycles)
        /\ cycle' = cycle + 1
        /\ \/ /\ fs = {}
              /\ C = {}
              /\ status' = "error"
              /\ UNCHANGED <<pass_ss, fail_ss, snapshot_hashes, candidate_variables>>
           \/ /\ fs # {}
              /\ C \in DecideVarsToInclude(ps, fs)
              /\ candidate_variables' = C
              /\ AddNewSnapshots({PruneSnapshot(ss, C) : ss \in ps},
                                 {PruneSnapshot(ss, C) : ss \in fs})

\* Mutant: the keys of the counter-examples are appended to the candidates.
AddCounterExamplesAndKeys(ce_pass, ce_fail) ==
    /\ status = "ready" /\ Refining /\ cycle > 0 /\ PoolKeys # {}
    /\ AddNewSnapshots(ce_pass, ce_fail)
    /\ candidate_variables' = candidate_variables \cup {Keys(ss) : ss \in ce_pass}
    /\ UNCHANGED cycle

(***************************************************************************)
(* The insertion of one_step_refinement.  A round runs only while the      *)
(* backend has produced an invariant, hence only while the pool still has  *)
(* a variable to state one about.                                          *)
(***************************************************************************)
AddCounterExamples(ce_pass, ce_fail) ==
    /\ status = "ready"
    /\ Refining
    /\ cycle > 0
    /\ PoolKeys # {}
    /\ AddNewSnapshots(ce_pass, ce_fail)
    /\ UNCHANGED <<candidate_variables, cycle>>

PoolInit ==
    /\ pass_ss = [e \in {} |-> e]
    /\ fail_ss = [e \in {} |-> e]
    /\ snapshot_hashes = {}
    /\ candidate_variables = {}
    /\ cycle = 0
    /\ status = "ready"

PoolNext == \E P, F \in Batches :
               \/ \E C \in SUBSET Vars : PostProcessInitial(P, F, C)
               \/ AddCounterExamples(P, F)

PoolSpec == PoolInit /\ [][PoolNext]_poolVars

-----------------------------------------------------------------------------
\* A list of entries: dictionaries named by the snapshot that was hashed.
IsList(list) == list \in [DOMAIN list -> Snapshot] /\ DOMAIN list \subseteq Snapshot

\* The variables have their types.
PoolTypeOK ==
    /\ IsList(pass_ss)
    /\ IsList(fail_ss)
    /\ snapshot_hashes \subseteq Snapshot
    /\ candidate_variables \subseteq Vars
    /\ cycle \in Nat
    /\ status \in {"ready", "error"}

(***************************************************************************)
(* generate_input_from_snapshots takes the keys of the first snapshot and  *)
(* indexes every other with them; its pre-condition is that all snapshots  *)
(* of the pool, old and new, passing and failing, have the same keys.      *)
(***************************************************************************)
UniversalKeys == \A ss \in PoolDicts : Keys(ss) = PoolKeys

(***************************************************************************)
(* The states offered to inference only speak of candidate variables, as   *)
(* remove_non_universal_variables_from_snapshots says, although the        *)
(* counter-examples the refiner inserts are never pruned to them: the      *)
(* initial snapshots, which no later insertion removes, keep foreign       *)
(* variables out.                                                          *)
(***************************************************************************)
KeysWithinCandidates ==
    Refining /\ status = "ready" /\ cycle > 0 =>
        /\ PoolDicts # {}
        /\ PoolKeys \subseteq candidate_variables

(***************************************************************************)
(* A program state is recorded once, under the first label it was seen     *)
(* with, and what the pool holds of it is the recorded state restricted to *)
(* the pool's keys: no sequence of insertions and prunings alters a value. *)
(***************************************************************************)
EntriesFaithful ==
    /\ DOMAIN pass_ss \cap DOMAIN fail_ss = {}
    /\ \A e \in DOMAIN pass_ss : pass_ss[e] = PruneSnapshot(e, PoolKeys)
    /\ \A e \in DOMAIN fail_ss : fail_ss[e] = PruneSnapshot(e, PoolKeys)

(***************************************************************************)
(* is_new_snapshot never turns down a state that the pool does not hold:   *)
(* in snapshot fuzzing every hash belongs to an entry still in use (the    *)
(* comment on snapshot_hashes), the empty snapshot excepted.               *)
(***************************************************************************)
HashesInUse ==
    Refining /\ status = "ready" =>
        \A h \in snapshot_hashes :
            Keys(h) # {} => h \in DOMAIN pass_ss \cup DOMAIN fail_ss

\* What an insertion may do to one list: nothing is dropped or changed, keys
\* may go.
ListGrows(old, new) ==
    /\ DOMAIN old \subseteq DOMAIN new
    /\ \A e \in DOMAIN old : \E keys \in SUBSET Vars :
          new[e] = PruneSnapshot(old[e], keys)

(***************************************************************************)
(* During snapshot fuzzing evidence accumulates: no insertion loses an     *)
(* entry, moves it to the other label or changes a value, and the set of   *)
(* variables of the pool only shrinks once it has been chosen.             *)
(***************************************************************************)
EvidenceKept ==
    [][Refining /\ status' = "ready" =>
          /\ ListGrows(pass_ss, pass_ss')
          /\ ListGrows(fail_ss, fail_ss')
          /\ cycle > 0 => PoolKeys' \subseteq PoolKeys]_poolVars

=============================================================================
