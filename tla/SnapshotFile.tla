---------------------------- MODULE SnapshotFile ----------------------------
(***************************************************************************)
(* How snapshots travel from an instrumented process to VulnFix.  The      *)
(* process runs the instrumentation of lib/patch.c at the fix location     *)
(* (snapshot or mutate) and at the crash location (post_mutate) and writes *)
(* snapshot.out; the driver (run_bin_snapshot and run_bin_mutate of        *)
(* src/subroutines.py) starts it, waits for it with a timeout, turns       *)
(* snapshot.out into snapshot.out.processed (cleanup_snapshot_file),       *)
(* removes the former and parses the latter.                               *)
(*                                                                         *)
(* A snapshot is reduced to where it came from: the run that wrote it, the *)
(* number of the execution of the fix location, and whether the state had  *)
(* been mutated or only a part of it was written.  What a process executes *)
(* is nondeterministic.  A snapshot has at least one variable (the ones    *)
(* without any leave no trace in snapshot.out.processed).                  *)
(***************************************************************************)
EXTENDS Integers, Sequences

CONSTANTS MaxRuns,     \* bound: processes started
          MaxHits,     \* bound: executions of the fix location in one run
          Ks,          \* the executions a mutation may be aimed at (k)
          SameLoc,     \* the values values.fix_loc == values.crash_loc may have
          Timeouts     \* whether a run may exceed its time limit

ASSUME BoundsAssumption == /\ MaxRuns \in Nat
                           /\ MaxHits \in Nat
                           /\ Ks \subseteq Nat \ {0}
                           /\ SameLoc \subseteq BOOLEAN
                           /\ Timeouts \in BOOLEAN

Entry == [run : Nat, n : Nat, state : {"original", "mutated", "part"}]
NoFile == [exists |-> FALSE, snaps |-> <<>>, cert |-> FALSE]
File == [exists : BOOLEAN, snaps : Seq(Entry), cert : BOOLEAN]

VARIABLES same_loc,           \* fix_loc == crash_loc, fixed by the config file
          raw,                \* snapshot.out
          processed,          \* snapshot.out.processed
          pc,                 \* "idle", "running", or "stopped" while it printed
          run,                \* number of the current or last run
          kind,               \* "snapshot" or "mutate"
          k,                  \* which execution mutate changes
          execution_counter,  \* executions of the fix location in this process
          reached,            \* the crash location followed the k-th execution
          outcome             \* what the driver made of the last run

vars == <<same_loc, raw, processed, pc, run, kind, k, execution_counter, reached, outcome>>

-----------------------------------------------------------------------------
\* The k-th execution of the fix location is the one that is mutated.
StateOf(n, target) == IF n = target THEN "mutated" ELSE "original"

\* Mutant: every execution appends.
PrintSnapshotAppends(file, n, entry) ==
    [file EXCEPT !.exists = TRUE, !.snaps = Append(@, entry)]

\* Mutant: the first execution truncates the snapshots but not the mark.
PrintSnapshotKeepsMark(file, n, entry) ==
    IF n = 1 THEN [file EXCEPT !.exists = TRUE, !.snaps = <<entry>>]
    ELSE [file EXCEPT !.snaps = Append(@, entry)]

\* print_snapshot_to_file: the first execution truncates, the others append.
PrintSnapshot(file, n, entry) ==
    IF n = 1 \/ ~file.exists
    THEN [exists |-> TRUE, snaps |-> <<entry>>, cert |-> FALSE]
    ELSE [file EXCEPT !.snaps = Append(@, entry)]

\* The file ends within a snapshot.
Cut(file) == file.snaps # <<>> /\ file.snaps[Len(file.snaps)].state = "part"

\* The snapshots of a file that ends within one, without it.
Whole(file) == SubSeq(file.snaps, 1, Len(file.snaps) - 1)

\* certify_snapshot_file: only while the counter is 1.
Certify(file, n) == IF n = 1 THEN [file EXCEPT !.cert = TRUE] ELSE file

\* The driver patches a binary for the purpose and starts it.
RunBin(kd, target) ==
    /\ pc = "idle"
    /\ run < MaxRuns
    /\ pc' = "running"
    /\ run' = run + 1
    /\ kind' = kd
    /\ k' = target
    /\ execution_counter' = 0
    /\ reached' = FALSE
    /\ UNCHANGED <<same_loc, raw, processed, outcome>>

RunBinSnapshot == RunBin("snapshot", 0)
RunBinMutate == \E target \in Ks : RunBin("mutate", target)

\* snapshot(): print and certify.
SnapshotAtFixLocation ==
    /\ pc = "running" /\ kind = "snapshot"
    /\ execution_counter < MaxHits
    /\ LET n == execution_counter + 1
           entry == [run |-> run, n |-> n, state |-> "original"]
       IN  /\ execution_counter' = n
           /\ raw' = Certify(PrintSnapshot(raw, n, entry), n)
    /\ UNCHANGED <<same_loc, processed, pc, run, kind, k, reached, outcome>>

\* mutate(): change the state at the k-th execution, print, and certify if the
\* fix location is the crash location.
MutateAtFixLocation ==
    /\ pc = "running" /\ kind = "mutate"
    /\ execution_counter < MaxHits
    /\ LET n == execution_counter + 1
           entry == [run |-> run, n |-> n, state |-> StateOf(n, k)]
           printed == PrintSnapshot(raw, n, entry)
       IN  /\ execution_counter' = n
           /\ raw' = IF same_loc THEN Certify(printed, n) ELSE printed
           /\ reached' = IF same_loc /\ n >= k THEN TRUE ELSE reached
    /\ UNCHANGED <<same_loc, processed, pc, run, kind, k, outcome>>

\* post_mutate() at the crash location.
PostMutateAtCrashLocation ==
    /\ pc = "running" /\ kind = "mutate" /\ ~same_loc
    /\ raw' = Certify(raw, execution_counter)
    /\ reached' = IF execution_counter >= k THEN TRUE ELSE reached
    /\ UNCHANGED <<same_loc, processed, pc, run, kind, k, execution_counter, outcome>>

(***************************************************************************)
(* The process gets no further than some part of a snapshot: it crashes in *)
(* the instrumentation, or hangs there until its time limit.               *)
(***************************************************************************)
StopsPrinting ==
    /\ pc = "running" /\ pc' = "stopped"
    /\ execution_counter < MaxHits
    /\ LET n == execution_counter + 1
           entry == [run |-> run, n |-> n, state |-> "part"]
       IN  /\ execution_counter' = n
           /\ raw' = PrintSnapshot(raw, n, entry)
    /\ UNCHANGED <<same_loc, processed, run, kind, k, reached, outcome>>

Ended(res, valid, snaps) ==
    [res |-> res, run |-> run, kind |-> kind, k |-> k, hits |-> execution_counter,
     stopped |-> pc = "stopped", valid |-> valid, snaps |-> snaps, reached |-> reached]

\* Mutant: only the file of a valid run is removed.
RemovedIfValid(file) == IF file.cert THEN NoFile ELSE file

\* "remove orig snapshot file"
Removed(file) == NoFile

(***************************************************************************)
(* The process ends by itself: cleanup_snapshot_file and                   *)
(* parse_snapshots_from_file.  Without a snapshot.out the driver gets an   *)
(* exception, and snapshot.out.processed keeps what it had.  Of a file     *)
(* that ends within a snapshot, the last line may not have its five        *)
(* fields: then the exception comes before the file is removed.  If it     *)
(* ends between two lines, nobody notices; and if the part never left the  *)
(* process's buffer, the snapshot is not there at all.                     *)
(***************************************************************************)
ProcessExits ==
    /\ pc \in {"running", "stopped"}
    /\ pc' = "idle"
    /\ \/ /\ ~raw.exists
          /\ outcome' = Ended("exception", FALSE, <<>>)
          /\ UNCHANGED <<raw, processed>>
       \/ /\ raw.exists /\ Cut(raw)
          /\ processed' = Whole(raw)
          /\ outcome' = Ended("exception", FALSE, <<>>)
          /\ UNCHANGED raw
       \/ /\ raw.exists
          /\ processed' = raw.snaps \/ (Cut(raw) /\ processed' = Whole(raw))
          /\ raw' = Removed(raw)
          /\ outcome' = Ended("ok", raw.cert, processed')
    /\ UNCHANGED <<same_loc, run, kind, k, execution_counter, reached>>

\* proc.wait times out: the process group is killed, nothing is cleaned up.
TimeoutExpired ==
    /\ pc \in {"running", "stopped"} /\ Timeouts
    /\ pc' = "idle"
    /\ outcome' = Ended("timeout", FALSE, <<>>)
    /\ UNCHANGED <<same_loc, raw, processed, run, kind, k, execution_counter, reached>>

Init == /\ same_loc \in SameLoc
        /\ raw = NoFile
        /\ processed = <<>>
        /\ pc = "idle"
        /\ run = 0 /\ kind = "snapshot" /\ k = 0
        /\ execution_counter = 0
        /\ reached = FALSE
        /\ outcome = Ended("none", FALSE, <<>>)

Driver == RunBinSnapshot \/ RunBinMutate \/ ProcessExits \/ TimeoutExpired

Process == \/ SnapshotAtFixLocation
           \/ MutateAtFixLocation
           \/ PostMutateAtCrashLocation
           \/ StopsPrinting

Next == Driver \/ Process

Spec == Init /\ [][Next]_vars

-----------------------------------------------------------------------------
\* The variables have their types.
TypeOK ==
    /\ same_loc \in BOOLEAN
    /\ raw \in File
    /\ processed \in Seq(Entry)
    /\ pc \in {"idle", "running", "stopped"}
    /\ run \in 0..MaxRuns
    /\ kind \in {"snapshot", "mutate"}
    /\ k \in Ks \cup {0}
    /\ execution_counter \in 0..MaxHits
    /\ reached \in BOOLEAN
    /\ outcome \in [res : {"none", "ok", "exception", "timeout"}, run : 0..MaxRuns,
                    kind : {"snapshot", "mutate"}, k : Ks \cup {0}, hits : 0..MaxHits,
                    stopped : BOOLEAN, valid : BOOLEAN, snaps : Seq(Entry), reached : BOOLEAN]

\* The executions 1..n of the fix location in run r, the target-th mutated.
Executions(r, n, target) ==
    [i \in 1..n |-> [run |-> r, n |-> i, state |-> StateOf(i, target)]]

(***************************************************************************)
(* Whatever earlier runs left behind, a run that executes the fix location *)
(* is given exactly its own snapshots, all of them and in the order of     *)
(* execution: the last one is the state a failing run crashed from, and    *)
(* snapshots[k-1:] starts at the mutated one.  Only a process that died    *)
(* while it printed gives the last one in part, or not at all.             *)
(***************************************************************************)
OwnSnapshotsInOrder ==
    outcome.res = "ok" /\ outcome.hits > 0 =>
        IF ~outcome.stopped
        THEN outcome.snaps = Executions(outcome.run, outcome.hits, outcome.k)
        ELSE LET before == Executions(outcome.run, outcome.hits - 1, outcome.k)
                 part == [run |-> outcome.run, n |-> outcome.hits, state |-> "part"]
             IN  outcome.snaps \in {before, Append(before, part)}

(***************************************************************************)
(* A mutation of the first execution that the driver accepts as valid was  *)
(* followed by the crash location; one that never leaves the location is   *)
(* not called valid because of what an earlier run wrote.                  *)
(***************************************************************************)
FirstMutationCertified ==
    outcome.res = "ok" /\ outcome.hits > 0 /\ outcome.k = 1 =>
        (outcome.valid => outcome.reached)

(***************************************************************************)
(* snapshot.out survives a run in two cases only: the run was killed at    *)
(* its time limit, or the file ends within a snapshot, so that the parser  *)
(* raises an exception before it is removed.                               *)
(***************************************************************************)
RawRemovedBetweenRuns ==
    pc = "idle" /\ raw.exists =>
        \/ outcome.res = "timeout"
        \/ outcome.res = "exception" /\ Cut(raw)

(***************************************************************************)
(* The comment in cleanup_snapshot_file: the original file is removed "so  *)
(* that can catch error on next run (see if a new orig snapshot file is    *)
(* produced)".  What a run is given was produced by it.                    *)
(***************************************************************************)
NewFileProduced ==
    outcome.res = "ok" => \A i \in DOMAIN outcome.snaps : outcome.snaps[i].run = outcome.run

=============================================================================
