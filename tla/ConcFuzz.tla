------------------------------ MODULE ConcFuzz ------------------------------
(***************************************************************************)
(* Concentrated fuzzing (src/concfuzz.py): for each seed the bytes whose   *)
(* change makes the program miss the fix location are found, then the      *)
(* other bytes are changed, round after round, until the seed's share of   *)
(* the time is used up.  Inputs whose snapshots are new are kept.          *)
(*                                                                         *)
(* An input is the number of the run it was made for; 0 is the exploit.  A *)
(* snapshot file is the run that wrote it and the hash of its content.     *)
(* The runs are those of module SnapshotFile, with a time limit each.      *)
(***************************************************************************)
EXTENDS Naturals

CONSTANTS NumSeeds, MaxLen,   \* bounds: seeds, bytes of a seed
          SMALL_FILE_LEN,     \* shorter seeds get no sensitivity map
          Hashes,             \* hashes of snapshot files
          MaxRuns             \* bound: inputs that are run

ASSUME ConcAssumption == NumSeeds \in Nat /\ MaxLen \in Nat /\ SMALL_FILE_LEN \in Nat /\ MaxRuns \in Nat

VARIABLES lens,             \* the lengths of the seeds
          seed, stage,      \* the seed in work, and what is done with it
          sensitivity_map, pos,
          late,             \* the clock: time.time() > time_end
          runs,             \* inputs run so far
          snapshot_orig,    \* snapshot.out, or NoFile
          hash_set,
          pass_count, fail_count,
          pass_dir, fail_dir,   \* number in the file's name -> input; 0: the exploit
          unclassified      \* history: hashes first seen in an unclassified run

counters == <<pass_count, fail_count, pass_dir, fail_dir>>
fuzzVars == <<runs, snapshot_orig, hash_set, counters, unclassified>>
concVars == <<lens, seed, stage, sensitivity_map, pos, late, fuzzVars>>

NoFile == [run |-> 0, hash |-> 0]
Results == {"passing", "failing", "unclassified"}

-----------------------------------------------------------------------------
\* The loop of start, with init_sensitivity_map up to its loop.
NextSeed ==
    /\ stage = "next" /\ seed < NumSeeds
    /\ seed' = seed + 1 /\ late' = FALSE /\ pos' = 1
    /\ sensitivity_map' = [p \in 1..lens[seed + 1] |-> FALSE]
    /\ stage' = IF lens[seed + 1] < SMALL_FILE_LEN THEN "mapped" ELSE "map"
    /\ UNCHANGED <<lens, fuzzVars>>

AllSeedsDone ==
    /\ stage = "next" /\ seed = NumSeeds
    /\ stage' = "done"
    /\ UNCHANGED <<lens, seed, sensitivity_map, pos, late, fuzzVars>>

\* One byte of init_sensitivity_map; a run that times out decides nothing.
InferSensitivity ==
    /\ stage = "map" /\ ~late /\ pos <= lens[seed]
    /\ \E missed \in BOOLEAN : sensitivity_map' = [sensitivity_map EXCEPT ![pos] = missed]
    /\ pos' = pos + 1
    /\ UNCHANGED <<lens, seed, stage, late, fuzzVars>>

MapInferred ==
    /\ stage = "map" /\ (late \/ pos > lens[seed])
    /\ stage' = "mapped"
    /\ UNCHANGED <<lens, seed, sensitivity_map, pos, late, fuzzVars>>

\* A seed whose map took all its time ends the fuzzing, also of later seeds.
StartFuzzing ==
    /\ stage = "mapped"
    /\ stage' = IF late THEN "done" ELSE "fuzz"
    /\ pos' = 1
    /\ UNCHANGED <<lens, seed, sensitivity_map, late, fuzzVars>>

-----------------------------------------------------------------------------
\* fuzz_with_sensitivity_map

\* Mutant: the clock is looked at after the bytes that are skipped.
TimeIsUpForByte ==
    /\ stage = "fuzz" /\ late /\ pos <= lens[seed] /\ ~sensitivity_map[pos]
    /\ stage' = "next"
    /\ UNCHANGED <<lens, seed, sensitivity_map, pos, late, fuzzVars>>

\* Both loops are left.
TimeIsUp ==
    /\ stage = "fuzz" /\ late
    /\ stage' = "next"
    /\ UNCHANGED <<lens, seed, sensitivity_map, pos, late, fuzzVars>>

SkipSensitive ==
    /\ stage = "fuzz" /\ ~late /\ pos <= lens[seed] /\ sensitivity_map[pos]
    /\ pos' = pos + 1
    /\ UNCHANGED <<lens, seed, stage, sensitivity_map, late, fuzzVars>>

NewRound ==
    /\ stage = "fuzz" /\ ~late /\ pos > lens[seed]
    /\ pos' = 1
    /\ UNCHANGED <<lens, seed, stage, sensitivity_map, late, fuzzVars>>

\* A directory after a test was copied to the file with this number.
SaveTest(dir, n, test) == [i \in DOMAIN dir \cup {n} |-> IF i = n THEN test ELSE dir[i]]

\* What is done with the input of this run, for the snapshot file of it.
\* The hash of an unclassified run is remembered, too.
KeepTest(file, result) ==
    LET test == [run |-> runs', hash |-> file.hash, from |-> file.run]
        new == file.hash \notin hash_set
        passes == new /\ result = "passing"
        fails == new /\ result = "failing"
    IN  /\ hash_set' = hash_set \cup {file.hash}
        /\ pass_count' = IF passes THEN pass_count + 1 ELSE pass_count
        /\ pass_dir' = IF passes THEN SaveTest(pass_dir, pass_count', test) ELSE pass_dir
        /\ fail_count' = IF fails THEN fail_count + 1 ELSE fail_count
        /\ fail_dir' = IF fails THEN SaveTest(fail_dir, fail_count', test) ELSE fail_dir
        /\ unclassified' = IF new /\ result = "unclassified"
                           THEN unclassified \cup {file.hash} ELSE unclassified

\* Mutant: snapshot.out stays.
OldFilesKept == snapshot_orig

\* "clean old snapshot files"
OldFiles == NoFile

(***************************************************************************)
(* A byte is changed and the input is run: it may reach the fix location   *)
(* and write a snapshot file, or not, and may be killed at its time limit, *)
(* or die while it writes, both of which leave the file.  A run that ends  *)
(* without a file is skipped; the file of the others is cleaned up, that   *)
(* is, removed.                                                            *)
(***************************************************************************)
FuzzByte ==
    /\ stage = "fuzz" /\ ~late /\ pos <= lens[seed] /\ ~sensitivity_map[pos]
    /\ runs < MaxRuns
    /\ runs' = runs + 1
    /\ pos' = pos + 1
    /\ \E file \in {OldFiles} \cup [run : {runs'}, hash : Hashes] :
          \/ /\ snapshot_orig' = file
             /\ UNCHANGED <<hash_set, counters, unclassified>>
          \/ /\ file = NoFile
             /\ snapshot_orig' = NoFile
             /\ UNCHANGED <<hash_set, counters, unclassified>>
          \/ /\ file # NoFile
             /\ snapshot_orig' = NoFile
             /\ \E result \in Results : KeepTest(file, result)
    /\ UNCHANGED <<lens, seed, stage, sensitivity_map, late>>

-----------------------------------------------------------------------------
Clock == /\ ~late /\ stage # "done"
         /\ late' = TRUE
         /\ UNCHANGED <<lens, seed, stage, sensitivity_map, pos, fuzzVars>>

\* start copies the exploit to fail_dir under its own name; no run has shown
\* its state yet, so that the hash is not in hash_set.
ConcInit == /\ lens \in [1..NumSeeds -> 0..MaxLen]
            /\ seed = 0 /\ stage = "next" /\ pos = 1 /\ late = FALSE /\ sensitivity_map = <<>>
            /\ runs = 0 /\ snapshot_orig = NoFile /\ hash_set = {}
            /\ pass_count = 0 /\ fail_count = 0 /\ pass_dir = <<>>
            /\ \E h \in Hashes : fail_dir = [i \in {0} |-> [run |-> 0, hash |-> h, from |-> 0]]
            /\ unclassified = {}

Main == \/ NextSeed \/ AllSeedsDone \/ InferSensitivity \/ MapInferred \/ StartFuzzing
        \/ TimeIsUp \/ SkipSensitive \/ NewRound \/ FuzzByte

ConcNext == Main \/ Clock

ConcSpec == ConcInit /\ [][ConcNext]_concVars

-----------------------------------------------------------------------------
\* The tests that fuzzing found: the numbered files.
Files(dir, n) == {dir[i] : i \in 1..n}
Found == Files(pass_dir, pass_count) \cup Files(fail_dir, fail_count)

(***************************************************************************)
(* The tests that fuzzing adds are the states it met, over all seeds: each *)
(* file shows the state of its own run, whatever runs that were killed     *)
(* left behind; no state met has two of them; none that was remembered     *)
(* lost its file, unless it was first seen in a run that is unclassified;  *)
(* and the exploit is still there.  (The exploit's own state is unknown to *)
(* hash_set: the first input that shows it again is saved beside it.)      *)
(***************************************************************************)
EveryStateHasItsTest ==
    /\ \A t \in Found : t.from = t.run
    /\ \A t, u \in Found : t.hash = u.hash => t = u
    /\ {t.hash : t \in Found} \cup unclassified = hash_set
    /\ fail_dir[0].run = 0

=============================================================================
