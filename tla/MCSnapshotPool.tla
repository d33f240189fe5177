--------------------------- MODULE MCSnapshotPool ---------------------------
(* Small instances of SnapshotPool: three variables, two values, snapshots *)
(* that differ in a value, in a key, in both, and one without any key.     *)
EXTENDS SnapshotPool

CONSTANTS a, b, c

S(x, y, z) == [v \in Vars |-> CASE v = a -> x [] v = b -> y [] v = c -> z]

\* Snapshot fuzzing: two full states that differ, one with other keys.
MCInputs == {S(0, 0, 0), S(1, 1, 0), S(1, Absent, 1),
             S(Absent, Absent, Absent)}

=============================================================================
