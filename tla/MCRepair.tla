------------------------------ MODULE MCRepair ------------------------------
(* Small instances of Repair: two variables, two values, four states.  The *)
(* PAC sample counts are scaled down so that early termination happens.    *)
EXTENDS Repair

CONSTANTS a, b

S(x, y) == [v \in Vars |-> IF v = a THEN x ELSE y]

MCInputs == {S(0, 0), S(0, 1), S(1, 1), S(1, Absent)}

\* One variable whose bound moves as passing states arrive.
MCBoundInputs == {S(x, Absent) : x \in Vals}

MCPacSamples == [n \in 1..12 |-> IF n = 1 THEN 1 ELSE 2]
=============================================================================
