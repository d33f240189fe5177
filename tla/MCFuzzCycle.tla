----------------------------- MODULE MCFuzzCycle -----------------------------
(* The exploit, a second crash whose state lacks a variable, a passing     *)
(* input and a flaky one.                                                  *)
EXTENDS FuzzCycle

CONSTANTS a, b, exploit, crash, pass, flaky

S(x, y) == [v \in Vars |-> CASE v = a -> x [] v = b -> y]

MCInputs == {S(0, 0), S(1, Absent), S(1, 1), S(0, 1)}

MCResult == [t \in Tests |-> CASE t = pass -> "passing" [] OTHER -> "failing"]

MCShots == [t \in Tests |->
    CASE t = exploit -> [before |-> {S(0, 1)}, last |-> S(0, 0)]
      [] t = crash   -> [before |-> {}, last |-> S(1, Absent)]
      [] t = pass    -> [before |-> {S(0, 1)}, last |-> S(1, 1)]
      [] t = flaky   -> [before |-> {}, last |-> S(1, 1)]]

=============================================================================
