----------------------------- MODULE RunService -----------------------------
(***************************************************************************)
(* What a fork server promises to the fuzzer: runs are requested one at a  *)
(* time, each request gets at most one answer, and the answer tells how    *)
(* the run that was requested ended, not another one.                      *)
(***************************************************************************)
EXTENDS Naturals, Sequences

CONSTANT Ends   \* how a run can end

VARIABLES asked,    \* number of runs requested
          truth,    \* how the runs ended that have ended, in their order
          answers   \* what the fuzzer was told, in the order of its requests

vars == <<asked, truth, answers>>

Init == asked = 0 /\ truth = <<>> /\ answers = <<>>

Request == /\ asked = Len(answers)
           /\ asked' = asked + 1
           /\ UNCHANGED <<truth, answers>>

Run == /\ Len(truth) < asked
       /\ \E e \in Ends : truth' = Append(truth, e)
       /\ UNCHANGED <<asked, answers>>

Answer == /\ Len(answers) < Len(truth)
          /\ answers' = Append(answers, truth[Len(answers) + 1])
          /\ UNCHANGED <<asked, truth>>

Next == Request \/ Run \/ Answer

Spec == Init /\ [][Next]_vars

=============================================================================
