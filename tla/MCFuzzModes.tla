---------------------------- MODULE MCFuzzModes ----------------------------
(***************************************************************************)
(* The modes "for ablation study" of main(): ConcFuzz, or one of the modes *)
(* of FuzzCycle.  What only the other mode reads is fixed.                 *)
(***************************************************************************)
EXTENDS MCFuzzCycle, ConcFuzz

VARIABLE concfuzz   \* values.concfuzz

modeVars == <<vars, concVars, concfuzz>>

ModesInit == /\ concfuzz \in BOOLEAN
             /\ Init /\ (concfuzz => mode = "afl" /\ ~normal_in)
             /\ ConcInit
             /\ ~concfuzz => /\ lens = [i \in 1..NumSeeds |-> 0]
                             /\ fail_dir[0].hash = CHOOSE h \in Hashes : TRUE

run_concfuzz_and_inference == concfuzz /\ Main /\ UNCHANGED <<vars, concfuzz>>
TimePasses == concfuzz /\ Clock /\ UNCHANGED <<vars, concfuzz>>
run_fuzzer_and_inference == ~concfuzz /\ Next /\ UNCHANGED <<concVars, concfuzz>>

ModesNext == run_concfuzz_and_inference \/ TimePasses \/ run_fuzzer_and_inference

\* ConcFuzz is a sequential program whose runs have a time limit; and time passes.
ModesSpec == /\ ModesInit /\ [][ModesNext]_modeVars
             /\ WF_modeVars(run_concfuzz_and_inference)
             /\ WF_modeVars(TimePasses)

\* ConcFuzz ends, also when all bytes of a seed are sensitive.
ConcFuzzEnds == concfuzz => <>(stage = "done")

=============================================================================
