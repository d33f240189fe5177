----------------------------- MODULE MCPatchGen -----------------------------
(***************************************************************************)
(* A file of four lines whose third, an if, is to be fixed, and three      *)
(* invariants.  Once an include was inserted, the for is at the fix line.  *)
(***************************************************************************)
EXTENDS PatchGen

CONSTANTS i1, i2, i3

SourceLine(kind, id) == [kind |-> kind, id |-> id, text |-> <<Own>>]

MCSource == <<SourceLine("include", 1), SourceLine("for", 2),
              SourceLine("if", 3), SourceLine("stmt", 4)>>
MCInvs == <<i1, i2, i3>>
MCFailInputs == <<"exploit", "t1">>

=============================================================================
