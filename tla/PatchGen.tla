------------------------------ MODULE PatchGen ------------------------------
(***************************************************************************)
(* Patch generation: the loop at the end of main() in src/main.py, the     *)
(* PatchGenerator of src/patch_gen.py, the backup of the file to fix       *)
(* (src/utils.py), the rebuild of the project (src/subroutines.py), and    *)
(* the --reset-bench invocation that follows.                              *)
(*                                                                         *)
(* A source file is a sequence of lines; a line is its kind, its identity  *)
(* and its text, the program's own one and what edits put around it.       *)
(* Where a condition begins and ends, whether a file builds, and what the  *)
(* built program does on an input, is nondeterministic.                    *)
(***************************************************************************)
EXTENDS SequencesExt

CONSTANTS Source,        \* the vulnerable file
          FixLine,       \* values.fix_line
          Invs,          \* final_patch_invs, in the order main takes them
          GhostInvs,     \* the ones that mention a ghost variable
          FailInputs,    \* values.all_fail_inputs
          NoInv, NoFile

\* A part of a line: its own text, an inserted condition or its negation, with
\* the parenthesis that comes with it, or an inserted parenthesis.
Part == [what : {"own", "inv", "!inv", "paren"}, inv : Range(Invs) \cup {NoInv}]
Own == [what |-> "own", inv |-> NoInv]
Paren == [what |-> "paren", inv |-> NoInv]
\* ghost: an inserted #include of ghost.c.  guard: an inserted "if (..) exit(1);".
Line == [kind : {"include", "if", "for", "stmt", "ghost", "guard"},
         id : Nat, text : Seq(Part)]

ASSUME SourceAssumption ==
    /\ Source \in Seq(Line) /\ FixLine \in 1..Len(Source)
    /\ \A i \in 1..Len(Source) :
          Source[i].kind \notin {"ghost", "guard"} /\ Source[i].text = <<Own>>
ASSUME InputsAssumption == Len(FailInputs) \in Nat \ {0}
ASSUME InvsAssumption == Invs \in Seq(Range(Invs))
ASSUME NoneAssumption == NoInv \notin Range(Invs) /\ NoFile \notin Seq(Line)

VARIABLES fix_file,     \* content of the file to fix
          backup_file,  \* content of fix-file-backup.c
          bin_orig,     \* the source bin_orig was built from
          pc,           \* where main is
          inv,          \* index of the invariant in work
          ends,         \* where its condition begins and ends, from the fix line
          option,       \* index of the option in work
          next,         \* index of the failing input to validate with
          patches,      \* the patches saved so far
          clean,        \* history: <<source, input>> runs since the last build that
                        \* did not fail
          rejected,     \* history: sources that did not build or failed a run
          matched       \* history: both ends of every condition were found

vars == <<fix_file, backup_file, bin_orig, pc, inv, ends, option, next, patches,
          clean, rejected, matched>>

-----------------------------------------------------------------------------
\* __first_include_line_in_fix_file: 0 if there is none.
FirstIncludeLine(file) == SelectInSeq(file, LAMBDA l : l.kind \in {"include", "ghost"})

\* sed_include_cmd: the #include of ghost.c goes below the first include of the
\* file __init__ saw; sed inserts nothing before a line that is not there.
InsertInclude(file, backup, i) ==
    LET n == FirstIncludeLine(backup) + 1
    IN  IF i \in GhostInvs /\ n <= Len(file)
        THEN InsertAt(file, n, [kind |-> "ghost", id |-> 0, text |-> <<>>])
        ELSE file

(***************************************************************************)
(* The ends of the condition at the fix line, as line offsets; -1 is what  *)
(* a search that fails returns: __find_closing_bracket_position for an if, *)
(* which always begins at the fix line, and __find_semicolon_positions for *)
(* both ends of a for.  A guard is one line.                               *)
(***************************************************************************)
EndsOf(file) ==
    LET offsets == 0..(Len(file) - FixLine)
    IN  CASE file[FixLine].kind = "if" -> [open : {0}, close : offsets \cup {-1}]
          [] file[FixLine].kind = "for" ->
                {e \in [open : offsets, close : offsets] : e.open <= e.close}
                    \cup {[open |-> -1, close |-> -1]}
          [] OTHER -> {[open |-> 0, close |-> 0]}

\* Mutant: the offset is counted from the wrong line.
LineAtFromZero(backup, offset) == backup[FixLine + offset - 1]

\* trailing_lines[offset]: Python's index -1 is the last line of the file.
LineAt(backup, offset) ==
    IF offset = -1 THEN Last(backup) ELSE backup[FixLine + offset]

\* __gen_sed_cmd: replaces line n, if the file has one.
Sed(file, n, line) == IF n \in 1..Len(file) THEN [file EXCEPT ![n] = line] ELSE file

\* A part put before, or behind, the text of a condition.
Before(line, part) == [line EXCEPT !.text = <<part>> \o @]
Behind(line, part) == [line EXCEPT !.text = @ \o <<part>>]

(***************************************************************************)
(* __insert_at_beginning_of_condition and __insert_at_end_of_condition.    *)
(* One line is edited if the condition ends at the fix line, else the line *)
(* where it begins and the one where it ends; both new lines are made from *)
(* the backup, so that on one line the second edit replaces the first, and *)
(* after a failed search the last line of the file is written to the line  *)
(* before the fix line.                                                    *)
(***************************************************************************)
Integrate(file, backup, e, i, opt) ==
    LET c == [what |-> IF opt \in {"inv && c", "c && inv"} THEN "inv" ELSE "!inv",
              inv |-> i]
        first == opt \in {"inv && c", "!inv && c"}
        Opened(line) == Before(line, IF first THEN c ELSE Paren)
        Closed(line) == Behind(line, IF first THEN Paren ELSE c)
        open_line == LineAt(backup, e.open)
        close_line == LineAt(backup, e.close)
    IN  IF e.close = 0
        THEN Sed(file, FixLine + e.open, Closed(Opened(open_line)))
        ELSE Sed(Sed(file, FixLine + e.open, Opened(open_line)),
                 FixLine + e.close, Closed(close_line))

(***************************************************************************)
(* The edits of one option.  The walkaround goes before the fix line, so   *)
(* that it is what a later look at that line finds.                        *)
(***************************************************************************)
ApplyOption(file, backup, e, i, opt) ==
    InsertInclude(IF opt = "walkaround"
                  THEN InsertAt(file, FixLine,
                                [kind |-> "guard", id |-> 0,
                                 text |-> <<[what |-> "!inv", inv |-> i]>>])
                  ELSE Integrate(file, backup, e, i, opt),
                  backup, i)

\* gen: the options in the order in which they are tried.
OptionsFor(backup) ==
    IF backup[FixLine].kind \in {"if", "for", "guard"}
    THEN <<"inv && c", "c && inv", "!inv && c", "c && !inv", "walkaround">>
    ELSE <<"walkaround">>

\* restore_orig_patch_file: the content the file to fix gets.
Restored(file, backup) == backup

\* The file an option asks to be built.
Candidate(file, backup, e, i, n) ==
    ApplyOption(Restored(file, backup), backup, e, i, OptionsFor(backup)[n])

-----------------------------------------------------------------------------
Init == /\ fix_file = Source
        /\ backup_file = NoFile
        /\ bin_orig = Source
        /\ pc = "loop"
        /\ inv = 0 /\ option = 0 /\ next = 0
        /\ ends = [open |-> 0, close |-> 0]
        /\ patches = {}
        /\ clean = {} /\ rejected = {}
        /\ matched = TRUE

\* main takes the next invariant; __init__ makes the backup, gen looks at it.
NewGenerator ==
    /\ pc = "loop" /\ inv < Len(Invs)
    /\ inv' = inv + 1
    /\ backup_file' = fix_file
    /\ ends' \in EndsOf(fix_file)
    /\ matched' = (matched /\ ends'.close # -1)
    /\ option' = 1
    /\ pc' = "try"
    /\ UNCHANGED <<fix_file, bin_orig, next, patches, clean, rejected>>

\* Mutant: a failed build is validated like any other.
TryOptionIgnoresBuild ==
    /\ pc = "try" /\ option <= Len(OptionsFor(backup_file))
    /\ fix_file' = Candidate(fix_file, backup_file, ends, Invs[inv], option)
    /\ bin_orig' \in {fix_file', bin_orig}
    /\ pc' = "validate" /\ next' = 1 /\ clean' = {}
    /\ UNCHANGED <<backup_file, inv, ends, option, patches, rejected, matched>>

(***************************************************************************)
(* One round of enumerate_patch_options, or gen_patch_for_non_cond, up to  *)
(* the rebuild: bin_orig is replaced only if the build succeeds, and there *)
(* is nothing to validate if it does not.                                  *)
(***************************************************************************)
TryOption ==
    /\ pc = "try" /\ option <= Len(OptionsFor(backup_file))
    /\ fix_file' = Candidate(fix_file, backup_file, ends, Invs[inv], option)
    /\ \/ /\ bin_orig' = fix_file'
          /\ pc' = "validate"
          /\ next' = 1 /\ clean' = {}
          /\ UNCHANGED <<option, rejected>>
       \/ /\ rejected' = rejected \cup {fix_file'}
          /\ option' = option + 1
          /\ UNCHANGED <<bin_orig, pc, next, clean>>
    /\ UNCHANGED <<backup_file, inv, ends, patches, matched>>

\* rebuild_and_validate_patch, one failing input: any result but "failing" will do.
InputDoesNotFail ==
    /\ pc = "validate" /\ next <= Len(FailInputs)
    /\ clean' = clean \cup {<<bin_orig, FailInputs[next]>>}
    /\ next' = next + 1
    /\ UNCHANGED <<fix_file, backup_file, bin_orig, pc, inv, ends, option, patches,
                   rejected, matched>>

\* Mutant: the option after the next one is tried.
InputFailsSkips ==
    /\ pc = "validate" /\ next <= Len(FailInputs)
    /\ rejected' = rejected \cup {bin_orig}
    /\ option' = option + 2
    /\ pc' = "try"
    /\ UNCHANGED <<fix_file, backup_file, bin_orig, inv, ends, next, patches, clean,
                   matched>>

\* Mutant: the same option is tried again.
InputFailsRetries ==
    /\ pc = "validate" /\ next <= Len(FailInputs)
    /\ rejected' = rejected \cup {bin_orig}
    /\ pc' = "try"
    /\ UNCHANGED <<fix_file, backup_file, bin_orig, inv, ends, option, next, patches,
                   clean, matched>>

\* The patched program still fails: on to the next option.
InputFails ==
    /\ pc = "validate" /\ next <= Len(FailInputs)
    /\ rejected' = rejected \cup {bin_orig}
    /\ option' = option + 1
    /\ pc' = "try"
    /\ UNCHANGED <<fix_file, backup_file, bin_orig, inv, ends, next, patches, clean,
                   matched>>

\* Mutant: the exception only ends the option's turn.
InputTimesOutTriesNext ==
    /\ pc = "validate" /\ next <= Len(FailInputs)
    /\ option' = option + 1
    /\ pc' = "try"
    /\ UNCHANGED <<fix_file, backup_file, bin_orig, inv, ends, next, patches, clean,
                   rejected, matched>>

\* A run exceeds its five seconds: the exception ends this invariant's turn.
InputTimesOut ==
    /\ pc = "validate" /\ next <= Len(FailInputs)
    /\ pc' = "loop"
    /\ UNCHANGED <<fix_file, backup_file, bin_orig, inv, ends, option, next, patches,
                   clean, rejected, matched>>

\* gen_final_patch_file and save_one_patch: the diff of the backup and the file.
SavePatch ==
    /\ pc = "validate" /\ next > Len(FailInputs)
    /\ patches' = patches \cup {[inv |-> Invs[inv], from |-> backup_file,
                                 to |-> fix_file, ends |-> ends, option |-> option,
                                 clean |-> clean]}
    /\ pc' = "loop"
    /\ UNCHANGED <<fix_file, backup_file, bin_orig, inv, ends, option, next, clean,
                   rejected, matched>>

\* All options failed: None.
NoPatch ==
    /\ pc = "try" /\ option > Len(OptionsFor(backup_file))
    /\ pc' = "loop"
    /\ UNCHANGED <<fix_file, backup_file, bin_orig, inv, ends, option, next, patches,
                   clean, rejected, matched>>

Finish ==
    /\ pc = "loop" /\ inv = Len(Invs)
    /\ pc' = "done"
    /\ UNCHANGED <<fix_file, backup_file, bin_orig, inv, ends, option, next, patches,
                   clean, rejected, matched>>

\* A later invocation with --reset-bench; the build's result is not looked at.
ResetBench ==
    /\ pc = "done" /\ backup_file # NoFile
    /\ fix_file' = backup_file
    /\ bin_orig' \in {fix_file', bin_orig}
    /\ pc' = "reset"
    /\ UNCHANGED <<backup_file, inv, ends, option, next, patches, clean, rejected,
                   matched>>

Main == \/ NewGenerator \/ TryOption
        \/ InputDoesNotFail \/ InputFails \/ InputTimesOut
        \/ SavePatch \/ NoPatch \/ Finish

Next == Main \/ ResetBench

Spec == Init /\ [][Next]_vars

\* main runs on: runs of the program have a time limit, and builds end.
FairSpec == Spec /\ WF_vars(Main)

-----------------------------------------------------------------------------
\* The variables have their types.
TypeOK ==
    /\ fix_file \in Seq(Line)
    /\ backup_file \in Seq(Line) \cup {NoFile}
    /\ bin_orig \in Seq(Line)
    /\ pc \in {"loop", "try", "validate", "done", "reset"}
    /\ inv \in 0..Len(Invs)
    /\ ends \in [open : Int, close : Int]
    /\ option \in 0..6
    /\ next \in 0..(Len(FailInputs) + 1)
    /\ \A p \in patches : /\ p.inv \in Range(Invs)
                            /\ p.from \in Seq(Line) /\ p.to \in Seq(Line)
                            /\ p.option \in 1..5
    /\ matched \in BOOLEAN

(***************************************************************************)
(* A saved patch was validated: a binary built from exactly the file the   *)
(* patch describes ran on every failing input without failing, also when   *)
(* builds failed before and left an older binary in place.                 *)
(***************************************************************************)
SavedPatchesValidated ==
    \A p \in patches : \A j \in 1..Len(FailInputs) : <<p.to, FailInputs[j]>> \in p.clean

\* A saved patch is one option of its own invariant, applied to the backup.
OneOptionPerPatch ==
    \A p \in patches :
        p.to = ApplyOption(p.from, p.from, p.ends, p.inv, OptionsFor(p.from)[p.option])

\* All options before that one were rejected.
OthersRejected ==
    \A p \in patches : \A n \in 1..(p.option - 1) :
        ApplyOption(p.from, p.from, p.ends, p.inv, OptionsFor(p.from)[n]) \in rejected

(***************************************************************************)
(* The options are tried "one by one until a patch that passes validation  *)
(* is produced": a saved patch is the first option of its invariant that   *)
(* was not rejected, and the walkaround the last resort; and it holds that *)
(* option and nothing else: the others, tried in the same file, have left  *)
(* no trace.                                                               *)
(***************************************************************************)
FirstValidOption == OneOptionPerPatch /\ OthersRejected

\* The lines of a file, and the parts of a line, that were not inserted.
OwnLines(file) == {i \in 1..Len(file) : file[i].kind \notin {"ghost", "guard"}}
OwnParts(line) == {j \in 1..Len(line.text) : line.text[j] = Own}

\* A line of the program, whatever was put around its text.
SameLine(line, orig) ==
    /\ line.kind = orig.kind /\ line.id = orig.id
    /\ \E j \in 1..Len(line.text) : OwnParts(line) = {j}

\* The n-th of a file's own lines is the n-th line of the vulnerable file.
KeepsProgram(file) ==
    /\ Cardinality(OwnLines(file)) = Len(Source)
    /\ \A i \in OwnLines(file) :
          SameLine(file[i], Source[Cardinality({j \in OwnLines(file) : j <= i})])

(***************************************************************************)
(* Edits address lines by number, from offsets and line numbers taken      *)
(* before other edits and insertions, while insertions move the lines: as  *)
(* long as the ends of the conditions are found, no line and no condition  *)
(* of the program is ever lost, doubled or reordered, however many         *)
(* invariants are tried on top of one another and however many lines a     *)
(* condition has.                                                          *)
(***************************************************************************)
ProgramKept ==
    matched => /\ KeepsProgram(fix_file)
               /\ KeepsProgram(bin_orig)
               /\ backup_file # NoFile => KeepsProgram(backup_file)

(***************************************************************************)
(* doc/MANUAL.md on --reset-bench: "Reset a (previously fixed) benchmark   *)
(* program to its original vulnerable state."                              *)
(***************************************************************************)
ResetsToVulnerable == pc = "reset" => fix_file = Source

\* Every invariant gets its turn and main ends.
PatchGenTerminates == <>(pc = "done")

=============================================================================
