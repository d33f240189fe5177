----------------------------- MODULE Instrument -----------------------------
(***************************************************************************)
(* The E9AFL plugin (lib/e9AFLPlugin.cpp): which instructions of a binary  *)
(* carry AFL's coverage code.  A basic block without an instruction long   *)
(* enough for a jump is "bad"; the plugin leaves bad blocks out as long as *)
(* the blocks that remain tell every path apart.                           *)
(*                                                                         *)
(* An instruction's address is its index.  The predecessors of a block are *)
(* only printed; what matters is that adding one creates the block's entry *)
(* in the CFG.                                                             *)
(***************************************************************************)
EXTENDS Integers, FiniteSets, SequencesExt

CONSTANTS Programs,  \* instruction sequences with the targets found in them
          Options    \* records [Oblock, Oselect]

Instruction == [op : {"ret", "jmp", "jcc", "call", "other"}, to : Int, size : 1..15, gap : BOOLEAN]

ASSUME ProgramsAssumption == \A p \in Programs :
    /\ p.code \in Seq(Instruction)
    /\ DOMAIN p.targets \subseteq Nat \ {0} /\ IsFiniteSet(DOMAIN p.targets)

VARIABLES program,     \* the binary: [code, targets]
          option,      \* what E9AFL_OBLOCK and E9AFL_OSELECT say
          phase,       \* "disassembled", "cfg", "optimize", "done", "aborted"
          cfg,         \* entry address -> sequence of successor addresses
          point,       \* entry address -> its instrumentation point
          optimized,   \* the entries that are left out
          current,     \* the entries that the loop of step 3 has come to
          calls,       \* the calls of optimizeBlock under way, the innermost last
          instrument   \* the addresses that get a trampoline

vars == <<program, option, phase, cfg, point, optimized, current, calls, instrument>>

BB_INDIRECT == -1
NullBlock == 0
Padding == -2   \* an address behind an instruction where no other begins
JmpqSize == 5

Code == program.code
Targets == DOMAIN program.targets
Direct(b) == program.targets[b] = "direct"

Jumps == {"ret", "jmp", "jcc"}

-----------------------------------------------------------------------------
\* Step 1: the control-flow graph

(***************************************************************************)
(* The instructions of the block at b that are looked at: up to a jump, a  *)
(* gap, or the next target.  The loop counter runs one ahead of the        *)
(* instruction it handles, so the last one of the binary is never handled. *)
(***************************************************************************)
BlockEnds(i) == \/ Code[i].op \in Jumps
                \/ Code[i].gap
                \/ i + 1 \in Targets

BlockInstrs(b) ==
    {i \in b..(Len(Code) - 1) : \A j \in b..(i - 1) : ~BlockEnds(j)}

HasTarget(i) == Code[i].op \in {"jmp", "jcc", "call"} /\ Code[i].to > 0

\* What instruction i passes to addPredecessor.  The first target behind
\* padding is the first that is not before i + 1.
Reached(i) ==
    (IF HasTarget(i) THEN {Code[i].to} ELSE {})
        \cup (IF Code[i].op = "jcc" THEN {i + 1} ELSE {})
        \cup (IF /\ Code[i].op \notin Jumps /\ ~Code[i].gap
                 /\ i + 1 \in Targets
              THEN {i + 1} ELSE {})

\* addPredecessor: the entry is the first target that is not before succ.
SnapToTarget(succ) == {t \in Targets : t >= succ /\ \A u \in Targets : u >= succ => t <= u}

FallThrough(i) == IF Code[i].gap THEN Padding ELSE i + 1

\* addSuccessor, called where the block ends.
Successors(b) ==
    LET ends == {i \in BlockInstrs(b) : BlockEnds(i)}
    IN  IF ends = {} THEN <<>>
        ELSE LET i == CHOOSE i \in ends : TRUE
                 target == IF HasTarget(i) THEN <<Code[i].to>> ELSE <<>>
             IN  CASE Code[i].op = "jcc" -> Append(target, FallThrough(i))
                   [] Code[i].op \in {"ret", "jmp"} ->
                        IF HasTarget(i) THEN target ELSE <<BB_INDIRECT>>
                   [] OTHER -> IF Code[i].gap THEN <<>> ELSE <<i + 1>>

Blocks == {b \in Targets : b <= Len(Code)}

Entries ==
    {b \in Blocks : ~Direct(b)}
        \cup (UNION {SnapToTarget(a) : a \in UNION {Reached(i) : i \in UNION {BlockInstrs(b) : b \in Blocks}}})
        \cup {b \in Blocks : Successors(b) # <<>>}

buildCFG ==
    /\ phase = "disassembled"
    /\ cfg' = [b \in Entries |-> IF b \in Blocks THEN Successors(b) ELSE <<>>]
    /\ phase' = "cfg"
    /\ UNCHANGED <<program, option, point, optimized, current, calls, instrument>>

-----------------------------------------------------------------------------
\* Step 2: instrumentation points and bad blocks

\* Mutant: the search for a longer instruction runs past the next target.
SelectablePastTarget(b) ==
    {j \in b..Len(Code) :
        \A i \in b..(j - 1) : Code[i].op \notin Jumps \cup {"call"} /\ ~Code[i].gap}

\* The instructions that are executed whenever the block is entered.
Selectable(b) ==
    {j \in b..Len(Code) :
        \A i \in b..(j - 1) : ~BlockEnds(i) /\ Code[i].op # "call"}

(***************************************************************************)
(* A later instruction is chosen if it is longer than the ones before it,  *)
(* and the search ends with one that a jump fits into.                     *)
(***************************************************************************)
InstrumentPoint(b) ==
    LET S == IF option.Oselect = "never" THEN {b} ELSE Selectable(b)
        fits == {j \in S : Code[j].size >= JmpqSize}
        longest == {j \in S : \A i \in S : Code[i].size <= Code[j].size}
        candidates == IF fits # {} THEN fits ELSE longest
    IN  CHOOSE j \in candidates : \A i \in candidates : j <= i

Bad(b) == Code[InstrumentPoint(b)].size < JmpqSize

\* Blocks in the targets without an entry trip an assertion.
selectPoints ==
    /\ phase = "cfg"
    /\ IF Blocks \subseteq DOMAIN cfg
       THEN /\ point' = [b \in DOMAIN cfg |-> IF b \in Blocks THEN InstrumentPoint(b) ELSE -1]
            /\ optimized' = {b \in Blocks : option.Oblock # "never" /\ Bad(b) /\ Direct(b)}
            /\ phase' = "optimize"
       ELSE phase' = "aborted" /\ UNCHANGED <<point, optimized>>
    /\ UNCHANGED <<program, option, cfg, current, calls, instrument>>

-----------------------------------------------------------------------------
\* Step 3: un-optimize blocks until paths are told apart

\* The entry at address a, or none.
BlockAt(a) == IF a \in DOMAIN cfg THEN a ELSE NullBlock

(***************************************************************************)
(* A call of optimizeBlock(b): the predecessor of each block reached from  *)
(* b without passing instrumentation, and the loops over successors that   *)
(* are under way, the innermost last.  The first is optimizeBlock's own,   *)
(* without a pred_bb; the others are those of nested calls of              *)
(* optimizePaths, each for an optimized block.                             *)
(***************************************************************************)
Loop(pred, b) == [pred |-> pred, succs |-> cfg[b]]
Call(b) == [bb |-> b, paths |-> <<>>, loops |-> <<Loop(NullBlock, b)>>]

Caller == calls[Len(calls)]
Inner == Caller.loops[Len(Caller.loops)]

\* The calls when the innermost goes on with these paths and loops.
Resume(paths, loops) ==
    [calls EXCEPT ![Len(calls)] = [bb |-> Caller.bb, paths |-> paths, loops |-> loops]]

\* The loop of step 3 over the CFG, in the order of addresses.
optimizeBlock ==
    /\ phase = "optimize" /\ option.Oblock = "default" /\ calls = <<>>
    /\ \E b \in DOMAIN cfg \ current :
          /\ \A c \in DOMAIN cfg \ current : b <= c
          /\ current' = current \cup {b}
          /\ calls' = IF b \in optimized THEN <<>> ELSE <<Call(b)>>
    /\ UNCHANGED <<program, option, phase, cfg, point, optimized, instrument>>

\* Mutant: a second path is tolerated if it comes from the block itself.
UnoptKeepDirect(pred, recorded) == pred

\* Mutant: two edges between the same blocks are tolerated.
UnoptOther(pred, recorded) ==
    IF pred = recorded THEN NullBlock ELSE IF pred # NullBlock THEN pred ELSE recorded

\* Of two predecessors of a block, the one that is un-optimized.
Unopt(pred, recorded) == IF pred # NullBlock THEN pred ELSE recorded

(***************************************************************************)
(* optimizePaths, called by the innermost loop for its next successor.  If *)
(* there is a path to it already, a block is un-optimized and handled at   *)
(* once, in a call with paths of its own.                                  *)
(***************************************************************************)
optimizePaths ==
    /\ calls # <<>> /\ Inner.succs # <<>>
    /\ LET pred == Inner.pred
           succ == BlockAt(Head(Inner.succs))
           loops == [Caller.loops EXCEPT
                       ![Len(Caller.loops)] = [pred |-> pred, succs |-> Tail(Inner.succs)]]
           unopt == Unopt(pred, Caller.paths[succ])
           paths == [x \in DOMAIN Caller.paths \cup {succ} |->
                       IF x = succ THEN pred ELSE Caller.paths[x]]
       IN  \/ /\ succ \in DOMAIN Caller.paths /\ unopt = NullBlock
              /\ calls' = Resume(Caller.paths, loops)
              /\ UNCHANGED optimized
           \/ /\ succ \in DOMAIN Caller.paths /\ unopt # NullBlock
              /\ optimized' = optimized \ {unopt}
              /\ calls' = Append(Resume(Caller.paths, loops), Call(unopt))
           \/ /\ succ \notin DOMAIN Caller.paths
              /\ calls' = Resume(paths, IF succ = NullBlock \/ succ \notin optimized THEN loops
                                        ELSE Append(loops, Loop(succ, succ)))
              /\ UNCHANGED optimized
    /\ UNCHANGED <<program, option, phase, cfg, point, current, instrument>>

\* The innermost loop has come to its end, and with it perhaps the call.
endLoop ==
    /\ calls # <<>> /\ Inner.succs = <<>>
    /\ calls' = IF Len(Caller.loops) = 1 THEN Front(calls)
                ELSE Resume(Caller.paths, Front(Caller.loops))
    /\ UNCHANGED <<program, option, phase, cfg, point, optimized, current, instrument>>

-----------------------------------------------------------------------------
\* Step 4
collectPoints ==
    /\ phase = "optimize" /\ calls = <<>>
    /\ option.Oblock = "default" => current = DOMAIN cfg
    /\ instrument' = {point[b] : b \in DOMAIN cfg \ optimized}
    /\ phase' = "done"
    /\ UNCHANGED <<program, option, cfg, point, optimized, current, calls>>

Init == /\ program \in Programs
        /\ option \in Options
        /\ phase = "disassembled"
        /\ cfg = <<>> /\ point = <<>> /\ calls = <<>>
        /\ optimized = {} /\ current = {} /\ instrument = {}

Next == buildCFG \/ selectPoints \/ optimizeBlock \/ optimizePaths \/ endLoop \/ collectPoints

Spec == Init /\ [][Next]_vars

-----------------------------------------------------------------------------
\* The blocks control may reach from b; where it goes to is unknown at NullBlock.
NextBlocks(b) == IF b = NullBlock THEN {} ELSE {BlockAt(cfg[b][i]) : i \in DOMAIN cfg[b]}

\* Paths from b on which only the last block may be instrumented, up to the
\* length at which a block must have occurred twice.
SilentPaths(b) ==
    LET ofLength[n \in 1..(Cardinality(DOMAIN cfg) + 1)] ==
            IF n = 1 THEN {<<c>> : c \in NextBlocks(b)}
            ELSE UNION {{Append(p, c) : c \in NextBlocks(p[n - 1])} :
                           p \in {q \in ofLength[n - 1] : q[n - 1] \in optimized}}
    IN  UNION {ofLength[n] : n \in 1..(Cardinality(DOMAIN cfg) + 1)}

\* The blocks that optimizeBlock has handled: its loop came to them, or they
\* were un-optimized, and the call has returned.
Handled(b) ==
    /\ b \in current \/ (b \in Blocks /\ Bad(b) /\ Direct(b))
    /\ \A k \in DOMAIN calls : calls[k].bb # b

(***************************************************************************)
(* What AFL's coverage map needs: between an instrumented block and the    *)
(* next instrumented one (or unknown code) there is one path, so the       *)
(* blocks that were executed follow from the ones that were recorded.  It  *)
(* holds from the moment optimizeBlock has returned from the block, also   *)
(* of each block that was un-optimized on the way, whatever is             *)
(* un-optimized later and in calls still under way.                        *)
(***************************************************************************)
CoverageTellsPaths ==
    phase \in {"optimize", "done"} /\ option.Oblock = "default" =>
        \A b \in DOMAIN cfg \ optimized :
            Handled(b) => \A p, q \in SilentPaths(b) : p[Len(p)] = q[Len(q)] => p = q

(***************************************************************************)
(* The trampoline of a block is executed exactly when the block is: there  *)
(* is no way into the instructions between the block's start and its       *)
(* point, and no way out of them.  No two blocks share a point.            *)
(***************************************************************************)
PointOnEveryEntry ==
    \A b \in DOMAIN point :
        point[b] # -1 =>
            /\ \A i \in (b + 1)..point[b] : i \notin Targets
            /\ \A i \in b..(point[b] - 1) : Code[i].op = "other" /\ ~Code[i].gap
            /\ \A c \in DOMAIN point \ {b} : point[c] # point[b]

=============================================================================
