---------------------------- MODULE MCInstrument ----------------------------
(***************************************************************************)
(* Small binaries: four instructions that end in any way and a last one    *)
(* that the plugin never handles.  The targets are those that CFGAnalysis  *)
(* (external) finds: the entry point and what data points to (not direct), *)
(* and where jumps and calls go to or fall through to (direct).            *)
(***************************************************************************)
EXTENDS Instrument

CONSTANT Addresses   \* where jumps go to

\* Which instructions have room for a jump, which addresses occur in data,
\* and which instructions have padding behind them.
Layouts == {[long |-> {}, pointed |-> {}, gaps |-> {}],
            [long |-> {4}, pointed |-> {}, gaps |-> {}],
            [long |-> {2, 3}, pointed |-> {4}, gaps |-> {}],
            [long |-> {}, pointed |-> {3}, gaps |-> {2}]}

Ops == {[op |-> "other", to |-> 0], [op |-> "ret", to |-> 0],
        [op |-> "jmp", to |-> BB_INDIRECT], [op |-> "call", to |-> 3]}
          \cup [op : {"jmp", "jcc"}, to : Addresses]

MCCode(ops, l) ==
    [i \in 1..5 |->
        [op   |-> IF i = 5 THEN "other" ELSE ops[i].op,
         to   |-> IF i = 5 THEN 0 ELSE ops[i].to,
         size |-> IF i \in l.long THEN 6 ELSE 2,
         gap  |-> i \in l.gaps]]

MCTargets(ops, l) ==
    LET direct == {ops[i].to : i \in {j \in 1..4 : ops[j].op \in {"jmp", "jcc", "call"}}}
                      \cup {i \in 2..5 : ops[i - 1].op = "jcc" /\ i - 1 \notin l.gaps}
        all == (direct \cup l.pointed \cup {1}) \ {BB_INDIRECT}
    IN  [t \in all |-> IF t \in l.pointed \cup {1} THEN "indirect" ELSE "direct"]

MCPrograms ==
    {[code |-> MCCode(ops, l), targets |-> MCTargets(ops, l)] :
        ops \in [1..4 -> Ops], l \in Layouts}

MCOptions == [Oblock : {"never", "default", "always"}, Oselect : {"default"}]
                \cup {[Oblock |-> "default", Oselect |-> "never"]}

-----------------------------------------------------------------------------
RECURSIVE verify(_, _)

\* The verifier of the debug option: it stops where a block is seen again.
verify(s, b) ==
    FoldLeft(LAMBDA t, a :
                LET c == BlockAt(a)
                    u == [t EXCEPT !.seen = @ \cup {c}]
                IN  IF t.error \/ c \in t.seen THEN [t EXCEPT !.error = TRUE]
                    ELSE IF c # NullBlock /\ c \in optimized THEN verify(u, c)
                    ELSE u,
             s, cfg[b])

VerifyError(b) == verify([seen |-> {}, error |-> FALSE], b).error

(***************************************************************************)
(* The plugin's own verifier agrees with the optimizer: it reports         *)
(* "multiple non-instrumented paths detected" only of instrumented blocks  *)
(* with two edges to one block, the degenerate case that optimizePaths     *)
(* allows; inside a path the optimizer allows none.                        *)
(***************************************************************************)
VerifierAgrees ==
    phase = "done" /\ option.Oblock = "default" =>
        \A b \in DOMAIN cfg \ optimized :
            VerifyError(b) => Len(cfg[b]) # Cardinality(NextBlocks(b))

=============================================================================
