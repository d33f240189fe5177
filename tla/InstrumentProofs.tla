-------------------------- MODULE InstrumentProofs --------------------------
(***************************************************************************)
(* Proofs about the E9AFL plugin, for every binary and every set of        *)
(* targets found in it.                                                    *)
(*                                                                         *)
(* The argument about step 3 is that a call of optimizeBlock builds a      *)
(* tree: paths gives each block that is reached from bb without            *)
(* instrumentation one predecessor, and every edge from a block that is    *)
(* still optimized is an edge of the tree, or is yet to come in a loop     *)
(* under way.  Un-optimizing blocks, in whichever call, only takes edges   *)
(* away from the others' trees.                                            *)
(***************************************************************************)
EXTENDS Instrument, FiniteSetTheorems, SequenceTheorems, WellFoundedInduction, TLAPS

\* BlockAt and NextBlocks of a graph.
At(g, a) == IF a \in DOMAIN g THEN a ELSE NullBlock
After(g, b) == {At(g, g[b][i]) : i \in DOMAIN g[b]}

Graph(g) == /\ NullBlock \notin DOMAIN g
            /\ \A b \in DOMAIN g : g[b] \in Seq(Int)

LoopsOf(g) == [pred : DOMAIN g \cup {NullBlock}, succs : Seq(Int)]

\* Edges that the loops come to.
Coming(g, loops, u, x) ==
    \E j \in DOMAIN loops :
        /\ loops[j].pred = u
        /\ \E i \in DOMAIN loops[j].succs : At(g, loops[j].succs[i]) = x

(***************************************************************************)
(* A call under way: each edge of its block, and of every optimized block  *)
(* that it has reached, is an edge of the tree or is yet to come.          *)
(***************************************************************************)
GoodCall(g, opt, c) ==
    /\ c.bb \in DOMAIN g \ opt
    /\ \A x \in DOMAIN c.paths : c.paths[x] \in DOMAIN g \cup {NullBlock}
    /\ c.loops \in Seq(LoopsOf(g)) /\ c.loops # <<>>
    /\ \A x \in After(g, c.bb) : \/ x \in DOMAIN c.paths /\ c.paths[x] \notin opt
                                 \/ Coming(g, c.loops, NullBlock, x)
    /\ \A u \in DOMAIN c.paths \cap opt : \A x \in After(g, u) :
          \/ x \in DOMAIN c.paths /\ c.paths[x] = u
          \/ Coming(g, c.loops, u, x)

\* What is left of a call that has returned: the tree below block b.
Tree(g, opt, b, P) ==
    /\ \A x \in After(g, b) : x \in DOMAIN P /\ P[x] \notin opt
    /\ \A u \in DOMAIN P \cap opt : \A x \in After(g, u) : x \in DOMAIN P /\ P[x] = u

Told(g, opt, b) == \E P : Tree(g, opt, b, P)

-----------------------------------------------------------------------------
\* A sequence without its last element.
LEMMA FrontFacts ==
    ASSUME NEW S, NEW s \in Seq(S), s # <<>>
    PROVE  /\ Front(s) \in Seq(S) /\ Len(Front(s)) = Len(s) - 1
           /\ DOMAIN Front(s) = 1..(Len(s) - 1)
           /\ \A i \in 1..(Len(s) - 1) : Front(s)[i] = s[i]
           /\ Len(s) # 1 => Front(s) # <<>>
  <1>1. Len(s) \in Nat /\ Len(s) > 0 /\ \A i \in 1..Len(s) : s[i] \in S
    BY ElementOfSeq
  <1>2. \A i \in 1..(Len(s) - 1) : s[i] \in S
    BY <1>1
  <1>3. /\ Front(s) \in Seq(S)
        /\ Len(Front(s)) = IF 1 <= Len(s) - 1 THEN (Len(s) - 1) - 1 + 1 ELSE 0
        /\ \A i \in 1..((Len(s) - 1) - 1 + 1) : Front(s)[i] = s[1 + i - 1]
    BY <1>1, <1>2, SubSeqProperties DEF Front
  <1>4. Len(Front(s)) = Len(s) - 1
    <2>1. CASE 1 <= Len(s) - 1
      BY <1>1, <1>3, <2>1
    <2>2. CASE Len(s) = 1
      BY <1>3, <2>2
    <2>3. ASSUME NEW n \in Nat, n > 0 PROVE n = 1 \/ 1 <= n - 1
      BY <2>3
    <2>4. Len(s) = 1 \/ 1 <= Len(s) - 1
      BY <1>1, <2>3
    <2>5. QED  BY <2>1, <2>2, <2>4
  <1>5. \A i \in 1..(Len(s) - 1) : Front(s)[i] = s[i]
    BY <1>1, <1>3
  <1>6. Len(s) # 1 => Front(s) # <<>>
    BY <1>1, <1>3, <1>4, EmptySeq
  <1>7. DOMAIN Front(s) = 1..(Len(s) - 1)
    BY <1>3, <1>4, LenProperties
  <1>8. QED  BY <1>3, <1>4, <1>5, <1>6, <1>7

\* The last loop, and the sequence of its successors.
LEMMA LastLoop ==
    ASSUME NEW g, NEW loops \in Seq(LoopsOf(g)), loops # <<>>
    PROVE  /\ Len(loops) \in Nat /\ Len(loops) > 0 /\ DOMAIN loops = 1..Len(loops)
           /\ \A j \in 1..Len(loops) : /\ loops[j].succs \in Seq(Int)
                                       /\ loops[j].pred \in DOMAIN g \cup {NullBlock}
  <1>1. Len(loops) \in Nat /\ Len(loops) > 0 /\ DOMAIN loops = 1..Len(loops)
    OBVIOUS
  <1>2. \A j \in 1..Len(loops) : loops[j] \in LoopsOf(g)
    BY <1>1, ElementOfSeq
  <1>3. QED  BY <1>1, <1>2 DEF LoopsOf

\* The loops after one step of the last one.
Stepped(loops) ==
    [loops EXCEPT ![Len(loops)] = [pred  |-> loops[Len(loops)].pred,
                                   succs |-> Tail(loops[Len(loops)].succs)]]

\* They come to all edges that the loops came to, but for the next one.
LEMMA RestOfLoop ==
    ASSUME NEW g, NEW loops \in Seq(LoopsOf(g)), loops # <<>>, loops[Len(loops)].succs # <<>>
    PROVE  /\ Stepped(loops) \in Seq(LoopsOf(g)) /\ Stepped(loops) # <<>>
           /\ \A u, x : Coming(g, loops, u, x) =>
                 \/ Coming(g, Stepped(loops), u, x)
                 \/ u = loops[Len(loops)].pred /\ x = At(g, Head(loops[Len(loops)].succs))
  <1> DEFINE n == Len(loops)
             s == loops[n].succs
             rest == Stepped(loops)
             p == loops[n].pred
             next == [pred |-> p, succs |-> Tail(s)]
  <1>1. /\ n \in Nat /\ n > 0 /\ DOMAIN loops = 1..n
        /\ s \in Seq(Int) /\ s # <<>> /\ p \in DOMAIN g \cup {NullBlock}
    BY LastLoop
  <1>2. /\ Len(s) \in Nat /\ DOMAIN s = 1..Len(s) /\ Head(s) = s[1]
        /\ Tail(s) \in Seq(Int) /\ Len(Tail(s)) = Len(s) - 1
        /\ DOMAIN Tail(s) = 1..(Len(s) - 1)
        /\ \A i \in 1..(Len(s) - 1) : Tail(s)[i] = s[i + 1]
    BY <1>1, HeadTailProperties
  <1>3. next \in LoopsOf(g)
    BY <1>1, <1>2 DEF LoopsOf
  <1> HIDE DEF next
  <1>4. rest = [loops EXCEPT ![n] = next]
    BY DEF next, Stepped
  <1>5. /\ rest \in Seq(LoopsOf(g)) /\ rest # <<>> /\ DOMAIN rest = 1..n
        /\ rest[n] = next /\ \A j \in 1..n : j # n => rest[j] = loops[j]
    <2>1. n \in 1..Len(loops)
      BY <1>1
    <2> HIDE DEF rest, n
    <2>2. rest \in Seq(LoopsOf(g)) /\ Len(rest) = Len(loops)
      BY <1>3, <1>4, <2>1, ExceptSeq
    <2>3. QED  BY <1>1, <1>4, <2>1, <2>2
  <1>6. ASSUME NEW u, NEW x, Coming(g, loops, u, x)
        PROVE  Coming(g, rest, u, x) \/ (u = p /\ x = At(g, Head(s)))
    <2> HIDE DEF rest, s, p, n
    <2>1. PICK j \in 1..n : /\ loops[j].pred = u
                            /\ \E i \in DOMAIN loops[j].succs : At(g, loops[j].succs[i]) = x
      BY <1>1, <1>6 DEF Coming
    <2>2. CASE j # n
      BY <1>5, <2>1, <2>2 DEF Coming
    <2>3. CASE j = n
      <3>1. PICK i \in 1..Len(s) : At(g, s[i]) = x
        BY <1>2, <2>1, <2>3 DEF s
      <3>2. CASE i = 1
        BY <1>2, <2>1, <2>3, <3>1, <3>2 DEF p
      <3>3. CASE i # 1
        <4>1. i - 1 \in DOMAIN Tail(s) /\ Tail(s)[i - 1] = s[i]
          BY <1>2, <3>3
        <4>2. rest[n].pred = u /\ rest[n].succs = Tail(s)
          BY <1>5, <2>1, <2>3 DEF next, p
        <4>3. n \in DOMAIN rest
          BY <1>1, <1>5
        <4>4. QED  BY <3>1, <4>1, <4>2, <4>3 DEF Coming
      <3>4. QED  BY <3>2, <3>3
    <2>4. QED  BY <2>2, <2>3
  <1>7. QED  BY <1>5, <1>6

\* A loop that is added comes to all its edges, and changes no other.
LEMMA AddedLoop ==
    ASSUME NEW g, Graph(g), NEW loops \in Seq(LoopsOf(g)), NEW b \in DOMAIN g
    PROVE  LET new == Append(loops, [pred |-> b, succs |-> g[b]])
           IN  /\ new \in Seq(LoopsOf(g)) /\ new # <<>>
               /\ \A u, x : Coming(g, loops, u, x) => Coming(g, new, u, x)
               /\ \A x \in After(g, b) : Coming(g, new, b, x)
  <1> DEFINE loop == [pred |-> b, succs |-> g[b]]
             new == Append(loops, loop)
             n == Len(loops)
  <1>1. loop \in LoopsOf(g)
    BY DEF LoopsOf, Graph
  <1>2. loop.pred = b /\ loop.succs = g[b]
    OBVIOUS
  <1> HIDE DEF loop
  <1>3. /\ n \in Nat /\ DOMAIN loops = 1..n
        /\ new \in Seq(LoopsOf(g)) /\ new # <<>> /\ DOMAIN new = 1..(n + 1)
        /\ new[n + 1] = loop /\ \A j \in 1..n : new[j] = loops[j]
    BY <1>1, AppendProperties
  <1> HIDE DEF new, n
  <1>4. ASSUME NEW u, NEW x, Coming(g, loops, u, x) PROVE Coming(g, new, u, x)
    BY <1>3, <1>4 DEF Coming
  <1>5. ASSUME NEW x \in After(g, b) PROVE Coming(g, new, b, x)
    <2>1. PICK i \in DOMAIN g[b] : x = At(g, g[b][i])
      BY DEF After
    <2>2. n + 1 \in DOMAIN new
      BY <1>3
    <2>3. QED  BY <1>2, <1>3, <2>1, <2>2 DEF Coming
  <1>6. QED  BY <1>3, <1>4, <1>5 DEF new, loop

\* A loop that has ended comes to nothing.
LEMMA EndedLoop ==
    ASSUME NEW g, NEW loops \in Seq(LoopsOf(g)), loops # <<>>, loops[Len(loops)].succs = <<>>
    PROVE  /\ Len(loops) = 1 => \A u, x : ~Coming(g, loops, u, x)
           /\ Len(loops) # 1 =>
                 /\ Front(loops) \in Seq(LoopsOf(g)) /\ Front(loops) # <<>>
                 /\ \A u, x : Coming(g, loops, u, x) => Coming(g, Front(loops), u, x)
  <1> DEFINE n == Len(loops)
  <1>1. n \in Nat /\ n > 0 /\ DOMAIN loops = 1..n
    BY LastLoop
  <1>2. ASSUME NEW u, NEW x, Coming(g, loops, u, x)
        PROVE  \E j \in 1..(n - 1) :
                  /\ loops[j].pred = u
                  /\ \E i \in DOMAIN loops[j].succs : At(g, loops[j].succs[i]) = x
    <2>1. PICK j \in DOMAIN loops :
                  /\ loops[j].pred = u
                  /\ \E i \in DOMAIN loops[j].succs : At(g, loops[j].succs[i]) = x
      BY <1>2 DEF Coming
    <2>2. j # n
      BY <2>1
    <2>3. j \in 1..n
      BY <1>1
    <2> HIDE DEF n
    <2>4. j \in 1..(n - 1)
      BY <1>1, <2>2, <2>3
    <2>5. QED  BY <2>1, <2>4
  <1>3. ASSUME n = 1, NEW u, NEW x, Coming(g, loops, u, x) PROVE FALSE
    BY <1>2, <1>3
  <1>4. ASSUME n # 1
        PROVE  /\ Front(loops) \in Seq(LoopsOf(g)) /\ Front(loops) # <<>>
               /\ DOMAIN Front(loops) = 1..(n - 1)
               /\ \A j \in 1..(n - 1) : Front(loops)[j] = loops[j]
    BY <1>1, <1>4, FrontFacts
  <1>5. ASSUME n # 1, NEW u, NEW x, Coming(g, loops, u, x) PROVE Coming(g, Front(loops), u, x)
    <2> HIDE DEF n
    <2>1. PICK j \in 1..(n - 1) :
                  /\ loops[j].pred = u
                  /\ \E i \in DOMAIN loops[j].succs : At(g, loops[j].succs[i]) = x
      BY <1>2, <1>5
    <2>2. j \in DOMAIN Front(loops) /\ Front(loops)[j] = loops[j]
      BY <1>4, <1>5
    <2>3. QED  BY <2>1, <2>2 DEF Coming
  <1>6. QED  BY <1>3, <1>4, <1>5

-----------------------------------------------------------------------------
\* Un-optimizing blocks takes obligations away, and never adds one.
LEMMA FewerOptimized ==
    ASSUME NEW g, NEW opt, NEW opt2 \in SUBSET opt
    PROVE  /\ \A c : GoodCall(g, opt, c) => GoodCall(g, opt2, c)
           /\ \A b : Told(g, opt, b) => Told(g, opt2, b)
  <1>1. ASSUME NEW c, GoodCall(g, opt, c) PROVE GoodCall(g, opt2, c)
    BY <1>1 DEF GoodCall
  <1>2. ASSUME NEW b, Told(g, opt, b) PROVE Told(g, opt2, b)
    <2>1. PICK P : Tree(g, opt, b, P)
      BY <1>2 DEF Told
    <2>2. Tree(g, opt2, b, P)
      BY <2>1 DEF Tree
    <2>3. QED  BY <2>2 DEF Told
  <1>3. QED  BY <1>1, <1>2

\* A call begins with all its edges to come.
LEMMA NewCall ==
    ASSUME NEW g, Graph(g), NEW opt, NEW b \in DOMAIN g \ opt
    PROVE  GoodCall(g, opt, [bb |-> b, paths |-> <<>>,
                             loops |-> <<[pred |-> NullBlock, succs |-> g[b]]>>])
  <1> DEFINE loop == [pred |-> NullBlock, succs |-> g[b]]
             loops == <<loop>>
             c == [bb |-> b, paths |-> <<>>, loops |-> loops]
  <1>1. loop \in LoopsOf(g) /\ loop.pred = NullBlock /\ loop.succs = g[b]
    BY DEF LoopsOf, Graph
  <1> HIDE DEF loop
  <1>2. /\ loops \in Seq(LoopsOf(g)) /\ loops # <<>>
        /\ 1 \in DOMAIN loops /\ loops[1] = loop
    BY <1>1
  <1> HIDE DEF loops
  <1>3. c.bb = b /\ c.paths = <<>> /\ c.loops = loops /\ DOMAIN c.paths = {}
    OBVIOUS
  <1> HIDE DEF c
  <1>4. ASSUME NEW x \in After(g, b) PROVE Coming(g, loops, NullBlock, x)
    <2>1. PICK i \in DOMAIN g[b] : x = At(g, g[b][i])
      BY DEF After
    <2>2. QED  BY <1>1, <1>2, <2>1 DEF Coming
  <1>5. GoodCall(g, opt, c)
    BY <1>2, <1>3, <1>4 DEF GoodCall
  <1>6. QED  BY <1>5 DEF c, loops, loop

\* The block and the predecessor that the innermost loop comes to.
LastPred(c) == c.loops[Len(c.loops)].pred
LastSuccs(c) == c.loops[Len(c.loops)].succs

(***************************************************************************)
(* optimizePaths where there is a path already: the edge it comes to is    *)
(* the edge of a block that is instrumented from now on, or it is one of   *)
(* two edges from the call's own block.                                    *)
(***************************************************************************)
LEMMA KnownPath ==
    ASSUME NEW g, Graph(g), NEW opt \in SUBSET DOMAIN g, NEW c, GoodCall(g, opt, c),
           LastSuccs(c) # <<>>, NEW succ, succ = At(g, Head(LastSuccs(c))),
           succ \in DOMAIN c.paths, NEW opt2 \in SUBSET opt,
           Unopt(LastPred(c), c.paths[succ]) \notin opt2, NEW d,
           d.bb = c.bb, d.paths = c.paths, d.loops = Stepped(c.loops)
    PROVE  GoodCall(g, opt2, d)
  <1> DEFINE P == c.paths
             pred == LastPred(c)
  <1>1. /\ GoodCall(g, opt2, c) /\ NullBlock \notin opt2
    BY FewerOptimized DEF Graph
  <1>2. /\ d.loops \in Seq(LoopsOf(g)) /\ d.loops # <<>>
        /\ \A u, x : Coming(g, c.loops, u, x) =>
              Coming(g, d.loops, u, x) \/ (u = pred /\ x = succ)
    BY RestOfLoop DEF GoodCall, LastPred, LastSuccs
  <1>3. pred # NullBlock => pred \notin opt2
    BY DEF Unopt
  <1>4. pred = NullBlock => P[succ] \notin opt2
    BY DEF Unopt
  <1> HIDE DEF P, pred
  <1>5. ASSUME NEW x \in After(g, d.bb)
        PROVE  (x \in DOMAIN P /\ P[x] \notin opt2) \/ Coming(g, d.loops, NullBlock, x)
    <2>1. (x \in DOMAIN P /\ P[x] \notin opt2) \/ Coming(g, c.loops, NullBlock, x)
      BY <1>1 DEF GoodCall, P
    <2>2. succ \in DOMAIN P
      BY DEF P
    <2>3. QED  BY <1>2, <1>4, <2>1, <2>2
  <1>6. ASSUME NEW u \in DOMAIN P \cap opt2, NEW x \in After(g, u)
        PROVE  (x \in DOMAIN P /\ P[x] = u) \/ Coming(g, d.loops, u, x)
    <2>1. (x \in DOMAIN P /\ P[x] = u) \/ Coming(g, c.loops, u, x)
      BY <1>1 DEF GoodCall, P
    <2>2. u # NullBlock
      BY <1>1
    <2>3. QED  BY <1>2, <1>3, <2>1, <2>2
  <1>7. d.bb \in DOMAIN g \ opt2 /\ \A x \in DOMAIN d.paths : d.paths[x] \in DOMAIN g \cup {NullBlock}
    BY <1>1 DEF GoodCall
  <1>8. QED  BY <1>2, <1>5, <1>6, <1>7 DEF GoodCall, P

(***************************************************************************)
(* optimizePaths where there is no path yet: the edge it comes to becomes  *)
(* an edge of the tree, and the edges of an optimized successor are yet to *)
(* come.                                                                   *)
(***************************************************************************)
LEMMA NewPath ==
    ASSUME NEW g, Graph(g), NEW opt \in SUBSET DOMAIN g, NEW c, GoodCall(g, opt, c),
           LastSuccs(c) # <<>>, NEW succ, succ = At(g, Head(LastSuccs(c))),
           succ \notin DOMAIN c.paths, NEW d, d.bb = c.bb,
           d.paths = [x \in DOMAIN c.paths \cup {succ} |->
                        IF x = succ THEN LastPred(c) ELSE c.paths[x]],
           d.loops = IF succ = NullBlock \/ succ \notin opt THEN Stepped(c.loops)
                     ELSE Append(Stepped(c.loops), [pred |-> succ, succs |-> g[succ]])
    PROVE  GoodCall(g, opt, d)
  <1> DEFINE P == c.paths
             Q == d.paths
             pred == LastPred(c)
             rest == Stepped(c.loops)
             new == Append(rest, [pred |-> succ, succs |-> g[succ]])
  <1>1. /\ DOMAIN Q = DOMAIN P \cup {succ} /\ Q[succ] = pred
        /\ \A x \in DOMAIN P : Q[x] = P[x]
    OBVIOUS
  <1>2. NullBlock \notin opt
    BY DEF Graph
  <1>3. /\ rest \in Seq(LoopsOf(g)) /\ rest # <<>>
        /\ \A u, x : Coming(g, c.loops, u, x) =>
              Coming(g, rest, u, x) \/ (u = pred /\ x = succ)
    BY RestOfLoop DEF GoodCall, LastPred, LastSuccs
  <1>4. pred \in DOMAIN g \cup {NullBlock}
    BY LastLoop DEF GoodCall, LastPred
  <1>5. /\ d.loops \in Seq(LoopsOf(g)) /\ d.loops # <<>>
        /\ \A u, x : Coming(g, rest, u, x) => Coming(g, d.loops, u, x)
        /\ succ \in opt => \A x \in After(g, succ) : Coming(g, d.loops, succ, x)
    <2>1. CASE succ \notin opt
      BY <1>3, <2>1
    <2>2. CASE succ \in opt
      <3>1. d.loops = new /\ succ \in DOMAIN g
        BY <1>2, <2>2
      <3>2. QED  BY <1>3, <3>1, AddedLoop
    <2>3. QED  BY <2>1, <2>2
  <1> HIDE DEF P, Q, pred, rest
  <1>6. ASSUME NEW x \in After(g, d.bb)
        PROVE  (x \in DOMAIN Q /\ Q[x] \notin opt) \/ Coming(g, d.loops, NullBlock, x)
    <2>1. (x \in DOMAIN P /\ P[x] \notin opt) \/ Coming(g, c.loops, NullBlock, x)
      BY DEF GoodCall, P
    <2>2. QED  BY <1>1, <1>2, <1>3, <1>5, <2>1
  <1>7. ASSUME NEW u \in DOMAIN Q \cap opt, NEW x \in After(g, u)
        PROVE  (x \in DOMAIN Q /\ Q[x] = u) \/ Coming(g, d.loops, u, x)
    <2>1. CASE u = succ
      BY <1>5, <2>1
    <2>2. CASE u \in DOMAIN P
      <3>1. (x \in DOMAIN P /\ P[x] = u) \/ Coming(g, c.loops, u, x)
        BY <2>2 DEF GoodCall, P
      <3>2. QED  BY <1>1, <1>3, <1>5, <3>1
    <2>3. QED  BY <1>1, <2>1, <2>2
  <1>8. d.bb \in DOMAIN g \ opt /\ \A x \in DOMAIN Q : Q[x] \in DOMAIN g \cup {NullBlock}
    BY <1>1, <1>4 DEF GoodCall, P
  <1>9. QED  BY <1>5, <1>6, <1>7, <1>8 DEF GoodCall, Q

\* The end of a loop: the call goes on with the loop around it, or is done and
\* has built the tree.
LEMMA LoopEnds ==
    ASSUME NEW g, NEW opt, NEW c, GoodCall(g, opt, c), LastSuccs(c) = <<>>
    PROVE  /\ Len(c.loops) = 1 => Told(g, opt, c.bb)
           /\ Len(c.loops) # 1 =>
                 \A d : d.bb = c.bb /\ d.paths = c.paths /\ d.loops = Front(c.loops)
                           => GoodCall(g, opt, d)
  <1>1. /\ Len(c.loops) = 1 => \A u, x : ~Coming(g, c.loops, u, x)
        /\ Len(c.loops) # 1 =>
              /\ Front(c.loops) \in Seq(LoopsOf(g)) /\ Front(c.loops) # <<>>
              /\ \A u, x : Coming(g, c.loops, u, x) => Coming(g, Front(c.loops), u, x)
    BY EndedLoop DEF GoodCall, LastSuccs
  <1>2. ASSUME Len(c.loops) = 1 PROVE Told(g, opt, c.bb)
    <2>1. Tree(g, opt, c.bb, c.paths)
      BY <1>1, <1>2 DEF Tree, GoodCall
    <2>2. QED  BY <2>1 DEF Told
  <1>3. ASSUME Len(c.loops) # 1, NEW d,
               d.bb = c.bb, d.paths = c.paths, d.loops = Front(c.loops)
        PROVE  GoodCall(g, opt, d)
    BY <1>1, <1>3 DEF GoodCall
  <1>4. QED  BY <1>2, <1>3

-----------------------------------------------------------------------------
\* A set of numbers has a smallest one.
LEMMA Smallest ==
    ASSUME NEW S \in SUBSET Nat, S # {}
    PROVE  \E x \in S : \A y \in S : x <= y
  <1>1. PICK x \in S : \A y \in S : ~(<<y, x>> \in OpToRel(<, Nat))
    BY NatLessThanWellFounded, WFMin
  <1>2. \A y \in S : ~(y < x)
    BY <1>1 DEF OpToRel
  <1>3. QED  BY <1>2

\* A path from b on which only the last block may be instrumented.
Silent(g, opt, b, p) ==
    /\ p \in Seq(DOMAIN g \cup {NullBlock}) /\ p # <<>>
    /\ p[1] \in After(g, b)
    /\ \A i \in 1..(Len(p) - 1) : p[i] \in opt /\ p[i + 1] \in After(g, p[i])

\* A silent path runs along the edges of the tree.
LEMMA AlongTheTree ==
    ASSUME NEW g, NEW opt, NEW b, NEW P, Tree(g, opt, b, P), NEW p, Silent(g, opt, b, p)
    PROVE  /\ Len(p) \in Nat \ {0} /\ P[p[1]] \notin opt
           /\ \A i \in 1..Len(p) : i # 1 => P[p[i]] = p[i - 1] /\ p[i - 1] \in opt
  <1>1. Len(p) \in Nat \ {0}
    BY EmptySeq DEF Silent
  <1>2. p[1] \in DOMAIN P /\ P[p[1]] \notin opt
    BY DEF Silent, Tree
  <1> DEFINE n == Len(p)
             Off == {i \in 1..n : p[i] \notin DOMAIN P}
  <1>3. ASSUME NEW i \in 1..n, i # 1
        PROVE  i - 1 \in 1..n /\ p[i - 1] \in opt /\ p[i] \in After(g, p[i - 1])
    <2> DEFINE j == i - 1
    <2>1. j \in 1..(Len(p) - 1) /\ j + 1 = i
      BY <1>1, <1>3
    <2>2. p[j] \in opt /\ p[j + 1] \in After(g, p[j])
      BY <2>1 DEF Silent
    <2>3. QED  BY <1>1, <2>1, <2>2
  <1>4. Off = {}
    <2>1. SUFFICES ASSUME Off # {} PROVE FALSE
      OBVIOUS
    <2>2. PICK i \in Off : \A j \in Off : i <= j
      <3>1. Off \in SUBSET Nat
        BY <1>1
      <3> HIDE DEF Off
      <3>2. QED  BY <2>1, <3>1, Smallest
    <2>3. i \in 1..n /\ p[i] \notin DOMAIN P /\ i # 1
      BY <1>2
    <2>4. i - 1 \in 1..n /\ i - 1 \notin Off
      BY <1>1, <1>3, <2>2, <2>3
    <2>5. p[i - 1] \in DOMAIN P
      BY <2>4
    <2>6. QED  BY <1>3, <2>3, <2>5 DEF Tree
  <1>5. ASSUME NEW i \in 1..n, i # 1
        PROVE  P[p[i]] = p[i - 1] /\ p[i - 1] \in opt
    <2>1. i - 1 \in 1..n /\ p[i - 1] \in DOMAIN P
      BY <1>3, <1>4, <1>5
    <2>2. QED  BY <1>3, <1>5, <2>1 DEF Tree
  <1>6. QED  BY <1>1, <1>2, <1>5

\* In a tree there is one silent path to a block.
LEMMA OnePath ==
    ASSUME NEW g, NEW opt, NEW b, Told(g, opt, b),
           NEW p, Silent(g, opt, b, p), NEW q, Silent(g, opt, b, q), p[Len(p)] = q[Len(q)]
    PROVE  p = q
  <1>1. PICK P : Tree(g, opt, b, P)
    BY DEF Told
  <1> DEFINE m == Len(p)
             n == Len(q)
             Differ == {k \in Nat : k < m /\ k < n /\ p[m - k] # q[n - k]}
  <1>2. /\ m \in Nat \ {0} /\ P[p[1]] \notin opt
        /\ \A i \in 1..m : i # 1 => P[p[i]] = p[i - 1] /\ p[i - 1] \in opt
    BY <1>1, AlongTheTree
  <1>3. /\ n \in Nat \ {0} /\ P[q[1]] \notin opt
        /\ \A i \in 1..n : i # 1 => P[q[i]] = q[i - 1] /\ q[i - 1] \in opt
    BY <1>1, AlongTheTree
  <1>4. p[m] = q[n]
    OBVIOUS
  <1> HIDE DEF m, n
  <1>5. Differ = {}
    <2>1. SUFFICES ASSUME Differ # {} PROVE FALSE
      OBVIOUS
    <2>2. PICK k \in Differ : \A j \in Differ : k <= j
      BY <2>1, Smallest
    <2>3. k \in Nat /\ k < m /\ k < n /\ p[m - k] # q[n - k]
      OBVIOUS
    <2>4. m - 0 = m /\ n - 0 = n
      BY <1>2, <1>3
    <2>5. k # 0
      BY <1>4, <2>3, <2>4
    <2> DEFINE j == k - 1
    <2>6. j \in Nat /\ j < m /\ j < n /\ ~(k <= j)
      BY <1>2, <1>3, <2>3, <2>5
    <2>7. p[m - j] = q[n - j]
      BY <2>2, <2>6
    <2> DEFINE x == m - j
               y == n - j
    <2>8. /\ x \in 1..m /\ x # 1 /\ x - 1 = m - k
          /\ y \in 1..n /\ y # 1 /\ y - 1 = n - k
      BY <1>2, <1>3, <2>3, <2>5
    <2>9. p[x] = q[y]
      BY <2>7
    <2> HIDE DEF x, y, Differ
    <2>10. P[p[x]] = p[x - 1] /\ P[q[y]] = q[y - 1]
      BY <1>2, <1>3, <2>8
    <2>11. QED  BY <2>3, <2>8, <2>9, <2>10
  <1>6. ~(m < n)
    <2>1. SUFFICES ASSUME m < n PROVE FALSE
      OBVIOUS
    <2> DEFINE k == m - 1
               y == n - k
    <2>2. /\ k \in Nat /\ k < m /\ k < n /\ m - k = 1
          /\ y \in 1..n /\ y # 1
      BY <1>2, <1>3, <2>1
    <2> HIDE DEF k
    <2>3. p[1] = q[y]
      BY <1>5, <2>2
    <2> HIDE DEF y, Differ
    <2>4. QED  BY <1>2, <1>3, <2>2, <2>3
  <1>7. ~(n < m)
    <2>1. SUFFICES ASSUME n < m PROVE FALSE
      OBVIOUS
    <2> DEFINE k == n - 1
               x == m - k
    <2>2. /\ k \in Nat /\ k < m /\ k < n /\ n - k = 1
          /\ x \in 1..m /\ x # 1
      BY <1>2, <1>3, <2>1
    <2> HIDE DEF k
    <2>3. q[1] = p[x]
      BY <1>5, <2>2
    <2> HIDE DEF x, Differ
    <2>4. QED  BY <1>2, <1>3, <2>2, <2>3
  <1>8. m = n
    BY <1>2, <1>3, <1>6, <1>7
  <1>9. ASSUME NEW i \in 1..m PROVE p[i] = q[i]
    <2> DEFINE k == m - i
    <2>1. k \in Nat /\ k < m /\ k < n /\ m - k = i /\ n - k = i
      BY <1>2, <1>8
    <2> HIDE DEF k
    <2>2. QED  BY <1>5, <2>1
  <1>10. QED  BY <1>8, <1>9, SeqEqual DEF Silent, m, n

\* Silent paths of length 1, and how longer ones arise from shorter ones.
LEMMA SilentOne ==
    ASSUME NEW g, NEW opt, NEW b
    PROVE  {p \in Seq(DOMAIN g \cup {NullBlock}) : Silent(g, opt, b, p) /\ Len(p) = 1}
              = {<<c>> : c \in After(g, b)}
  <1> DEFINE V == DOMAIN g \cup {NullBlock}
  <1>1. ASSUME NEW p \in Seq(V), Silent(g, opt, b, p), Len(p) = 1
        PROVE  \E c \in After(g, b) : p = <<c>>
    <2>1. p[1] \in After(g, b) /\ p[1] \in V
      BY <1>1, ElementOfSeq DEF Silent
    <2> HIDE DEF V
    <2>2. p = <<p[1]>>
      BY <1>1, <2>1, SeqEqual
    <2>3. QED  BY <2>1, <2>2
  <1>2. ASSUME NEW c \in After(g, b)
        PROVE  <<c>> \in Seq(V) /\ Silent(g, opt, b, <<c>>) /\ Len(<<c>>) = 1
    <2>1. c \in V
      BY DEF After, At
    <2> DEFINE p == <<c>>
    <2>2. p \in Seq(V) /\ p # <<>> /\ p[1] = c /\ Len(p) = 1
      BY <2>1
    <2> HIDE DEF p
    <2>3. Silent(g, opt, b, p)
      BY <2>2 DEF Silent
    <2>4. QED  BY <2>2, <2>3 DEF p
  <1>3. QED  BY <1>1, <1>2

Extended(g, opt, b, n, p) ==
    \E q : /\ Silent(g, opt, b, q) /\ Len(q) = n - 1 /\ q[n - 1] \in opt
           /\ \E c \in After(g, q[n - 1]) : p = Append(q, c)

LEMMA SilentMore ==
    ASSUME NEW g, NEW opt, NEW b, NEW n \in Nat, n > 1, NEW p
    PROVE  (Silent(g, opt, b, p) /\ Len(p) = n) <=> Extended(g, opt, b, n, p)
  <1> DEFINE V == DOMAIN g \cup {NullBlock}
  <1>1. ASSUME Silent(g, opt, b, p), Len(p) = n
        PROVE  \E q : /\ Silent(g, opt, b, q) /\ Len(q) = n - 1 /\ q[n - 1] \in opt
                      /\ \E c \in After(g, q[n - 1]) : p = Append(q, c)
    <2> DEFINE q == Front(p)
    <2>1. /\ p \in Seq(V) /\ p # <<>> /\ p[1] \in After(g, b)
          /\ \A i \in 1..(n - 1) : p[i] \in opt /\ p[i + 1] \in After(g, p[i])
      BY <1>1 DEF Silent
    <2>2. p[n] \in V
      BY <1>1, <2>1, ElementOfSeq
    <2> HIDE DEF V
    <2>3. /\ q \in Seq(V) /\ Len(q) = n - 1 /\ q # <<>>
          /\ \A i \in 1..(n - 1) : q[i] = p[i]
      <3>1. Len(p) # 1
        BY <1>1
      <3>2. QED  BY <1>1, <2>1, <3>1, FrontFacts
    <2> HIDE DEF q
    <2>4. q[1] \in After(g, b) /\ q[n - 1] \in opt /\ p[n] \in After(g, q[n - 1])
      <3> DEFINE m == n - 1
      <3>1. m \in 1..(n - 1) /\ m + 1 = n /\ 1 \in 1..(n - 1)
        OBVIOUS
      <3> HIDE DEF m
      <3>2. q[1] = p[1] /\ q[m] = p[m] /\ p[m] \in opt /\ p[m + 1] \in After(g, p[m])
        BY <2>1, <2>3, <3>1
      <3>3. QED  BY <2>1, <3>1, <3>2 DEF m
    <2>5. ASSUME NEW i \in 1..(Len(q) - 1) PROVE q[i] \in opt /\ q[i + 1] \in After(g, q[i])
      <3>1. i \in 1..(n - 1) /\ i + 1 \in 1..(n - 1)
        BY <2>3
      <3>2. QED  BY <2>1, <2>3, <3>1
    <2>6. Silent(g, opt, b, q)
      BY <2>3, <2>4, <2>5 DEF Silent, V
    <2>7. p = Append(q, p[n])
      <3> DEFINE r == Append(q, p[n])
      <3>1. /\ r \in Seq(V) /\ Len(r) = n /\ r[n] = p[n]
            /\ \A i \in 1..(n - 1) : r[i] = p[i]
        BY <2>2, <2>3, AppendProperties
      <3> HIDE DEF r
      <3>2. \A i \in 1..n : r[i] = p[i]
        BY <3>1
      <3>3. p = r
        BY <1>1, <2>1, <3>1, <3>2, SeqEqual
      <3>4. QED  BY <3>3 DEF r
    <2>8. QED  BY <2>3, <2>4, <2>6, <2>7
  <1>2. ASSUME NEW q, Silent(g, opt, b, q), Len(q) = n - 1, q[n - 1] \in opt,
               NEW c \in After(g, q[n - 1]), p = Append(q, c)
        PROVE  Silent(g, opt, b, p) /\ Len(p) = n
    <2>1. c \in V
      BY DEF After, At
    <2>2. /\ q \in Seq(V) /\ q[1] \in After(g, b)
          /\ \A i \in 1..(Len(q) - 1) : q[i] \in opt /\ q[i + 1] \in After(g, q[i])
      BY <1>2 DEF Silent
    <2> HIDE DEF V
    <2>3. /\ p \in Seq(V) /\ p # <<>> /\ Len(p) = n /\ p[n] = c
          /\ \A i \in 1..(n - 1) : p[i] = q[i]
      BY <1>2, <2>1, <2>2, AppendProperties
    <2>4. p[1] \in After(g, b)
      BY <2>2, <2>3
    <2>5. ASSUME NEW i \in 1..(Len(p) - 1) PROVE p[i] \in opt /\ p[i + 1] \in After(g, p[i])
      <3>1. CASE i = n - 1
        BY <1>2, <2>3, <3>1
      <3>2. CASE i # n - 1
        <4>1. i \in 1..(Len(q) - 1) /\ i \in 1..(n - 1) /\ i + 1 \in 1..(n - 1)
          BY <1>2, <2>3, <3>2
        <4>2. QED  BY <2>2, <2>3, <4>1
      <3>3. QED  BY <3>1, <3>2
    <2>6. QED  BY <2>3, <2>4, <2>5 DEF Silent, V
  <1>3. QED  BY <1>1, <1>2 DEF Extended

(***************************************************************************)
(* SilentPaths lists silent paths.  The recursion has a solution, the      *)
(* silent paths of each length; and whatever solves it lists only these,   *)
(* by induction on the length.                                             *)
(***************************************************************************)
LEMMA ListedPathsSilent ==
    ASSUME Graph(cfg), IsFiniteSet(DOMAIN cfg), optimized \subseteq DOMAIN cfg,
           NEW b \in DOMAIN cfg
    PROVE  \A p \in SilentPaths(b) : Silent(cfg, optimized, b, p)
  <1>0. ASSUME NEW n \in Nat, n > 1, NEW p
        PROVE  (Silent(cfg, optimized, b, p) /\ Len(p) = n) <=> Extended(cfg, optimized, b, n, p)
    BY <1>0, SilentMore
  <1> DEFINE D == 1..(Cardinality(DOMAIN cfg) + 1)
             V == DOMAIN cfg \cup {NullBlock}
             Longer(S, n) == UNION {{Append(p, c) : c \in NextBlocks(p[n - 1])} :
                                       p \in {q \in S : q[n - 1] \in optimized}}
             Body(f, n) == IF n = 1 THEN {<<c>> : c \in NextBlocks(b)} ELSE Longer(f[n - 1], n)
             Solves(f) == f = [n \in D |-> Body(f, n)]
             ofLength == CHOOSE f : Solves(f)
             paths == [n \in D |-> {p \in Seq(V) : Silent(cfg, optimized, b, p) /\ Len(p) = n}]
  <1>1. SilentPaths(b) = UNION {ofLength[n] : n \in D}
    BY Zenon DEF SilentPaths
  <1>2. Cardinality(DOMAIN cfg) \in Nat
    BY FS_CardinalityType
  <1>3. ASSUME NEW n \in D PROVE n \in Nat /\ n >= 1 /\ (n # 1 => n - 1 \in D)
    BY <1>2
  <1>4. \A u \in DOMAIN cfg : NextBlocks(u) = After(cfg, u)
    BY DEF NextBlocks, After, At, BlockAt, Graph
  <1> HIDE DEF D
  <1>5. ASSUME NEW n \in D PROVE paths[n] = Body(paths, n)
    <2>1. CASE n = 1
      <3>1. paths[1] = {p \in Seq(V) : Silent(cfg, optimized, b, p) /\ Len(p) = 1}
        BY <2>1
      <3>2. paths[1] = {<<c>> : c \in After(cfg, b)}
        BY <3>1, SilentOne
      <3>3. Body(paths, 1) = {<<c>> : c \in After(cfg, b)}
        BY <1>4
      <3>4. QED  BY <2>1, <3>2, <3>3
    <2>2. CASE n # 1
      <3>1. n \in Nat /\ n > 1 /\ n - 1 \in D
        BY <1>3, <2>2
      <3>2. /\ paths[n] = {p \in Seq(V) : Silent(cfg, optimized, b, p) /\ Len(p) = n}
            /\ paths[n - 1] = {p \in Seq(V) : Silent(cfg, optimized, b, p) /\ Len(p) = n - 1}
        BY <3>1
      <3> HIDE DEF paths
      <3>3. ASSUME NEW p \in paths[n] PROVE p \in Longer(paths[n - 1], n)
        <4>1. Silent(cfg, optimized, b, p) /\ Len(p) = n
          BY <3>2
        <4>2. PICK q : /\ Silent(cfg, optimized, b, q) /\ Len(q) = n - 1 /\ q[n - 1] \in optimized
                       /\ \E c \in After(cfg, q[n - 1]) : p = Append(q, c)
          <5>1. Extended(cfg, optimized, b, n, p)
            BY <1>0, <3>1, <4>1
          <5>2. QED  BY <5>1 DEF Extended
        <4>3. q \in paths[n - 1]
          BY <3>2, <4>2 DEF Silent
        <4>4. NextBlocks(q[n - 1]) = After(cfg, q[n - 1])
          BY <1>4, <4>2
        <4>5. QED  BY <4>2, <4>3, <4>4
      <3>4. ASSUME NEW p \in Longer(paths[n - 1], n) PROVE p \in paths[n]
        <4>1. PICK q \in paths[n - 1] : /\ q[n - 1] \in optimized
                                        /\ \E c \in NextBlocks(q[n - 1]) : p = Append(q, c)
          OBVIOUS
        <4>2. Silent(cfg, optimized, b, q) /\ Len(q) = n - 1
          BY <3>2
        <4>3. NextBlocks(q[n - 1]) = After(cfg, q[n - 1])
          BY <1>4, <4>1
        <4>4. Silent(cfg, optimized, b, p) /\ Len(p) = n
          <5>1. Extended(cfg, optimized, b, n, p)
            BY <4>1, <4>2, <4>3 DEF Extended
          <5>2. QED  BY <1>0, <3>1, <5>1
        <4>5. QED  BY <3>2, <4>4 DEF Silent
      <3>5. paths[n] = Longer(paths[n - 1], n)
        BY <3>3, <3>4
      <3>6. QED  BY <2>2, <3>5
    <2>3. QED  BY <2>1, <2>2
  <1>6. Solves(paths)
    <2>1. paths = [n \in D |-> paths[n]]
      OBVIOUS
    <2> HIDE DEF paths, Body
    <2>2. QED  BY <1>5, <2>1
  <1>7. Solves(ofLength)
    <2> HIDE DEF paths, Solves
    <2>1. \E f : Solves(f)
      BY <1>6
    <2>2. QED  BY <2>1
  <1> HIDE DEF paths, ofLength
  <1>8. ASSUME NEW n \in D PROVE ofLength[n] = Body(ofLength, n)
    <2> HIDE DEF Body
    <2>1. QED  BY <1>7
  <1> DEFINE Wrong == {n \in D : ~ (\A p \in ofLength[n] : Silent(cfg, optimized, b, p) /\ Len(p) = n)}
  <1>9. Wrong = {}
    <2>1. SUFFICES ASSUME Wrong # {} PROVE FALSE
      OBVIOUS
    <2>2. Wrong \in SUBSET Nat
      BY <1>3
    <2>3. PICK n \in Wrong : \A m \in Wrong : n <= m
      <3> HIDE DEF Wrong
      <3>1. QED  BY <2>1, <2>2, Smallest
    <2>4. n \in D /\ n \in Nat /\ n >= 1
      BY <1>3
    <2>5. PICK p \in ofLength[n] : ~(Silent(cfg, optimized, b, p) /\ Len(p) = n)
      OBVIOUS
    <2>6. CASE n = 1
      <3>1. ofLength[n] = {<<c>> : c \in After(cfg, b)}
        BY <1>4, <1>8, <2>4, <2>6
      <3>2. p \in {r \in Seq(DOMAIN cfg \cup {NullBlock}) : Silent(cfg, optimized, b, r) /\ Len(r) = 1}
        BY <2>5, <3>1, SilentOne
      <3>3. QED  BY <2>5, <2>6, <3>2
    <2>7. CASE n # 1
      <3>1. n > 1 /\ n - 1 \in D /\ n - 1 \notin Wrong
        BY <1>3, <2>2, <2>3, <2>4, <2>7
      <3>2. ofLength[n] = Longer(ofLength[n - 1], n)
        BY <1>8, <2>4, <2>7
      <3>3. PICK q \in ofLength[n - 1] : /\ q[n - 1] \in optimized
                                         /\ \E c \in NextBlocks(q[n - 1]) : p = Append(q, c)
        BY <2>5, <3>2
      <3>4. Silent(cfg, optimized, b, q) /\ Len(q) = n - 1
        BY <3>1, <3>3
      <3>5. NextBlocks(q[n - 1]) = After(cfg, q[n - 1])
        BY <1>4, <3>3
      <3>6. Silent(cfg, optimized, b, p) /\ Len(p) = n
        <4>1. Extended(cfg, optimized, b, n, p)
          BY <3>3, <3>4, <3>5 DEF Extended
        <4>2. QED  BY <1>0, <2>4, <3>1, <4>1
      <3>7. QED  BY <2>5, <3>6
    <2>8. QED  BY <2>6, <2>7
  <1>10. QED  BY <1>1, <1>9

-----------------------------------------------------------------------------
\* A stack of calls, and the blocks that are handled or still on it.
GoodStack(g, opt, cs) ==
    /\ \E S : cs \in Seq(S)
    /\ \A k \in DOMAIN cs : GoodCall(g, opt, cs[k])

Pending(g, opt, cs, b) == Told(g, opt, b) \/ \E k \in DOMAIN cs : cs[k].bb = b

\* The innermost call goes on, perhaps with fewer optimized blocks.
LEMMA ReplaceCall ==
    ASSUME NEW g, NEW opt, NEW opt2 \in SUBSET opt, NEW cs, GoodStack(g, opt, cs), cs # <<>>,
           NEW d, GoodCall(g, opt2, d), d.bb = cs[Len(cs)].bb
    PROVE  /\ GoodStack(g, opt2, [cs EXCEPT ![Len(cs)] = d])
           /\ \A b : Pending(g, opt, cs, b) => Pending(g, opt2, [cs EXCEPT ![Len(cs)] = d], b)
  <1> DEFINE n == Len(cs)
             new == [cs EXCEPT ![n] = d]
  <1>1. PICK S : cs \in Seq(S)
    BY DEF GoodStack
  <1>2. /\ cs \in Seq(S \cup {d}) /\ n \in Nat /\ n > 0 /\ DOMAIN cs = 1..n /\ n \in 1..Len(cs)
    BY <1>1, SeqMonotonic
  <1>3. new \in Seq(S \cup {d}) /\ Len(new) = n
    BY <1>2, ExceptSeq
  <1>4. DOMAIN new = 1..n /\ new[n] = d /\ \A k \in 1..n : k # n => new[k] = cs[k]
    BY <1>2, <1>3, LenProperties
  <1> HIDE DEF new, n
  <1>5. GoodStack(g, opt2, new)
    <2>1. ASSUME NEW k \in DOMAIN new PROVE GoodCall(g, opt2, new[k])
      <3>1. k # n => GoodCall(g, opt, new[k])
        BY <1>2, <1>4 DEF GoodStack
      <3>2. QED  BY <1>4, <3>1, FewerOptimized
    <2>2. QED  BY <1>3, <2>1 DEF GoodStack
  <1>6. ASSUME NEW b, Pending(g, opt, cs, b) PROVE Pending(g, opt2, new, b)
    <2>1. CASE Told(g, opt, b)
      BY <2>1, FewerOptimized DEF Pending
    <2>2. CASE \E k \in DOMAIN cs : cs[k].bb = b
      <3>1. PICK k \in DOMAIN cs : cs[k].bb = b
        BY <2>2
      <3>2. k \in DOMAIN new /\ (k = n \/ new[k] = cs[k]) /\ new[n].bb = cs[n].bb
        BY <1>2, <1>4 DEF n
      <3>3. new[k].bb = b
        BY <3>1, <3>2
      <3>4. \E j \in DOMAIN new : new[j].bb = b
        BY <3>2, <3>3, Zenon
      <3>5. QED  BY <3>4 DEF Pending
    <2>3. QED  BY <1>6, <2>1, <2>2 DEF Pending
  <1>7. QED  BY <1>5, <1>6 DEF new, n

\* A call begins.
LEMMA AddCall ==
    ASSUME NEW g, NEW opt, NEW cs, GoodStack(g, opt, cs), NEW d, GoodCall(g, opt, d)
    PROVE  /\ GoodStack(g, opt, Append(cs, d))
           /\ \A b : Pending(g, opt, cs, b) => Pending(g, opt, Append(cs, d), b)
           /\ Pending(g, opt, Append(cs, d), d.bb)
  <1> DEFINE n == Len(cs)
             new == Append(cs, d)
  <1>1. PICK S : cs \in Seq(S)
    BY DEF GoodStack
  <1>2. cs \in Seq(S \cup {d}) /\ n \in Nat /\ DOMAIN cs = 1..n
    BY <1>1, SeqMonotonic
  <1>3. /\ new \in Seq(S \cup {d}) /\ DOMAIN new = 1..(n + 1)
        /\ new[n + 1] = d /\ \A k \in 1..n : new[k] = cs[k]
    BY <1>2, AppendProperties, LenProperties
  <1> HIDE DEF new, n
  <1>4. GoodStack(g, opt, new)
    <2>1. ASSUME NEW k \in DOMAIN new PROVE GoodCall(g, opt, new[k])
      <3>1. CASE k = n + 1
        BY <1>3, <3>1
      <3>2. CASE k \in 1..n
        BY <1>2, <1>3, <3>2 DEF GoodStack
      <3>3. k = n + 1 \/ k \in 1..n
        BY <1>2, <1>3
      <3>4. QED  BY <3>1, <3>2, <3>3
    <2>2. QED  BY <1>3, <2>1 DEF GoodStack
  <1>5. \A k \in DOMAIN cs : k \in DOMAIN new /\ new[k] = cs[k]
    BY <1>2, <1>3
  <1>6. n + 1 \in DOMAIN new
    BY <1>2, <1>3
  <1>7. QED  BY <1>3, <1>4, <1>5, <1>6 DEF Pending, new

\* The innermost call returns.
LEMMA DropCall ==
    ASSUME NEW g, NEW opt, NEW cs, GoodStack(g, opt, cs), cs # <<>>,
           Told(g, opt, cs[Len(cs)].bb)
    PROVE  /\ GoodStack(g, opt, Front(cs))
           /\ \A b : Pending(g, opt, cs, b) => Pending(g, opt, Front(cs), b)
  <1> DEFINE n == Len(cs)
             rest == Front(cs)
  <1>1. PICK S : cs \in Seq(S)
    BY DEF GoodStack
  <1>2. n \in Nat /\ n > 0 /\ DOMAIN cs = 1..n
    BY <1>1
  <1>3. /\ rest \in Seq(S) /\ DOMAIN rest = 1..(n - 1)
        /\ \A k \in 1..(n - 1) : rest[k] = cs[k]
    BY <1>1, FrontFacts
  <1>4. Told(g, opt, cs[n].bb)
    OBVIOUS
  <1> HIDE DEF n, rest
  <1>5. \A k \in DOMAIN rest : k \in DOMAIN cs /\ rest[k] = cs[k]
    BY <1>2, <1>3
  <1>6. GoodStack(g, opt, rest)
    BY <1>3, <1>5 DEF GoodStack
  <1>7. \A k \in DOMAIN cs : k = n \/ (k \in DOMAIN rest /\ rest[k] = cs[k])
    BY <1>2, <1>3
  <1>8. ASSUME NEW b, Pending(g, opt, cs, b) PROVE Pending(g, opt, rest, b)
    BY <1>4, <1>7, <1>8 DEF Pending
  <1>9. QED  BY <1>6, <1>8 DEF rest

-----------------------------------------------------------------------------
\* Instructions and targets of a binary.
LEMMA ProgramFacts ==
    ASSUME program \in Programs
    PROVE  /\ Len(Code) \in Nat /\ \A i \in 1..Len(Code) : Code[i] \in Instruction
           /\ Targets \subseteq Nat \ {0} /\ IsFiniteSet(Targets)
           /\ Blocks \subseteq 1..Len(Code) /\ Blocks \subseteq Targets
  <1>1. Code \in Seq(Instruction) /\ Targets \subseteq Nat \ {0} /\ IsFiniteSet(Targets)
    BY ProgramsAssumption DEF Code, Targets
  <1>2. Len(Code) \in Nat /\ \A i \in 1..Len(Code) : Code[i] \in Instruction
    BY <1>1, LenProperties, ElementOfSeq
  <1>3. Blocks \subseteq 1..Len(Code) /\ Blocks \subseteq Targets
    <2> DEFINE n == Len(Code)
    <2>1. n \in Nat /\ Blocks = {b \in Targets : b <= n}
      BY <1>2 DEF Blocks
    <2> HIDE DEF n
    <2>2. ASSUME NEW b \in Blocks PROVE b \in 1..n /\ b \in Targets
      <3>1. b \in Targets /\ b <= n
        BY <2>1
      <3>2. b \in Nat /\ b # 0
        BY <1>1, <3>1
      <3>3. QED  BY <2>1, <3>1, <3>2
    <2>3. QED  BY <2>2 DEF n
  <1>4. QED  BY <1>1, <1>2, <1>3

\* The CFG that buildCFG builds.
LEMMA GraphBuilt ==
    ASSUME program \in Programs,
           NEW g, g = [b \in Entries |-> IF b \in Blocks THEN Successors(b) ELSE <<>>]
    PROVE  Graph(g) /\ IsFiniteSet(DOMAIN g)
  <1>1. Entries \subseteq Targets
    BY ProgramFacts DEF Entries, SnapToTarget
  <1>2. ASSUME NEW b \in Blocks PROVE Successors(b) \in Seq(Int)
    <2> DEFINE ends == {i \in BlockInstrs(b) : BlockEnds(i)}
               i == CHOOSE i \in ends : TRUE
    <2>1. CASE ends = {}
      <3>1. Successors(b) = <<>>
        BY <2>1 DEF Successors
      <3>2. QED  BY <3>1
    <2>2. CASE ends # {}
      <3>1. i \in ends
        BY <2>2
      <3>2. i \in Int /\ i \in 1..Len(Code)
        BY <3>1, ProgramFacts DEF BlockInstrs
      <3>3. Code[i].to \in Int
        BY <3>2, ProgramFacts DEF Instruction
      <3> DEFINE target(k) == IF HasTarget(k) THEN <<Code[k].to>> ELSE <<>>
      <3>4. Successors(b) \in {Append(target(i), FallThrough(i)), target(i), <<BB_INDIRECT>>, <<>>, <<i + 1>>}
        <4> DEFINE r(k) == CASE Code[k].op = "jcc" -> Append(target(k), FallThrough(k))
                             [] Code[k].op \in {"ret", "jmp"} ->
                                  IF HasTarget(k) THEN target(k) ELSE <<BB_INDIRECT>>
                             [] OTHER -> IF Code[k].gap THEN <<>> ELSE <<k + 1>>
        <4>1. Successors(b) = r(i)
          BY <2>2, Zenon DEF Successors
        <4> HIDE DEF i, ends, target
        <4>2. QED  BY <4>1
      <3> HIDE DEF i
      <3>5. /\ FallThrough(i) \in Int /\ target(i) \in Seq(Int) /\ <<i + 1>> \in Seq(Int)
            /\ <<BB_INDIRECT>> \in Seq(Int) /\ <<>> \in Seq(Int)
        BY <3>2, <3>3 DEF BB_INDIRECT, FallThrough, Padding
      <3> HIDE DEF target
      <3>6. Append(target(i), FallThrough(i)) \in Seq(Int)
        BY <3>5
      <3>7. QED  BY <3>4, <3>5, <3>6
    <2>3. QED  BY <2>1, <2>2
  <1>3. NullBlock \notin DOMAIN g
    BY <1>1, ProgramFacts DEF NullBlock
  <1>4. ASSUME NEW b \in DOMAIN g PROVE g[b] \in Seq(Int)
    BY <1>2
  <1>5. IsFiniteSet(DOMAIN g)
    BY <1>1, ProgramFacts, FS_Subset
  <1>6. QED  BY <1>3, <1>4, <1>5 DEF Graph

\* The instructions among which InstrumentPoint chooses.
Choice(b) == IF option.Oselect = "never" THEN {b} ELSE Selectable(b)

\* No instruction of the block can take a jump.
Short(b) == \A j \in Choice(b) : Code[j].size < JmpqSize

\* InstrumentPoint chooses one of them, and one that is too short only if all are.
LEMMA PointChosen ==
    ASSUME program \in Programs, NEW b \in Blocks
    PROVE  InstrumentPoint(b) \in Choice(b) /\ (Bad(b) <=> Short(b))
  <1> DEFINE S == Choice(b)
             fits == {j \in S : Code[j].size >= JmpqSize}
             longest == {j \in S : \A i \in S : Code[i].size <= Code[j].size}
             candidates == IF fits # {} THEN fits ELSE longest
  <1>1. b \in S /\ S \subseteq 1..Len(Code)
    BY ProgramFacts DEF Choice, Selectable
  <1>2. ASSUME NEW j \in S PROVE Code[j].size \in 1..15 /\ j \in Nat
    <2>1. j \in 1..Len(Code) /\ Code[j] \in Instruction
      BY <1>1, ProgramFacts
    <2>2. QED  BY <2>1 DEF Instruction
  <1>3. InstrumentPoint(b) = CHOOSE j \in candidates : \A i \in candidates : j <= i
    BY Zenon DEF InstrumentPoint, Choice
  <1> HIDE DEF S
  <1>4. longest # {}
    <2> DEFINE room == {15 - Code[j].size : j \in S}
    <2>1. room \in SUBSET Nat /\ room # {}
      <3>1. ASSUME NEW j \in S PROVE 15 - Code[j].size \in Nat
        BY <1>2
      <3>2. QED  BY <1>1, <3>1
    <2>2. PICK x \in room : \A y \in room : x <= y
      <3> HIDE DEF room
      <3>1. QED  BY <2>1, Smallest
    <2>3. PICK j \in S : x = 15 - Code[j].size
      OBVIOUS
    <2>4. \A i \in S : 15 - Code[j].size <= 15 - Code[i].size
      BY <2>2, <2>3
    <2>5. \A i \in S : Code[i].size <= Code[j].size
      BY <1>2, <2>4
    <2>6. QED  BY <2>5
  <1>5. candidates \in SUBSET Nat /\ candidates # {}
    BY <1>2, <1>4
  <1>6. InstrumentPoint(b) \in candidates
    <2> HIDE DEF candidates
    <2>1. \E j \in candidates : \A i \in candidates : j <= i
      BY <1>5, Smallest
    <2>2. QED  BY <1>3, <2>1
  <1>7. InstrumentPoint(b) \in S
    BY <1>6
  <1>8. Bad(b) <=> Short(b)
    <2>1. JmpqSize = 5
      BY DEF JmpqSize
    <2> HIDE DEF longest
    <2>2. CASE fits # {}
      <3>1. Code[InstrumentPoint(b)].size >= JmpqSize
        BY <1>6, <2>2
      <3>2. QED  BY <1>2, <1>7, <2>1, <3>1 DEF Bad, Short, S
    <2>3. CASE fits = {}
      <3>1. \A j \in S : Code[j].size < JmpqSize
        BY <1>2, <2>1, <2>3
      <3>2. QED  BY <1>7, <3>1 DEF Bad, Short, S
    <2>4. QED  BY <2>2, <2>3
  <1>9. QED  BY <1>7, <1>8 DEF S

(***************************************************************************)
(* Where the points are.  What is not a target cannot be jumped to, and    *)
(* the search for a point stops before the next target, so it stays within *)
(* the block.                                                              *)
(***************************************************************************)
LEMMA PointInBlock ==
    ASSUME program \in Programs, NEW b \in Blocks, NEW p, p = InstrumentPoint(b)
    PROVE  /\ p \in Nat /\ b \in Nat /\ b <= p
           /\ \A i \in (b + 1)..p : i \notin Targets
           /\ \A i \in b..(p - 1) : Code[i].op = "other" /\ ~Code[i].gap
  <1>1. p \in Choice(b) /\ b \in 1..Len(Code) /\ Len(Code) \in Nat
    BY PointChosen, ProgramFacts
  <1>2. p \in b..Len(Code) /\ \A i \in b..(p - 1) : ~BlockEnds(i) /\ Code[i].op # "call"
    <2>1. CASE option.Oselect = "never"
      BY <1>1, <2>1 DEF Choice
    <2>2. CASE option.Oselect # "never"
      BY <1>1, <2>2 DEF Choice, Selectable
    <2>3. QED  BY <2>1, <2>2
  <1>3. p \in Nat /\ b \in Nat /\ b <= p /\ p <= Len(Code) /\ 1 <= b
    BY <1>1, <1>2
  <1>4. ASSUME NEW i \in (b + 1)..p PROVE i \notin Targets
    <2> DEFINE j == i - 1
    <2>1. j \in b..(p - 1) /\ j + 1 = i
      BY <1>3
    <2> HIDE DEF j
    <2>2. j + 1 \notin Targets
      BY <1>2, <2>1 DEF BlockEnds
    <2>3. QED  BY <2>1, <2>2
  <1>5. ASSUME NEW i \in b..(p - 1) PROVE Code[i].op = "other" /\ ~Code[i].gap
    <2>1. i \in 1..Len(Code)
      BY <1>1, <1>3
    <2>2. Code[i] \in Instruction
      BY <2>1, ProgramFacts
    <2>3. ~BlockEnds(i) /\ Code[i].op # "call"
      BY <1>2
    <2>4. Code[i].op \in {"ret", "jmp", "jcc", "call", "other"}
      BY <2>2 DEF Instruction
    <2>5. QED  BY <2>3, <2>4 DEF BlockEnds, Jumps
  <1>6. QED  BY <1>3, <1>4, <1>5

PointInv == program \in Programs /\ PointOnEveryEntry

\* The trampoline of a block is executed exactly when the block is, and blocks
\* do not share points, in every binary (step 2 of the plugin).
THEOREM PointsOnEveryEntry == Spec => []PointOnEveryEntry
  <1>1. Init => PointInv
    <2>1. SUFFICES ASSUME Init PROVE PointInv
      OBVIOUS
    <2>2. DOMAIN point = {} /\ program \in Programs
      BY <2>1 DEF Init
    <2>3. QED  BY <2>2 DEF PointInv, PointOnEveryEntry
  <1>2. PointInv /\ [Next]_vars => PointInv'
    <2>1. SUFFICES ASSUME PointInv, [Next]_vars PROVE PointInv'
      OBVIOUS
    <2>2. program' = program /\ program \in Programs
      BY <2>1 DEF PointInv, Next, vars, buildCFG, selectPoints, optimizeBlock, optimizePaths,
                  endLoop, collectPoints
    <2>3. CASE point' = point
      BY <2>1, <2>2, <2>3 DEF PointInv, PointOnEveryEntry, Code, Targets
    <2>4. CASE selectPoints /\ Blocks \subseteq DOMAIN cfg
      <3> DEFINE new == point'
      <3>1. new = [b \in DOMAIN cfg |-> IF b \in Blocks THEN InstrumentPoint(b) ELSE -1]
        BY <2>4 DEF selectPoints
      <3>2. ASSUME NEW b \in DOMAIN new, new[b] # -1
            PROVE  b \in Blocks /\ new[b] = InstrumentPoint(b)
        BY <3>1, <3>2
      <3>3. ASSUME NEW b \in DOMAIN new, new[b] # -1, NEW c \in DOMAIN new, c # b, new[c] = new[b]
            PROVE  FALSE
        <4> DEFINE p == InstrumentPoint(b)
        <4>1. b \in Blocks /\ c \in Blocks /\ p = InstrumentPoint(c)
          BY <3>2, <3>3
        <4>2. b \in Targets /\ c \in Targets
          BY <2>2, <4>1, ProgramFacts
        <4>3. /\ p \in Nat /\ b \in Nat /\ b <= p
              /\ \A i \in (b + 1)..p : i \notin Targets
          BY <2>2, <4>1, PointInBlock
        <4>4. /\ c \in Nat /\ c <= p
              /\ \A i \in (c + 1)..p : i \notin Targets
          BY <2>2, <4>1, PointInBlock
        <4> HIDE DEF p
        <4>5. b \in (c + 1)..p \/ c \in (b + 1)..p
          BY <3>3, <4>3, <4>4
        <4>6. QED  BY <4>2, <4>3, <4>4, <4>5
      <3>4. ASSUME NEW b \in DOMAIN new, new[b] # -1
            PROVE  /\ \A i \in (b + 1)..new[b] : i \notin Targets
                   /\ \A i \in b..(new[b] - 1) : Code[i].op = "other" /\ ~Code[i].gap
        BY <2>2, <3>2, <3>4, PointInBlock
      <3> HIDE DEF new
      <3>5. Targets' = Targets /\ Code' = Code
        BY <2>2 DEF Targets, Code
      <3>6. PointOnEveryEntry'
        BY <3>3, <3>4, <3>5 DEF PointOnEveryEntry, new
      <3>7. QED  BY <2>2, <3>6 DEF PointInv
    <2>5. QED
      BY <2>1, <2>3, <2>4 DEF Next, vars, buildCFG, selectPoints, optimizeBlock, optimizePaths,
                              endLoop, collectPoints
  <1>3. PointInv => PointOnEveryEntry
    BY DEF PointInv
  <1>4. QED  BY <1>1, <1>2, <1>3, PTL DEF Spec

-----------------------------------------------------------------------------
\* The blocks that have to be told apart so far: Handled, or on the stack.
Due(b) == b \in current \/ (b \in Blocks /\ Short(b) /\ Direct(b))

CoverageInv ==
    /\ program \in Programs
    /\ Graph(cfg) /\ IsFiniteSet(DOMAIN cfg) /\ optimized \subseteq DOMAIN cfg
    /\ phase \in {"disassembled", "cfg"} => calls = <<>> /\ current = {} /\ optimized = {}
    /\ calls # <<>> => phase = "optimize" /\ option.Oblock = "default"
    /\ GoodStack(cfg, optimized, calls)
    /\ phase \in {"optimize", "done"} /\ option.Oblock = "default" =>
          \A b \in DOMAIN cfg \ optimized : Due(b) => Pending(cfg, optimized, calls, b)

\* No call is under way.
LEMMA NoCalls == \A g, opt : GoodStack(g, opt, <<>>)
  <1>1. <<>> \in Seq({}) /\ DOMAIN <<>> = {}
    OBVIOUS
  <1>2. QED  BY <1>1 DEF GoodStack

\* The steps that change neither the binary nor the CFG nor the phase.
LEMMA OptimizeStep ==
    ASSUME CoverageInv, UNCHANGED <<program, option, phase, cfg, current>>,
           phase = "optimize" /\ option.Oblock = "default", optimized' \subseteq optimized,
           GoodStack(cfg, optimized', calls'),
           \A b \in DOMAIN cfg \ optimized :
              Pending(cfg, optimized, calls, b) => Pending(cfg, optimized', calls', b),
           \A b \in optimized \ optimized' : Pending(cfg, optimized', calls', b)
    PROVE  CoverageInv'
  <1>1. \A b : Due(b)' <=> Due(b)
    BY DEF Due, Short, Choice, Selectable, BlockEnds, Targets, Code, Direct, Blocks
  <1>2. ASSUME NEW b \in DOMAIN cfg \ optimized', Due(b)
        PROVE  Pending(cfg, optimized', calls', b)
    BY <1>2 DEF CoverageInv
  <1>3. QED  BY <1>1, <1>2 DEF CoverageInv

LEMMA InitCoverage == Init => CoverageInv
  <1>1. SUFFICES ASSUME Init PROVE CoverageInv
    OBVIOUS
  <1>2. cfg = <<>> /\ calls = <<>> /\ current = {} /\ optimized = {} /\ phase = "disassembled"
    BY <1>1 DEF Init
  <1>3. DOMAIN cfg = {}
    BY <1>2
  <1>4. Graph(cfg) /\ IsFiniteSet(DOMAIN cfg)
    BY <1>3, FS_EmptySet DEF Graph
  <1>5. QED  BY <1>1, <1>2, <1>4, NoCalls DEF CoverageInv, Init

LEMMA BuildCoverage == CoverageInv /\ buildCFG => CoverageInv'
  <1>1. SUFFICES ASSUME CoverageInv, buildCFG PROVE CoverageInv'
    OBVIOUS
  <1>2. /\ program \in Programs /\ program' = program /\ phase' = "cfg"
        /\ calls' = <<>> /\ current' = {} /\ optimized' = {}
        /\ cfg' = [b \in Entries |-> IF b \in Blocks THEN Successors(b) ELSE <<>>]
    BY <1>1 DEF CoverageInv, buildCFG
  <1>3. Graph(cfg') /\ IsFiniteSet(DOMAIN cfg')
    BY <1>2, GraphBuilt
  <1>4. QED  BY <1>2, <1>3, NoCalls DEF CoverageInv

LEMMA SelectCoverage == CoverageInv /\ selectPoints => CoverageInv'
  <1>1. SUFFICES ASSUME CoverageInv, selectPoints PROVE CoverageInv'
    OBVIOUS
  <1>2. /\ program \in Programs /\ program' = program /\ option' = option
        /\ calls' = <<>> /\ current' = {} /\ cfg' = cfg
        /\ Graph(cfg) /\ IsFiniteSet(DOMAIN cfg)
    BY <1>1 DEF CoverageInv, selectPoints
  <1>3. CASE Blocks \subseteq DOMAIN cfg
    <2>1. /\ phase' = "optimize"
          /\ optimized' = {b \in Blocks : option.Oblock # "never" /\ Bad(b) /\ Direct(b)}
      BY <1>1, <1>3 DEF selectPoints
    <2>2. \A b : Due(b)' => b \in Blocks /\ Short(b) /\ Direct(b)
      BY <1>2 DEF Due, Short, Choice, Selectable, BlockEnds, Targets, Code, Direct, Blocks
    <2>3. ASSUME option.Oblock = "default", NEW b, Due(b)' PROVE b \in optimized'
      <3>1. b \in Blocks /\ Short(b) /\ Direct(b)
        BY <2>2, <2>3
      <3>2. Bad(b)
        BY <1>2, <3>1, PointChosen
      <3>3. QED  BY <2>1, <2>3, <3>1, <3>2
    <2>4. optimized' \subseteq DOMAIN cfg
      BY <1>3, <2>1
    <2>5. QED  BY <1>2, <2>1, <2>3, <2>4, NoCalls DEF CoverageInv
  <1>4. CASE ~(Blocks \subseteq DOMAIN cfg)
    <2>1. phase' = "aborted" /\ optimized' = optimized
      BY <1>1, <1>4 DEF selectPoints
    <2>2. QED  BY <1>1, <1>2, <2>1, NoCalls DEF CoverageInv
  <1>5. QED  BY <1>3, <1>4

LEMMA BlockCoverage == CoverageInv /\ optimizeBlock => CoverageInv'
  <1>1. SUFFICES ASSUME CoverageInv, optimizeBlock PROVE CoverageInv'
    OBVIOUS
  <1>2. PICK b \in DOMAIN cfg : /\ current' = current \cup {b}
                                /\ calls' = IF b \in optimized THEN <<>> ELSE <<Call(b)>>
    BY <1>1 DEF optimizeBlock
  <1>3. /\ UNCHANGED <<program, option, phase, cfg, optimized>> /\ calls = <<>>
        /\ phase = "optimize" /\ option.Oblock = "default"
        /\ Graph(cfg) /\ GoodStack(cfg, optimized, calls)
    BY <1>1 DEF CoverageInv, optimizeBlock
  <1>4. \A c : Due(c)' => Due(c) \/ c = b
    BY <1>2, <1>3 DEF Due, Short, Choice, Selectable, BlockEnds, Targets, Code, Direct, Blocks
  <1>5. CASE b \in optimized
    <2>1. calls' = calls
      BY <1>2, <1>3, <1>5
    <2>2. QED  BY <1>1, <1>3, <1>4, <1>5, <2>1 DEF CoverageInv
  <1>6. CASE b \notin optimized
    <2> DEFINE d == Call(b)
    <2>1. GoodCall(cfg, optimized, d) /\ d.bb = b
      BY <1>3, <1>6, NewCall DEF Call, Loop
    <2> HIDE DEF d
    <2>2. calls' = Append(calls, d)
      BY <1>2, <1>3, <1>6 DEF d
    <2>3. /\ GoodStack(cfg, optimized, calls')
          /\ \A c : Pending(cfg, optimized, calls, c) => Pending(cfg, optimized, calls', c)
          /\ Pending(cfg, optimized, calls', b)
      BY <1>3, <2>1, <2>2, AddCall
    <2>4. QED  BY <1>1, <1>3, <1>4, <2>3 DEF CoverageInv
  <1>7. QED  BY <1>5, <1>6

\* The innermost call, seen through the definitions of the model.
LEMMA InnerCall ==
    ASSUME CoverageInv, calls # <<>>
    PROVE  /\ GoodCall(cfg, optimized, Caller)
           /\ Inner.succs = LastSuccs(Caller) /\ Inner.pred = LastPred(Caller)
           /\ phase = "optimize" /\ option.Oblock = "default"
           /\ Graph(cfg) /\ optimized \in SUBSET DOMAIN cfg
           /\ GoodStack(cfg, optimized, calls)
  <1>1. PICK S : calls \in Seq(S)
    BY DEF CoverageInv, GoodStack
  <1>2. Len(calls) \in DOMAIN calls
    BY <1>1
  <1>3. QED  BY <1>2 DEF CoverageInv, GoodStack, Caller, Inner, LastSuccs, LastPred

LEMMA PathsCoverage == CoverageInv /\ optimizePaths => CoverageInv'
  <1>1. SUFFICES ASSUME CoverageInv, optimizePaths PROVE CoverageInv'
    OBVIOUS
  <1> DEFINE c == Caller
             pred == LastPred(c)
             succ == At(cfg, Head(LastSuccs(c)))
             loops == Stepped(c.loops)
             unopt == Unopt(pred, c.paths[succ])
             paths == [x \in DOMAIN c.paths \cup {succ} |-> IF x = succ THEN pred ELSE c.paths[x]]
             d1 == [bb |-> c.bb, paths |-> c.paths, loops |-> loops]
             more == IF succ = NullBlock \/ succ \notin optimized THEN loops
                     ELSE Append(loops, [pred |-> succ, succs |-> cfg[succ]])
             d2 == [bb |-> c.bb, paths |-> paths, loops |-> more]
             With(d) == [calls EXCEPT ![Len(calls)] = d]
  <1>2. /\ calls # <<>> /\ LastSuccs(c) # <<>>
        /\ UNCHANGED <<program, option, phase, cfg, current>>
        /\ GoodCall(cfg, optimized, c) /\ phase = "optimize" /\ option.Oblock = "default"
        /\ Graph(cfg) /\ optimized \in SUBSET DOMAIN cfg /\ GoodStack(cfg, optimized, calls)
    BY <1>1, InnerCall DEF optimizePaths
  <1>3. /\ BlockAt(Head(Inner.succs)) = succ /\ Inner.pred = pred /\ Inner.succs = LastSuccs(c)
        /\ [c.loops EXCEPT ![Len(c.loops)] = [pred |-> Inner.pred, succs |-> Tail(Inner.succs)]] = loops
        /\ Loop(succ, succ) = [pred |-> succ, succs |-> cfg[succ]]
    BY <1>1, <1>2, InnerCall DEF BlockAt, At, Stepped, LastSuccs, LastPred, Loop
  <1>4. /\ Resume(c.paths, loops) = With(d1)
        /\ Resume(paths, more) = With(d2)
    BY DEF Resume
  <1>5. \/ succ \in DOMAIN c.paths /\ unopt = NullBlock /\ calls' = With(d1) /\ optimized' = optimized
        \/ /\ succ \in DOMAIN c.paths /\ unopt # NullBlock
           /\ optimized' = optimized \ {unopt} /\ calls' = Append(With(d1), Call(unopt))
        \/ succ \notin DOMAIN c.paths /\ calls' = With(d2) /\ optimized' = optimized
    <2> DEFINE p == Inner.pred
               s == BlockAt(Head(Inner.succs))
               rest == [Caller.loops EXCEPT
                          ![Len(Caller.loops)] = [pred |-> p, succs |-> Tail(Inner.succs)]]
               u == Unopt(p, Caller.paths[s])
               ps == [x \in DOMAIN Caller.paths \cup {s} |-> IF x = s THEN p ELSE Caller.paths[x]]
               ls == IF s = NullBlock \/ s \notin optimized THEN rest ELSE Append(rest, Loop(s, s))
    <2>1. \/ s \in DOMAIN Caller.paths /\ u = NullBlock /\ calls' = Resume(Caller.paths, rest)
                /\ optimized' = optimized
          \/ /\ s \in DOMAIN Caller.paths /\ u # NullBlock /\ optimized' = optimized \ {u}
             /\ calls' = Append(Resume(Caller.paths, rest), Call(u))
          \/ s \notin DOMAIN Caller.paths /\ calls' = Resume(ps, ls) /\ optimized' = optimized
      BY <1>1, Zenon DEF optimizePaths
    <2>2. s = succ /\ p = pred /\ rest = loops
      BY <1>3
    <2>3. u = unopt /\ ps = paths /\ ls = more
      <3> HIDE DEF s, p, rest
      <3>1. QED  BY <1>3, <2>2
    <2> HIDE DEF s, p, rest, u, ps, ls, paths, more, unopt, loops, With, d1, d2
    <2>4. QED  BY <1>4, <2>1, <2>2, <2>3
  <1>6. /\ d1.bb = c.bb /\ d1.paths = c.paths /\ d1.loops = loops
        /\ d2.bb = c.bb /\ d2.paths = paths /\ d2.loops = more
    OBVIOUS
  <1>7. NullBlock \notin optimized /\ c.bb = calls[Len(calls)].bb
    BY <1>2 DEF Graph, Caller
  <1> HIDE DEF d1, d2, c, pred, succ
  <1>8. CASE succ \in DOMAIN c.paths /\ unopt = NullBlock /\ calls' = With(d1) /\ optimized' = optimized
    <2>1. GoodCall(cfg, optimized, d1)
      BY <1>2, <1>6, <1>7, <1>8, KnownPath DEF succ, pred
    <2>2. /\ GoodStack(cfg, optimized, With(d1))
          /\ \A b : Pending(cfg, optimized, calls, b) => Pending(cfg, optimized, With(d1), b)
      BY <1>2, <1>6, <1>7, <2>1, ReplaceCall
    <2>3. QED  BY <1>1, <1>2, <1>8, <2>2, OptimizeStep
  <1>9. CASE /\ succ \in DOMAIN c.paths /\ unopt # NullBlock
             /\ optimized' = optimized \ {unopt} /\ calls' = Append(With(d1), Call(unopt))
    <2> DEFINE opt2 == optimized \ {unopt}
               d == Call(unopt)
    <2>1. opt2 \in SUBSET optimized /\ unopt \notin opt2
      OBVIOUS
    <2>2. unopt \in DOMAIN cfg
      <3>1. pred \in DOMAIN cfg \cup {NullBlock}
        BY <1>2, LastLoop DEF GoodCall, pred, LastPred
      <3>2. c.paths[succ] \in DOMAIN cfg \cup {NullBlock}
        BY <1>2, <1>9 DEF GoodCall
      <3>3. QED  BY <1>9, <3>1, <3>2 DEF Unopt
    <2> HIDE DEF opt2
    <2>3. GoodCall(cfg, opt2, d1)
      BY <1>2, <1>6, <1>9, <2>1, KnownPath DEF succ, pred
    <2>4. /\ GoodStack(cfg, opt2, With(d1))
          /\ \A b : Pending(cfg, optimized, calls, b) => Pending(cfg, opt2, With(d1), b)
      BY <1>2, <1>6, <1>7, <2>1, <2>3, ReplaceCall
    <2>5. GoodCall(cfg, opt2, d) /\ d.bb = unopt
      BY <1>2, <2>1, <2>2, NewCall DEF Call, Loop
    <2> HIDE DEF d, With
    <2>6. /\ GoodStack(cfg, opt2, Append(With(d1), d))
          /\ \A b : Pending(cfg, opt2, With(d1), b) => Pending(cfg, opt2, Append(With(d1), d), b)
          /\ Pending(cfg, opt2, Append(With(d1), d), unopt)
      BY <2>4, <2>5, AddCall
    <2>7. optimized' = opt2 /\ calls' = Append(With(d1), d)
      BY <1>9 DEF opt2, d
    <2>8. \A b \in optimized \ optimized' : b = unopt
      BY <1>9
    <2>9. QED  BY <1>1, <1>2, <2>1, <2>4, <2>6, <2>7, <2>8, OptimizeStep
  <1>10. CASE succ \notin DOMAIN c.paths /\ calls' = With(d2) /\ optimized' = optimized
    <2>1. GoodCall(cfg, optimized, d2)
      BY <1>2, <1>6, <1>10, NewPath DEF succ, pred
    <2>2. /\ GoodStack(cfg, optimized, With(d2))
          /\ \A b : Pending(cfg, optimized, calls, b) => Pending(cfg, optimized, With(d2), b)
      BY <1>2, <1>6, <1>7, <2>1, ReplaceCall
    <2>3. QED  BY <1>1, <1>2, <1>10, <2>2, OptimizeStep
  <1>11. QED  BY <1>5, <1>8, <1>9, <1>10

LEMMA EndCoverage == CoverageInv /\ endLoop => CoverageInv'
  <1>1. SUFFICES ASSUME CoverageInv, endLoop PROVE CoverageInv'
    OBVIOUS
  <1> DEFINE c == Caller
             d == [bb |-> c.bb, paths |-> c.paths, loops |-> Front(c.loops)]
  <1>2. /\ calls # <<>> /\ LastSuccs(c) = <<>> /\ optimized' = optimized
        /\ UNCHANGED <<program, option, phase, cfg, current>>
        /\ GoodCall(cfg, optimized, c) /\ phase = "optimize" /\ option.Oblock = "default"
        /\ GoodStack(cfg, optimized, calls) /\ c.bb = calls[Len(calls)].bb
    BY <1>1, InnerCall DEF endLoop, Caller
  <1>3. calls' = IF Len(c.loops) = 1 THEN Front(calls) ELSE [calls EXCEPT ![Len(calls)] = d]
    BY <1>1 DEF endLoop, Resume
  <1>4. d.bb = c.bb /\ d.paths = c.paths /\ d.loops = Front(c.loops)
    OBVIOUS
  <1> HIDE DEF c, d
  <1>5. CASE Len(c.loops) = 1
    <2>1. Told(cfg, optimized, c.bb)
      BY <1>2, <1>5, LoopEnds
    <2>2. /\ GoodStack(cfg, optimized, calls')
          /\ \A b : Pending(cfg, optimized, calls, b) => Pending(cfg, optimized, calls', b)
      BY <1>2, <1>3, <1>5, <2>1, DropCall
    <2>3. QED  BY <1>1, <1>2, <2>2, OptimizeStep
  <1>6. CASE Len(c.loops) # 1
    <2>1. GoodCall(cfg, optimized, d)
      BY <1>2, <1>4, <1>6, LoopEnds
    <2>2. /\ GoodStack(cfg, optimized, calls')
          /\ \A b : Pending(cfg, optimized, calls, b) => Pending(cfg, optimized, calls', b)
      BY <1>2, <1>3, <1>4, <1>6, <2>1, ReplaceCall
    <2>3. QED  BY <1>1, <1>2, <2>2, OptimizeStep
  <1>7. QED  BY <1>5, <1>6

LEMMA CollectCoverage == CoverageInv /\ collectPoints => CoverageInv'
  <1>1. SUFFICES ASSUME CoverageInv, collectPoints PROVE CoverageInv'
    OBVIOUS
  <1>2. /\ UNCHANGED <<program, option, cfg, optimized, current, calls>> /\ calls = <<>>
        /\ phase = "optimize" /\ phase' = "done"
    BY <1>1 DEF collectPoints
  <1>3. \A b : Due(b)' <=> Due(b)
    BY <1>2 DEF Due, Short, Choice, Selectable, BlockEnds, Targets, Code, Direct, Blocks
  <1>4. QED  BY <1>1, <1>2, <1>3 DEF CoverageInv

\* The inductive invariant holds throughout calcInstrumentPoints.
THEOREM CoverageInvariant == Spec => []CoverageInv
  <1>1. CoverageInv /\ UNCHANGED vars => CoverageInv'
    <2>1. SUFFICES ASSUME CoverageInv, UNCHANGED vars PROVE CoverageInv'
      OBVIOUS
    <2>2. UNCHANGED <<program, option, phase, cfg, optimized, current, calls>>
      BY <2>1 DEF vars
    <2>3. \A b : Due(b)' <=> Due(b)
      BY <2>2 DEF Due, Short, Choice, Selectable, BlockEnds, Targets, Code, Direct, Blocks
    <2>4. QED  BY <2>1, <2>2, <2>3 DEF CoverageInv
  <1>2. CoverageInv /\ [Next]_vars => CoverageInv'
    BY <1>1, BuildCoverage, SelectCoverage, BlockCoverage, PathsCoverage, EndCoverage,
       CollectCoverage DEF Next
  <1>3. QED  BY InitCoverage, <1>2, PTL DEF Spec

\* Between an instrumented block that optimizeBlock has returned from and the
\* next instrumented one there is one path, in every CFG.
THEOREM CoverageTellsAllPaths == Spec => []CoverageTellsPaths
  <1>1. CoverageInv => CoverageTellsPaths
    <2>1. SUFFICES ASSUME CoverageInv, phase \in {"optimize", "done"}, option.Oblock = "default",
                          NEW b \in DOMAIN cfg \ optimized, Handled(b),
                          NEW p \in SilentPaths(b), NEW q \in SilentPaths(b), p[Len(p)] = q[Len(q)]
                   PROVE  p = q
      BY DEF CoverageTellsPaths
    <2>2. program \in Programs /\ Graph(cfg) /\ IsFiniteSet(DOMAIN cfg) /\ optimized \subseteq DOMAIN cfg
      BY <2>1 DEF CoverageInv
    <2>3. Due(b) /\ \A k \in DOMAIN calls : calls[k].bb # b
      <3>1. b \in Blocks => (Bad(b) <=> Short(b))
        BY <2>2, PointChosen
      <3>2. QED  BY <2>1, <3>1 DEF Handled, Due
    <2>4. Told(cfg, optimized, b)
      BY <2>1, <2>3 DEF CoverageInv, Pending
    <2>5. Silent(cfg, optimized, b, p) /\ Silent(cfg, optimized, b, q)
      BY <2>2, ListedPathsSilent
    <2>6. QED  BY <2>1, <2>4, <2>5, OnePath
  <1>2. QED  BY <1>1, CoverageInvariant, PTL

=============================================================================
