----------------------------- MODULE GhostProofs -----------------------------
(***************************************************************************)
(* Proofs about the ghost variables, for buffers of any size, any gap that *)
(* AddressSanitizer leaves and any limit of the traversal.                 *)
(*                                                                         *)
(* The argument is the shape of the shadow: behind the redzone before the  *)
(* buffer there are full shadow bytes, one last byte, and then redzone up  *)
(* to the neighbour.  The allocator makes this shape, every branch of      *)
(* adjust_redzone_size keeps it, and what the traversals compute and what  *)
(* the program can address are read off it.                                *)
(***************************************************************************)
EXTENDS Ghost, FiniteSetTheorems, WellFoundedInduction, TLAPS

\* The last shadow byte of the buffer as the allocator laid it out.
InitialLast == First + ShadowBytes(layout.size) - 1

\* The bytes of a buffer whose last shadow byte is number last and has value b.
SizeOf(last, b) == 8 * (last - First) + shadow_byte_to_size(b)

Shape(sh, last, b) ==
    /\ sh \in [0..ShadowEnd(layout) -> Int]
    /\ last \in First..(NeighbourFirst(layout) - 2) /\ b \in 0..8
    /\ \A i \in First..(last - 1) : sh[i] = 0
    /\ sh[last] = b
    /\ \A i \in (last + 1)..(NeighbourFirst(layout) - 1) : sh[i] < 0
    /\ \A i \in 0..ShadowEnd(layout) :
          i < First \/ i >= NeighbourFirst(layout) => sh[i] = InitialShadow(layout)[i]

LayoutOK == layout \in [size : Sizes, gap : Gaps, neighbour : NeighbourSizes]

-----------------------------------------------------------------------------
(***************************************************************************)
(* The sum of the sizes that shadow bytes i..last stand for, all of them   *)
(* full but the last.  The fold is a recursive function on the subsets of  *)
(* its set: the sum of a subset, written with its cardinality, satisfies   *)
(* the recursion, and by induction on the cardinality nothing else does.   *)
(***************************************************************************)
LEMMA SumOfBytes ==
    ASSUME NEW sh, NEW i \in Int, NEW last \in Int, i <= last,
           \A j \in i..(last - 1) : sh[j] = 0, shadow_byte_to_size(sh[last]) \in Int
    PROVE  MapThenSumSet(LAMBDA j : shadow_byte_to_size(sh[j]), i..last)
              = 8 * (last - i) + shadow_byte_to_size(sh[last])
  <1> DEFINE S == i..last
             size(j) == shadow_byte_to_size(sh[j])
             Pick(s) == CHOOSE x \in s : TRUE
             Solves(it) == it = [s \in SUBSET S |->
                                    IF s = {} THEN 0 ELSE size(Pick(s)) + it[s \ {Pick(s)}]]
             sum == [s \in SUBSET S |->
                        8 * Cardinality(s) + (IF last \in s THEN size(last) - 8 ELSE 0)]
             iter == CHOOSE it : Solves(it)
  <1>1. MapThenSumSet(LAMBDA j : shadow_byte_to_size(sh[j]), i..last) = iter[S]
    BY Zenon DEF MapThenSumSet, MapThenFoldSet
  <1>2. IsFiniteSet(S) /\ Cardinality(S) = last - i + 1
    BY FS_Interval
  <1>3. ASSUME NEW s \in SUBSET S
        PROVE  IsFiniteSet(s) /\ Cardinality(s) \in Nat
    BY <1>2, <1>3, FS_Subset, FS_CardinalityType
  <1>4. ASSUME NEW s \in SUBSET S, s # {}
        PROVE  /\ Pick(s) \in s /\ s \ {Pick(s)} \in SUBSET S
               /\ Cardinality(s \ {Pick(s)}) = Cardinality(s) - 1
    <2>1. Pick(s) \in s
      BY <1>4
    <2> HIDE DEF Pick
    <2>2. QED  BY <1>3, <2>1, FS_RemoveElement
  <1>5. ASSUME NEW x \in S PROVE size(x) = IF x = last THEN size(last) ELSE 8
    <2>1. x # last => x \in i..(last - 1)
      OBVIOUS
    <2>2. QED  BY <2>1 DEF shadow_byte_to_size
  <1> HIDE DEF Pick, S
  <1>6. ASSUME NEW s \in SUBSET S, s # {}
        PROVE  sum[s] = size(Pick(s)) + sum[s \ {Pick(s)}]
    <2> DEFINE x == Pick(s)
               t == s \ {x}
    <2>1. /\ x \in s /\ t \in SUBSET S
          /\ Cardinality(t) = Cardinality(s) - 1 /\ Cardinality(s) \in Nat
      BY <1>3, <1>4, <1>6
    <2>2. /\ sum[s] = 8 * Cardinality(s) + (IF last \in s THEN size(last) - 8 ELSE 0)
          /\ sum[t] = 8 * Cardinality(t) + (IF last \in t THEN size(last) - 8 ELSE 0)
      BY <1>6, <2>1
    <2>3. last \in t <=> last \in s /\ x # last
      OBVIOUS
    <2>4. size(x) = IF x = last THEN size(last) ELSE 8
      BY <1>5, <2>1
    <2> HIDE DEF x, t, sum
    <2>5. sum[s] = size(x) + sum[t]
      <3>1. CASE x = last
        BY <2>1, <2>2, <2>3, <2>4, <3>1
      <3>2. CASE x # last
        BY <2>1, <2>2, <2>3, <2>4, <3>2
      <3>3. QED  BY <3>1, <3>2
    <2>6. QED  BY <2>5 DEF x, t
  <1>7. Solves(sum)
    <2> DEFINE step == [s \in SUBSET S |-> IF s = {} THEN 0
                                           ELSE size(Pick(s)) + sum[s \ {Pick(s)}]]
    <2>1. sum[{}] = 0
      BY FS_EmptySet
    <2>2. /\ DOMAIN sum = SUBSET S /\ DOMAIN step = SUBSET S
          /\ sum = [s \in DOMAIN sum |-> sum[s]] /\ step = [s \in DOMAIN step |-> step[s]]
      OBVIOUS
    <2>3. \A s \in SUBSET S : sum[s] = step[s]
      BY <1>6, <2>1
    <2> HIDE DEF sum, step
    <2>4. sum = step
      BY <2>2, <2>3
    <2>5. QED  BY <2>4 DEF step
  <1>8. Solves(iter)
    <2> HIDE DEF sum, Solves
    <2>1. \E it : Solves(it)
      BY <1>7
    <2>2. QED  BY <2>1
  <1>9. \A s \in SUBSET S : iter[s] = IF s = {} THEN 0 ELSE size(Pick(s)) + iter[s \ {Pick(s)}]
    <2> HIDE DEF iter
    <2>1. QED  BY <1>8
  <1>10. iter[S] = sum[S]
    <2> HIDE DEF iter, sum
    <2> DEFINE Bad == {n \in Nat : \E s \in SUBSET S : Cardinality(s) = n /\ iter[s] # sum[s]}
    <2>1. SUFFICES ASSUME iter[S] # sum[S] PROVE FALSE
      OBVIOUS
    <2>2. Bad # {} /\ Bad \subseteq Nat
      BY <1>3, <2>1
    <2>3. PICK n \in Bad : \A y \in Bad : ~(<<y, n>> \in OpToRel(<, Nat))
      <3> HIDE DEF Bad
      <3>1. QED  BY <2>2, NatLessThanWellFounded, WFMin
    <2>4. \A y \in Bad : ~(y < n)
      BY <2>2, <2>3 DEF OpToRel
    <2>5. PICK s \in SUBSET S : Cardinality(s) = n /\ iter[s] # sum[s]
      OBVIOUS
    <2>6. CASE s = {}
      <3>1. iter[s] = 0
        BY <1>9, <2>6
      <3>2. sum[s] = 0
        BY <1>7, <2>6
      <3>3. QED  BY <2>5, <3>1, <3>2
    <2>7. CASE s # {}
      <3> DEFINE t == s \ {Pick(s)}
      <3>1. t \in SUBSET S /\ Cardinality(t) = n - 1 /\ n - 1 \in Nat
        BY <1>3, <1>4, <2>5, <2>7
      <3>2. iter[t] = sum[t]
        BY <2>4, <3>1
      <3>3. QED  BY <1>6, <1>9, <2>5, <2>7, <3>2
    <2>8. QED  BY <2>6, <2>7
  <1>11. sum[S] = 8 * (last - i) + size(last)
    <2>1. last \in S
      BY DEF S
    <2>2. QED  BY <1>2, <2>1
  <1>12. QED  BY <1>1, <1>10, <1>11

-----------------------------------------------------------------------------
\* Quotient and remainder by eight.
LEMMA ByEight ==
    ASSUME NEW n \in Int
    PROVE  n \div 8 \in Int /\ n % 8 \in 0..7 /\ n = 8 * (n \div 8) + (n % 8)
  OBVIOUS

\* What the allocator's numbers are.
LEMMA LayoutFacts ==
    ASSUME LayoutOK
    PROVE  /\ layout.size \in Nat \ {0}
           /\ layout.gap \in Nat /\ layout.gap >= 2
           /\ InitialLast \in Int /\ InitialLast >= First
           /\ NeighbourFirst(layout) = InitialLast + 1 + layout.gap
           /\ ShadowEnd(layout) \in Int /\ ShadowEnd(layout) > NeighbourFirst(layout)
           /\ layout.size % 8 \in 0..7
           /\ SizeOf(InitialLast, layout.size % 8) = layout.size
  <1> DEFINE size == layout.size
             n == layout.neighbour
  <1>1. size \in Nat \ {0} /\ n \in Nat \ {0} /\ layout.gap \in Nat /\ 8 * layout.gap >= 16
    BY SizesAssumption, ShadowAssumption DEF LayoutOK
  <1>2. layout.gap >= 2
    BY <1>1
  <1> HIDE DEF size, n
  <1>3. /\ ShadowBytes(size) \in Nat /\ ShadowBytes(size) >= 1
        /\ size = 8 * (ShadowBytes(size) - 1) + (IF size % 8 = 0 THEN 8 ELSE size % 8)
    BY <1>1 DEF ShadowBytes
  <1>4. ShadowBytes(n) \in Nat /\ ShadowBytes(n) >= 1
    BY <1>1 DEF ShadowBytes
  <1>5. size % 8 \in 0..7
    BY <1>1
  <1> HIDE DEF ShadowBytes
  <1>6. /\ InitialLast = First + ShadowBytes(size) - 1
        /\ NeighbourFirst(layout) = First + ShadowBytes(size) + layout.gap
        /\ ShadowEnd(layout) = NeighbourFirst(layout) + ShadowBytes(n) + 1
    BY DEF InitialLast, NeighbourFirst, ShadowEnd, size, n
  <1>7. SizeOf(InitialLast, size % 8) = size
    BY <1>3, <1>5, <1>6 DEF SizeOf, shadow_byte_to_size, First
  <1>8. QED
    BY <1>1, <1>2, <1>3, <1>4, <1>5, <1>6, <1>7 DEF First, size

\* The allocator makes the shape, with redzone before and behind.
LEMMA InitialShape ==
    ASSUME LayoutOK
    PROVE  /\ Shape(InitialShadow(layout), InitialLast, layout.size % 8)
           /\ InitialShadow(layout)[First - 1] = Redzone
           /\ InitialShadow(layout)[NeighbourFirst(layout)] \in 0..7
  <1> DEFINE sh == InitialShadow(layout)
             NF == NeighbourFirst(layout)
             End == ShadowEnd(layout)
             bytes == ShadowBytes(layout.size)
             nbytes == ShadowBytes(layout.neighbour)
  <1>1. /\ layout.size \in Nat \ {0} /\ layout.gap \in Nat /\ layout.gap >= 2
        /\ InitialLast \in Int /\ InitialLast >= First
        /\ NF = InitialLast + 1 + layout.gap
        /\ End \in Int /\ End > NF /\ layout.size % 8 \in 0..7
    BY LayoutFacts
  <1>2. /\ bytes = InitialLast - First + 1
        /\ nbytes \in Int /\ nbytes > 0 /\ layout.neighbour \in Nat
    <2>1. layout.neighbour \in Nat \ {0}
      BY SizesAssumption, ShadowAssumption DEF LayoutOK
    <2>2. nbytes \in Int /\ nbytes > 0
      BY <2>1 DEF ShadowBytes
    <2>3. bytes \in Int
      BY <1>1 DEF ShadowBytes
    <2>4. QED  BY <2>1, <2>2, <2>3 DEF InitialLast, First
  <1>3. sh = [i \in 0..End |->
                IF i - First \in 0..(bytes - 1) THEN ObjectByte(layout.size, i - First)
                ELSE IF i - NF \in 0..(nbytes - 1) THEN ObjectByte(layout.neighbour, i - NF)
                ELSE Redzone]
    BY DEF InitialShadow
  <1>4. \A j : ObjectByte(layout.size, j) = IF j + 1 = bytes THEN layout.size % 8 ELSE 0
    BY DEF ObjectByte
  <1>5. \A j : ObjectByte(layout.neighbour, j) \in Int
    BY <1>2 DEF ObjectByte
  <1> HIDE DEF sh, NF, End, bytes, nbytes
  <1>6. sh \in [0..End -> Int]
    <2>1. \A j : ObjectByte(layout.size, j) \in Int
      BY <1>1, <1>4
    <2>2. Redzone \in Int
      BY DEF Redzone
    <2>3. QED  BY <1>3, <1>5, <2>1, <2>2
  <1>7. \A i \in First..InitialLast : sh[i] = IF i = InitialLast THEN layout.size % 8 ELSE 0
    <2>1. ASSUME NEW i \in First..InitialLast
          PROVE  sh[i] = IF i = InitialLast THEN layout.size % 8 ELSE 0
      <3>1. i \in 0..End /\ i - First \in 0..(bytes - 1) /\ (i - First + 1 = bytes <=> i = InitialLast)
        BY <1>1, <1>2 DEF First
      <3>2. sh[i] = ObjectByte(layout.size, i - First)
        BY <1>3, <3>1
      <3>3. QED  BY <1>4, <3>1, <3>2
    <2>2. QED  BY <2>1
  <1>8. \A i \in (InitialLast + 1)..(NF - 1) : sh[i] = Redzone
    <2>1. ASSUME NEW i \in (InitialLast + 1)..(NF - 1) PROVE sh[i] = Redzone
      <3>1. i \in 0..End /\ i - First \notin 0..(bytes - 1) /\ i - NF \notin 0..(nbytes - 1)
        BY <1>1, <1>2 DEF First
      <3>2. QED  BY <1>3, <3>1
    <2>2. QED  BY <2>1
  <1>9. sh[First - 1] = Redzone
    <2>1. First - 1 \in 0..End /\ (First - 1) - First \notin 0..(bytes - 1)
          /\ (First - 1) - NF \notin 0..(nbytes - 1)
      BY <1>1, <1>2 DEF First
    <2>2. QED  BY <1>3, <2>1
  <1>10. Shape(sh, InitialLast, layout.size % 8)
    <2>1. /\ \A i \in First..(InitialLast - 1) : sh[i] = 0
          /\ sh[InitialLast] = layout.size % 8
          /\ \A i \in (InitialLast + 1)..(NF - 1) : sh[i] < 0
      BY <1>1, <1>7, <1>8 DEF First, Redzone
    <2>2. InitialLast \in First..(NF - 2) /\ layout.size % 8 \in 0..8
      BY <1>1 DEF First
    <2>3. QED  BY <1>6, <2>1, <2>2 DEF Shape, sh, NF, End
  <1>11. sh[NF] \in 0..7
    <2>1. NF \in 0..End /\ NF - First \notin 0..(bytes - 1) /\ NF - NF \in 0..(nbytes - 1)
      BY <1>1, <1>2 DEF First
    <2>2. sh[NF] = ObjectByte(layout.neighbour, NF - NF)
      BY <1>3, <2>1
    <2>3. \A j : ObjectByte(layout.neighbour, j) \in 0..7
      BY <1>2 DEF ObjectByte
    <2>4. QED  BY <2>2, <2>3
  <1>12. QED  BY <1>9, <1>10, <1>11 DEF sh, NF

-----------------------------------------------------------------------------
\* The facts of a shape that its readers need.
LEMMA ShapeFacts ==
    ASSUME LayoutOK, NEW sh, NEW last, NEW b, Shape(sh, last, b)
    PROVE  /\ DOMAIN sh = 0..ShadowEnd(layout)
           /\ \A i \in 0..ShadowEnd(layout) : sh[i] \in Int
           /\ last \in Int /\ last >= First /\ last + 2 <= NeighbourFirst(layout)
           /\ NeighbourFirst(layout) \in Int /\ ShadowEnd(layout) \in Int
           /\ NeighbourFirst(layout) < ShadowEnd(layout)
           /\ b \in 0..8 /\ sh[last] = b
           /\ shadow_byte_to_size(b) \in 1..8
           /\ SizeOf(last, b) \in Nat \ {0}
           /\ sh[First - 1] = Redzone
  <1>1. /\ NeighbourFirst(layout) \in Int /\ ShadowEnd(layout) \in Int
        /\ NeighbourFirst(layout) < ShadowEnd(layout)
    BY LayoutFacts
  <1>2. /\ sh \in [0..ShadowEnd(layout) -> Int]
        /\ last \in First..(NeighbourFirst(layout) - 2) /\ b \in 0..8 /\ sh[last] = b
        /\ \A i \in 0..ShadowEnd(layout) : i < First => sh[i] = InitialShadow(layout)[i]
    BY DEF Shape
  <1>3. shadow_byte_to_size(b) \in 1..8
    BY <1>2 DEF shadow_byte_to_size
  <1>4. last \in Int /\ last >= First /\ last + 2 <= NeighbourFirst(layout)
    BY <1>1, <1>2 DEF First
  <1>5. SizeOf(last, b) \in Nat \ {0}
    BY <1>3, <1>4 DEF SizeOf, First
  <1>6. First - 1 \in 0..ShadowEnd(layout) /\ First - 1 < First
    BY <1>1, <1>4 DEF First
  <1>7. sh[First - 1] = Redzone
    BY <1>2, <1>6, InitialShape
  <1>8. QED  BY <1>1, <1>2, <1>3, <1>4, <1>5, <1>7

\* From inside the buffer, the redzones are those before and behind it.
LEMMA RedzonesOfShape ==
    ASSUME LayoutOK, NEW sh, NEW last, NEW b, Shape(sh, last, b), NEW i \in First..last
    PROVE  PrevRedzone(sh, i) = First - 1 /\ NextRedzone(sh, i) = last + 1
  <1> DEFINE NF == NeighbourFirst(layout)
             End == ShadowEnd(layout)
             Before == {j \in DOMAIN sh : j < i /\ sh[j] < 0}
             Behind == {j \in DOMAIN sh : j > i /\ sh[j] < 0}
  <1>1. /\ DOMAIN sh = 0..End /\ last \in Int /\ last >= First /\ last + 2 <= NF
        /\ NF \in Int /\ End \in Int /\ NF < End /\ b \in 0..8 /\ sh[last] = b
        /\ sh[First - 1] = Redzone
    BY ShapeFacts
  <1>2. /\ \A j \in First..(last - 1) : sh[j] = 0
        /\ \A j \in (last + 1)..(NF - 1) : sh[j] < 0
    BY DEF Shape
  <1> HIDE DEF NF, End
  <1>3. First - 1 \in Before
    BY <1>1 DEF First, Redzone
  <1>4. \A j \in First..last : ~(sh[j] < 0)
    <2>1. \A j \in First..last : j \in First..(last - 1) \/ j = last
      BY <1>1 DEF First
    <2>2. QED  BY <1>1, <1>2, <2>1
  <1>5. \A j \in Before : j \in Int /\ First - 1 >= j
    <2>1. SUFFICES ASSUME NEW j \in Before, ~(First - 1 >= j) PROVE FALSE
      BY <1>1
    <2>2. j \in First..last
      BY <1>1, <2>1 DEF First
    <2>3. QED  BY <1>4, <2>2
  <1>6. last + 1 \in Behind
    BY <1>1, <1>2 DEF First
  <1>7. \A j \in Behind : j \in Int /\ last + 1 <= j
    <2>1. SUFFICES ASSUME NEW j \in Behind, ~(last + 1 <= j) PROVE FALSE
      BY <1>1
    <2>2. j \in First..last
      BY <1>1, <2>1 DEF First
    <2>3. QED  BY <1>4, <2>2
  <1> HIDE DEF Before, Behind
  <1>8. Max(Before) = First - 1
    <2>1. Max(Before) \in Before /\ \A y \in Before : Max(Before) >= y
      BY <1>3, <1>5 DEF Max
    <2>2. QED  BY <1>3, <1>5, <2>1 DEF First
  <1>9. Min(Behind) = last + 1
    <2>1. Min(Behind) \in Behind /\ \A y \in Behind : Min(Behind) =< y
      BY <1>6, <1>7 DEF Min
    <2>2. QED  BY <1>1, <1>6, <1>7, <2>1
  <1>10. QED  BY <1>8, <1>9 DEF PrevRedzone, NextRedzone, Before, Behind

\* The traversals stop early, or they find the buffer.
OutOfReach(addr, last) ==
    \/ addr \div 8 - (First - 1) > TRAVERSE_THRESHOLD
    \/ (last + 1) - addr \div 8 > TRAVERSE_THRESHOLD

(***************************************************************************)
(* generic_buffer_size and generic_buffer_base from an address between the *)
(* beginning of the buffer and the neighbour.                              *)
(***************************************************************************)
LEMMA SizeOfShape ==
    ASSUME LayoutOK, NEW sh, NEW last, NEW b, Shape(sh, last, b),
           NEW addr \in (8 * First)..(8 * NeighbourFirst(layout) - 1)
    PROVE  /\ generic_buffer_size(sh, addr)
                 = IF addr \div 8 > last \/ Overflowed(sh, addr) \/ OutOfReach(addr, last)
                   THEN Error ELSE SizeOf(last, b)
           /\ generic_buffer_size(sh, addr) # Error
                 => /\ generic_buffer_base(sh, addr) = 8 * First
                    /\ addr \div 8 \in First..last
  <1> DEFINE NF == NeighbourFirst(layout)
             i == addr \div 8
             sum(hi) == MapThenSumSet(LAMBDA j : shadow_byte_to_size(sh[j]), i..(hi - 1))
  <1>1. /\ last \in Int /\ last >= First /\ last + 2 <= NF /\ NF \in Int
        /\ b \in 0..8 /\ sh[last] = b /\ shadow_byte_to_size(b) \in 1..8
        /\ SizeOf(last, b) \in Nat \ {0}
    BY ShapeFacts
  <1>2. i \in Int /\ i >= First /\ i <= NF - 1
    <2>1. addr \in Int /\ addr >= 8 * First /\ addr <= 8 * NF - 1
      BY <1>1 DEF First
    <2>2. QED  BY <1>1, <2>1 DEF First
  <1>3. generic_buffer_size(sh, addr)
          = IF \/ Overflowed(sh, addr)
               \/ i - PrevRedzone(sh, i) > TRAVERSE_THRESHOLD
               \/ NextRedzone(sh, i) - i > TRAVERSE_THRESHOLD
            THEN Error
            ELSE 8 * (i - 1 - PrevRedzone(sh, i)) + sum(NextRedzone(sh, i))
    BY Zenon DEF generic_buffer_size
  <1>4. generic_buffer_base(sh, addr)
          = IF Overflowed(sh, addr) \/ i - PrevRedzone(sh, i) > TRAVERSE_THRESHOLD
            THEN Error ELSE 8 * (PrevRedzone(sh, i) + 1)
    BY Zenon DEF generic_buffer_base
  <1>5. OutOfReach(addr, last) <=> \/ i - (First - 1) > TRAVERSE_THRESHOLD
                                   \/ (last + 1) - i > TRAVERSE_THRESHOLD
    BY DEF OutOfReach
  <1>6. CASE i > last
    <2>1. i \in (last + 1)..(NF - 1)
      BY <1>1, <1>2, <1>6
    <2>2. sh[i] < 0
      BY <2>1 DEF Shape
    <2>3. Overflowed(sh, addr)
      BY <2>2 DEF Overflowed
    <2>4. QED  BY <1>3, <1>6, <2>3
  <1>7. CASE i <= last
    <2>1. i \in First..last
      BY <1>1, <1>2, <1>7 DEF First
    <2>2. PrevRedzone(sh, i) = First - 1 /\ NextRedzone(sh, i) = last + 1
      BY <2>1, RedzonesOfShape
    <2>3. MapThenSumSet(LAMBDA j : shadow_byte_to_size(sh[j]), i..last)
             = 8 * (last - i) + shadow_byte_to_size(sh[last])
      <3>1. \A j \in i..(last - 1) : sh[j] = 0
        <4>1. \A j \in i..(last - 1) : j \in First..(last - 1)
          BY <1>1, <1>2 DEF First
        <4>2. QED  BY <4>1 DEF Shape
      <3>2. shadow_byte_to_size(sh[last]) \in Int
        BY <1>1
      <3> HIDE DEF i
      <3>3. QED  BY <1>1, <1>2, <1>7, <3>1, <3>2, SumOfBytes
    <2>4. sum(last + 1) = 8 * (last - i) + shadow_byte_to_size(b)
      <3>1. (last + 1) - 1 = last
        BY <1>1
      <3> HIDE DEF i
      <3>2. QED  BY <1>1, <2>3, <3>1, Zenon
    <2> HIDE DEF i, sum
    <2>5. 8 * (i - 1 - (First - 1)) + sum(last + 1) = SizeOf(last, b)
      BY <1>1, <1>2, <2>4 DEF SizeOf, First
    <2>6. ~(i > last)
      BY <1>1, <1>2, <1>7
    <2>7. generic_buffer_size(sh, addr) = IF Overflowed(sh, addr) \/ OutOfReach(addr, last)
                                          THEN Error ELSE SizeOf(last, b)
      <3>1. generic_buffer_size(sh, addr)
              = IF \/ Overflowed(sh, addr)
                   \/ i - (First - 1) > TRAVERSE_THRESHOLD
                   \/ (last + 1) - i > TRAVERSE_THRESHOLD
                THEN Error
                ELSE 8 * (i - 1 - (First - 1)) + sum(last + 1)
        BY <1>3, <2>2, Zenon
      <3>2. QED  BY <1>5, <2>5, <3>1, Zenon
    <2>8. generic_buffer_size(sh, addr) # Error => generic_buffer_base(sh, addr) = 8 * First
      <3>1. SUFFICES ASSUME generic_buffer_size(sh, addr) # Error
                     PROVE  generic_buffer_base(sh, addr) = 8 * First
        OBVIOUS
      <3>2. ~Overflowed(sh, addr) /\ ~(i - (First - 1) > TRAVERSE_THRESHOLD)
        BY <1>5, <2>7, <3>1
      <3>3. generic_buffer_base(sh, addr) = 8 * ((First - 1) + 1)
        BY <1>4, <2>2, <3>2
      <3>4. QED  BY <3>3 DEF First
    <2>9. QED  BY <2>1, <2>6, <2>7, <2>8 DEF i
  <1>8. QED  BY <1>1, <1>2, <1>6, <1>7

\* What the program can address in a buffer of some shape.
LEMMA BytesOfShape ==
    ASSUME LayoutOK, NEW sh, NEW last, NEW b, Shape(sh, last, b)
    PROVE  /\ BufferBytes(sh) = (8 * First)..(8 * First + SizeOf(last, b) - 1)
           /\ Cardinality(BufferBytes(sh)) = SizeOf(last, b)
  <1> DEFINE NF == NeighbourFirst(layout)
             size == SizeOf(last, b)
             top == 8 * First + size - 1
  <1>1. /\ last \in Int /\ last >= First /\ last + 2 <= NF /\ NF \in Int
        /\ b \in 0..8 /\ sh[last] = b /\ shadow_byte_to_size(b) \in 1..8
        /\ size \in Nat \ {0}
    BY ShapeFacts
  <1>2. size = 8 * (last - First) + shadow_byte_to_size(b)
    BY DEF SizeOf
  <1>3. BufferBytes(sh) = {addr \in (8 * First)..(8 * NF - 1) : Addressable(sh, addr)}
    BY DEF BufferBytes
  <1>4. /\ \A j \in First..(last - 1) : sh[j] = 0
        /\ \A j \in (last + 1)..(NF - 1) : sh[j] < 0
    BY DEF Shape
  <1> HIDE DEF NF, size
  <1>5. top \in Int /\ top = 8 * last + shadow_byte_to_size(b) - 1 /\ top <= 8 * NF - 1
    BY <1>1, <1>2 DEF First
  <1>6. ASSUME NEW addr \in (8 * First)..(8 * NF - 1)
        PROVE  Addressable(sh, addr) <=> addr <= top
    <2> DEFINE q == addr \div 8
               r == addr % 8
    <2>1. addr \in Int /\ addr >= 8 * First /\ addr <= 8 * NF - 1
      BY <1>1 DEF First
    <2>2. q \in Int /\ r \in 0..7 /\ addr = 8 * q + r
      BY <2>1, ByEight
    <2>3. Addressable(sh, addr) <=> sh[q] = 0 \/ (sh[q] > 0 /\ r < sh[q])
      BY DEF Addressable
    <2> HIDE DEF q, r, top
    <2>4. q >= First /\ q <= NF - 1
      BY <1>1, <2>1, <2>2 DEF First
    <2>5. CASE q < last
      <3>1. sh[q] = 0
        BY <1>1, <1>4, <2>2, <2>4, <2>5 DEF First
      <3>2. addr <= top
        BY <1>1, <1>5, <2>2, <2>5
      <3>3. QED  BY <2>3, <3>1, <3>2
    <2>6. CASE q = last
      <3>1. addr <= top <=> r < shadow_byte_to_size(b)
        BY <1>1, <1>5, <2>2, <2>6
      <3>2. Addressable(sh, addr) <=> b = 0 \/ (b > 0 /\ r < b)
        BY <1>1, <2>3, <2>6
      <3>3. QED  BY <1>1, <2>2, <3>1, <3>2 DEF shadow_byte_to_size
    <2>7. CASE q > last
      <3>1. sh[q] < 0
        BY <1>1, <1>4, <2>2, <2>4, <2>7
      <3>2. q \in 0..ShadowEnd(layout)
        BY <1>1, <2>2, <2>4, ShapeFacts DEF First, NF
      <3>3. sh[q] \in Int
        BY <3>2, ShapeFacts
      <3>4. ~(addr <= top)
        BY <1>1, <1>5, <2>2, <2>7
      <3>5. QED  BY <2>3, <3>1, <3>3, <3>4
    <2>8. QED  BY <1>1, <2>2, <2>5, <2>6, <2>7
  <1> HIDE DEF top
  <1>7. BufferBytes(sh) = (8 * First)..top
    <2>1. \A addr : addr \in BufferBytes(sh) => addr \in (8 * First)..top
      BY <1>1, <1>3, <1>5, <1>6 DEF First
    <2>2. \A addr : addr \in (8 * First)..top => addr \in BufferBytes(sh)
      <3>1. SUFFICES ASSUME NEW addr \in (8 * First)..top PROVE addr \in BufferBytes(sh)
        OBVIOUS
      <3>2. addr \in (8 * First)..(8 * NF - 1) /\ addr <= top
        BY <1>1, <1>5 DEF First
      <3>3. QED  BY <1>3, <1>6, <3>2
    <2>3. QED  BY <2>1, <2>2
  <1>8. Cardinality((8 * First)..top) = size
    <2>1. 8 * First \in Int /\ top - 8 * First + 1 = size /\ ~(8 * First > top)
      BY <1>1 DEF First, top
    <2>2. QED  BY <1>5, <2>1, FS_Interval
  <1>9. QED  BY <1>7, <1>8 DEF top, size

(***************************************************************************)
(* Case (2) of adjust_redzone_size: enlarging keeps the shape, makes the   *)
(* buffer larger, and misses the size asked for by at most eight bytes.    *)
(***************************************************************************)
LEMMA EnlargedShape ==
    ASSUME LayoutOK, NEW sh, NEW last, NEW b, Shape(sh, last, b),
           last + 3 <= NeighbourFirst(layout), NEW n \in 1..15
    PROVE  \E last2, b2 : /\ Shape(Enlarge(sh, last, n), last2, b2)
                          /\ SizeOf(last2, b2) > SizeOf(last, b)
                          /\ SizeOf(last2, b2) - (SizeOf(last, b) + n) \in -8..8
  <1> DEFINE NF == NeighbourFirst(layout)
             End == ShadowEnd(layout)
             size == shadow_byte_to_size(b)
             capacity == 8 - size
             full == (n - capacity) \div 8
             rest == (n - capacity) % 8
             stops == {t \in 1..full : sh[last + t + 2] >= 0}
             Zeros(l) == [i \in DOMAIN sh |-> IF i \in last..l THEN 0 ELSE sh[i]]
             Result == Enlarge(sh, last, n)
             Found(l, c) == /\ Shape(Result, l, c)
                            /\ SizeOf(l, c) > SizeOf(last, b)
                            /\ SizeOf(l, c) - (SizeOf(last, b) + n) \in -8..8
  <1>1. /\ last \in Int /\ last >= First /\ last + 3 <= NF /\ NF \in Int
        /\ End \in Int /\ NF < End
        /\ b \in 0..8 /\ sh[last] = b /\ size \in 1..8
    BY ShapeFacts
  <1>2. /\ sh \in [0..End -> Int] /\ DOMAIN sh = 0..End
        /\ \A i \in First..(last - 1) : sh[i] = 0
        /\ \A i \in (last + 1)..(NF - 1) : sh[i] < 0
        /\ \A i \in 0..End : i < First \/ i >= NF => sh[i] = InitialShadow(layout)[i]
    BY DEF Shape
  <1>3. capacity \in 0..7 /\ (full \in {0, 1} \/ n < capacity)
    BY <1>1
  <1>4. Result = IF n < capacity THEN [sh EXCEPT ![last] = size + n]
                 ELSE IF n = capacity THEN [sh EXCEPT ![last] = 0]
                 ELSE IF stops # {} THEN Zeros(last + Min(stops))
                 ELSE [Zeros(last + full) EXCEPT ![last + full + 1] = rest]
    BY <1>1, Zenon DEF Enlarge
  <1>5. SizeOf(last, b) = 8 * (last - First) + size /\ First = 2
    BY DEF SizeOf, First
  <1>6. \A l, c : SizeOf(l, c) = 8 * (l - First) + shadow_byte_to_size(c)
    BY DEF SizeOf
  <1>7. SUFFICES \E l, c : Found(l, c)
    OBVIOUS
  <1>8. ASSUME NEW l \in last..(NF - 2), NEW c \in 0..8,
               Result \in [0..End -> Int],
               \A i \in 0..End : i \notin last..l => Result[i] = sh[i],
               \A i \in last..(l - 1) : Result[i] = 0,
               Result[l] = c
        PROVE  Shape(Result, l, c)
    <2> HIDE DEF Result
    <2>1. l \in First..(NF - 2)
      BY <1>1, <1>5
    <2>2. \A i \in First..(l - 1) : Result[i] = 0
      <3>1. \A i \in First..(last - 1) : i \in 0..End /\ i \notin last..l
        BY <1>1, <1>5
      <3>2. \A i \in First..(l - 1) : i \in First..(last - 1) \/ i \in last..(l - 1)
        BY <1>1, <1>5
      <3>3. QED  BY <1>2, <1>8, <3>1, <3>2
    <2>3. \A i \in (l + 1)..(NF - 1) : Result[i] < 0
      <3>1. \A i \in (l + 1)..(NF - 1) : i \in 0..End /\ i \notin last..l /\ i \in (last + 1)..(NF - 1)
        BY <1>1, <1>5
      <3>2. QED  BY <1>2, <1>8, <3>1
    <2>4. \A i \in 0..End : i < First \/ i >= NF => Result[i] = InitialShadow(layout)[i]
      <3>1. \A i \in 0..End : i < First \/ i >= NF => i \notin last..l
        BY <1>1, <1>5
      <3>2. QED  BY <1>2, <1>8, <3>1
    <2>5. QED  BY <1>8, <2>1, <2>2, <2>3, <2>4 DEF Shape
  <1> HIDE DEF NF, End
  <1>9. CASE n < capacity
    <2>1. Result = [sh EXCEPT ![last] = size + n]
      BY <1>4, <1>9, Zenon
    <2>2. size + n \in 1..7 /\ last \in last..(NF - 2) /\ last \in 0..End
      BY <1>1, <1>5, <1>9
    <2> HIDE DEF Result, size
    <2>3. Shape(Result, last, size + n)
      <3>1. Result \in [0..End -> Int] /\ Result[last] = size + n
            /\ \A i \in 0..End : i # last => Result[i] = sh[i]
        BY <1>2, <2>1, <2>2
      <3>2. \A i : i \notin last..(last - 1) /\ (i \in 0..End /\ i \notin last..last => i # last)
        BY <1>1
      <3>3. size + n \in 0..8
        BY <1>1, <2>2
      <3>4. QED  BY <1>8, <2>2, <3>1, <3>2, <3>3
    <2>4. shadow_byte_to_size(size + n) = size + n
      BY <1>1, <2>2 DEF shadow_byte_to_size
    <2>5. Found(last, size + n)
      BY <1>1, <1>5, <1>6, <2>3, <2>4
    <2>6. QED  BY <2>5
  <1>10. CASE n = capacity
    <2>1. Result = [sh EXCEPT ![last] = 0]
      <3>1. ~(n < capacity)
        BY <1>1, <1>10
      <3> HIDE DEF Result, capacity, stops, Zeros
      <3>2. QED  BY <1>4, <1>10, <3>1, Zenon
    <2>2. last \in last..(NF - 2) /\ last \in 0..End /\ size + n = 8
      BY <1>1, <1>5, <1>10
    <2> HIDE DEF Result, size
    <2>3. Shape(Result, last, 0)
      <3>1. Result \in [0..End -> Int] /\ Result[last] = 0
            /\ \A i \in 0..End : i # last => Result[i] = sh[i]
        BY <1>2, <2>1, <2>2
      <3>2. \A i : i \notin last..(last - 1) /\ (i \in 0..End /\ i \notin last..last => i # last)
        BY <1>1
      <3>3. QED  BY <1>8, <2>2, <3>1, <3>2
    <2>4. shadow_byte_to_size(0) = 8
      BY DEF shadow_byte_to_size
    <2>5. Found(last, 0)
      BY <1>1, <1>5, <1>6, <2>2, <2>3, <2>4
    <2>6. QED  BY <2>5
  <1>11. CASE n > capacity /\ stops # {}
    <2>1. full = 1 /\ capacity \in 0..7
      <3>1. \A t \in stops : t \in 1..full
        OBVIOUS
      <3>2. capacity \in 0..7 /\ full \in {0, 1}
        BY <1>1, <1>11
      <3> HIDE DEF stops, full
      <3>3. PICK t \in 1..full : TRUE
        BY <1>11, <3>1
      <3>4. QED  BY <3>2, <3>3
    <2>2. n - capacity \in 8..15
      BY <1>1, <2>1
    <2>3. Min(stops) = 1
      <3>1. stops = {1}
        <4>1. \A t \in stops : t = 1
          <5> HIDE DEF full
          <5>1. QED  BY <2>1
        <4> HIDE DEF stops
        <4>2. QED  BY <1>11, <4>1
      <3> HIDE DEF stops
      <3>2. QED  BY <3>1 DEF Min
    <2>4. Result = Zeros(last + 1)
      <3>1. Result = Zeros(last + Min(stops))
        <4>1. ~(n < capacity) /\ ~(n = capacity)
          BY <1>1, <1>11
        <4> HIDE DEF Result, stops, Zeros, capacity
        <4>2. QED  BY <1>4, <1>11, <4>1, Zenon
      <3>2. QED  BY <2>3, <3>1, Zenon
    <2>5. last + 1 \in last..(NF - 2) /\ last \in 0..End /\ last + 1 \in 0..End
      BY <1>1, <1>5
    <2>6. /\ Result \in [0..End -> Int]
          /\ \A i \in 0..End : Result[i] = IF i \in last..(last + 1) THEN 0 ELSE sh[i]
      BY <1>2, <2>4
    <2> HIDE DEF Result, stops, full, Zeros
    <2>7. Shape(Result, last + 1, 0)
      <3>1. \A i \in last..((last + 1) - 1) : Result[i] = 0
        <4>1. \A i \in last..((last + 1) - 1) : i = last
          BY <1>1
        <4>2. last \in last..(last + 1)
          BY <1>1
        <4>3. QED  BY <2>5, <2>6, <4>1, <4>2
      <3>2. Result[last + 1] = 0
        BY <1>1, <2>5, <2>6
      <3>3. QED  BY <1>8, <2>5, <2>6, <3>1, <3>2
    <2>8. shadow_byte_to_size(0) = 8
      BY DEF shadow_byte_to_size
    <2>9. Found(last + 1, 0)
      <3>1. SizeOf(last + 1, 0) = SizeOf(last, b) - size + 16 /\ SizeOf(last, b) \in Int
        BY <1>1, <1>5, <1>6, <2>8
      <3>2. SizeOf(last + 1, 0) > SizeOf(last, b)
        BY <1>1, <3>1
      <3>3. SizeOf(last + 1, 0) - (SizeOf(last, b) + n) \in -8..8
        BY <1>1, <2>2, <3>1
      <3>4. QED  BY <2>7, <3>2, <3>3
    <2>10. QED  BY <2>9
  <1>12. CASE n > capacity /\ stops = {}
    <2>1. capacity \in 0..7 /\ full \in {0, 1} /\ rest \in 0..7 /\ n - capacity = 8 * full + rest
      <3> DEFINE m == n - capacity
      <3>1. capacity \in 0..7 /\ m \in 1..15
        BY <1>1, <1>12
      <3> HIDE DEF capacity, m
      <3>2. m \div 8 \in {0, 1} /\ m % 8 \in 0..7 /\ m = 8 * (m \div 8) + (m % 8)
        BY <3>1
      <3>3. QED  BY <3>1, <3>2 DEF m
    <2>2. Result = [Zeros(last + full) EXCEPT ![last + full + 1] = rest]
      <3>1. ~(n < capacity) /\ ~(n = capacity) /\ ~(stops # {})
        BY <1>1, <1>12
      <3> HIDE DEF Result, stops, Zeros, capacity, full, rest
      <3>2. QED  BY <1>4, <3>1, Zenon
    <2>3. (n - capacity) \in 1..15
      BY <1>1, <1>12
    <2>4. full = 1 => last + 4 <= NF
      <3>1. SUFFICES ASSUME full = 1 PROVE last + 4 <= NF
        OBVIOUS
      <3>2. ~(sh[last + 3] >= 0)
        <4>1. 1 \in 1..full /\ last + 1 + 2 = last + 3
          BY <1>1, <3>1
        <4> HIDE DEF full
        <4>2. ~(sh[last + 1 + 2] >= 0)
          BY <1>12, <4>1
        <4>3. QED  BY <4>1, <4>2
      <3>3. sh[NF] = InitialShadow(layout)[NF]
        BY <1>1, <1>2, <1>5
      <3>4. sh[NF] \in 0..7
        BY <3>3, InitialShape DEF NF
      <3>5. last + 3 # NF
        BY <3>2, <3>4
      <3>6. QED  BY <1>1, <3>5
    <2> DEFINE l == last + full + 1
    <2>5. /\ l \in last..(NF - 2) /\ last \in 0..End /\ l \in 0..End /\ l \in Int
          /\ last + full \in last..(NF - 2) /\ l = (last + full) + 1
      <3> HIDE DEF full
      <3>1. QED  BY <1>1, <1>5, <2>1, <2>4
    <2>6. Zeros(last + full) \in [0..End -> Int]
      BY <1>2
    <2>7. \A i \in 0..End : Zeros(last + full)[i] = IF i \in last..(last + full) THEN 0 ELSE sh[i]
      BY <1>2
    <2> HIDE DEF Result, stops, Zeros, full, rest, capacity
    <2>8. /\ Result \in [0..End -> Int] /\ Result[l] = rest
          /\ \A i \in 0..End : i # l => Result[i] = IF i \in last..(last + full) THEN 0 ELSE sh[i]
      <3>1. Result = [Zeros(last + full) EXCEPT ![l] = rest] /\ rest \in Int
        BY <2>1, <2>2
      <3> HIDE DEF l
      <3>2. QED  BY <2>5, <2>6, <2>7, <3>1
    <2>9. Shape(Result, l, rest)
      <3>1. \A i \in 0..End : i \notin last..l => Result[i] = sh[i]
        <4>1. \A i \in 0..End : i \notin last..l => i # l /\ i \notin last..(last + full)
          BY <1>1, <2>1, <2>5
        <4> HIDE DEF l
        <4>2. QED  BY <2>8, <4>1
      <3>2. \A i \in last..(l - 1) : Result[i] = 0
        <4>1. \A i \in last..(l - 1) : i \in 0..End /\ i # l /\ i \in last..(last + full)
          BY <1>1, <1>5, <2>1, <2>5
        <4> HIDE DEF l
        <4>2. QED  BY <2>8, <4>1
      <3>3. rest \in 0..8
        BY <2>1
      <3> HIDE DEF l
      <3>4. QED  BY <1>8, <2>5, <2>8, <3>1, <3>2, <3>3
    <2>10. /\ SizeOf(l, rest) = SizeOf(last, b) - size + 8 * full + 8 + shadow_byte_to_size(rest)
           /\ SizeOf(last, b) \in Int /\ shadow_byte_to_size(rest) \in 1..8
      <3>1. shadow_byte_to_size(rest) \in 1..8
        BY <2>1 DEF shadow_byte_to_size
      <3>2. QED  BY <1>1, <1>5, <1>6, <2>1, <2>5, <3>1
    <2>11. shadow_byte_to_size(rest) - rest \in {0, 8}
      BY <2>1 DEF shadow_byte_to_size
    <2>12. n = 8 - size + 8 * full + rest
      BY <1>1, <2>1 DEF capacity
    <2>13. Found(l, rest)
      <3> HIDE DEF l
      <3>1. SizeOf(l, rest) > SizeOf(last, b)
        BY <1>1, <2>1, <2>10
      <3>2. SizeOf(l, rest) - (SizeOf(last, b) + n) \in -8..8
        BY <1>1, <2>1, <2>10, <2>11, <2>12
      <3>3. QED  BY <2>9, <3>1, <3>2
    <2>14. QED  BY <2>13
  <1>13. QED
    <2>1. n < capacity \/ n = capacity \/ n > capacity
      BY <1>1
    <2>2. QED  BY <1>9, <1>10, <1>11, <1>12, <2>1

(***************************************************************************)
(* Case (3) of adjust_redzone_size: shrinking to a size that is positive   *)
(* keeps the shape, makes the buffer smaller, and misses the size asked    *)
(* for by at most eight bytes.                                             *)
(***************************************************************************)
LEMMA ShrunkShape ==
    ASSUME LayoutOK, NEW sh, NEW last, NEW b, Shape(sh, last, b),
           NEW n \in 1..(SizeOf(last, b) - 1)
    PROVE  \E last2, b2 : /\ Shape(Shrink(sh, last, n), last2, b2)
                          /\ SizeOf(last2, b2) < SizeOf(last, b)
                          /\ SizeOf(last2, b2) - (SizeOf(last, b) - n) \in -8..8
  <1> DEFINE NF == NeighbourFirst(layout)
             End == ShadowEnd(layout)
             size == shadow_byte_to_size(b)
             redzone_byte == sh[last + 1]
             full == (n - size) \div 8
             rest == (n - size) % 8
             stops == {t \in 1..full : sh[last - t - 2] < 0}
             Poisoned(l) == [i \in DOMAIN sh |-> IF i \in l..last THEN redzone_byte ELSE sh[i]]
             Result == Shrink(sh, last, n)
             Found(l, c) == /\ Shape(Result, l, c)
                            /\ SizeOf(l, c) < SizeOf(last, b)
                            /\ SizeOf(l, c) - (SizeOf(last, b) - n) \in -8..8
  <1>1. /\ last \in Int /\ last >= First /\ last + 2 <= NF /\ NF \in Int
        /\ End \in Int /\ NF < End
        /\ b \in 0..8 /\ sh[last] = b /\ size \in 1..8 /\ SizeOf(last, b) \in Nat \ {0}
    BY ShapeFacts
  <1>2. /\ sh \in [0..End -> Int] /\ DOMAIN sh = 0..End
        /\ \A i \in First..(last - 1) : sh[i] = 0
        /\ \A i \in (last + 1)..(NF - 1) : sh[i] < 0
        /\ \A i \in 0..End : i < First \/ i >= NF => sh[i] = InitialShadow(layout)[i]
    BY DEF Shape
  <1>3. Result = IF n < size THEN [sh EXCEPT ![last] = size - n]
                 ELSE IF n = size THEN [sh EXCEPT ![last] = redzone_byte]
                 ELSE IF stops # {} THEN Poisoned(last - Min(stops))
                 ELSE [Poisoned(last - full) EXCEPT ![last - full - 1] = 8 - rest]
    BY <1>1, Zenon DEF Shrink
  <1>4. /\ First = 2 /\ SizeOf(last, b) = 8 * (last - First) + size
        /\ n \in Int /\ n >= 1 /\ n <= 8 * (last - First) + size - 1
    BY <1>1 DEF SizeOf, First
  <1>5. \A l, c : SizeOf(l, c) = 8 * (l - First) + shadow_byte_to_size(c)
    BY DEF SizeOf
  <1>6. redzone_byte \in Int /\ redzone_byte < 0
    <2>1. last + 1 \in 0..End /\ last + 1 \in (last + 1)..(NF - 1)
      BY <1>1, <1>4
    <2>2. QED  BY <1>2, <2>1
  <1>7. SUFFICES \E l, c : Found(l, c)
    OBVIOUS
  <1>8. ASSUME NEW l \in First..last, NEW c \in 0..8,
               Result \in [0..End -> Int],
               \A i \in 0..End : i \notin l..last => Result[i] = sh[i],
               \A i \in (l + 1)..last : Result[i] < 0,
               Result[l] = c
        PROVE  Shape(Result, l, c)
    <2> HIDE DEF Result
    <2>1. l \in First..(NF - 2)
      BY <1>1, <1>4
    <2>2. \A i \in First..(l - 1) : Result[i] = 0
      <3>1. \A i \in First..(l - 1) : i \in 0..End /\ i \notin l..last /\ i \in First..(last - 1)
        BY <1>1, <1>4
      <3>2. QED  BY <1>2, <1>8, <3>1
    <2>3. \A i \in (l + 1)..(NF - 1) : Result[i] < 0
      <3>1. \A i \in (last + 1)..(NF - 1) : i \in 0..End /\ i \notin l..last
        BY <1>1, <1>4
      <3>2. \A i \in (l + 1)..(NF - 1) : i \in (l + 1)..last \/ i \in (last + 1)..(NF - 1)
        BY <1>1, <1>4
      <3>3. QED  BY <1>2, <1>8, <3>1, <3>2
    <2>4. \A i \in 0..End : i < First \/ i >= NF => Result[i] = InitialShadow(layout)[i]
      <3>1. \A i \in 0..End : i < First \/ i >= NF => i \notin l..last
        BY <1>1, <1>4
      <3>2. QED  BY <1>2, <1>8, <3>1
    <2>5. QED  BY <1>8, <2>1, <2>2, <2>3, <2>4 DEF Shape
  <1> HIDE DEF NF, End, redzone_byte, size
  <1>9. CASE n < size
    <2>1. Result = [sh EXCEPT ![last] = size - n]
      BY <1>3, <1>9, Zenon
    <2>2. size - n \in 1..7 /\ last \in First..last /\ last \in 0..End
      BY <1>1, <1>4, <1>9
    <2> HIDE DEF Result
    <2>3. Shape(Result, last, size - n)
      <3>1. Result \in [0..End -> Int] /\ Result[last] = size - n
            /\ \A i \in 0..End : i # last => Result[i] = sh[i]
        BY <1>2, <2>1, <2>2
      <3>2. \A i : i \notin (last + 1)..last /\ (i \in 0..End /\ i \notin last..last => i # last)
        BY <1>1
      <3>3. size - n \in 0..8
        BY <1>1, <2>2
      <3>4. QED  BY <1>8, <2>2, <3>1, <3>2, <3>3
    <2>4. shadow_byte_to_size(size - n) = size - n
      BY <1>1, <2>2 DEF shadow_byte_to_size
    <2>5. Found(last, size - n)
      BY <1>1, <1>4, <1>5, <2>2, <2>3, <2>4
    <2>6. QED  BY <2>5
  <1>10. CASE n = size
    <2>1. Result = [sh EXCEPT ![last] = redzone_byte]
      <3>1. ~(n < size)
        BY <1>1, <1>10
      <3> HIDE DEF Result, stops, Poisoned
      <3>2. QED  BY <1>3, <1>10, <3>1, Zenon
    <2>2. /\ last - 1 \in First..last /\ last - 1 \in First..(last - 1)
          /\ last \in 0..End /\ last - 1 \in 0..End /\ last # last - 1
      BY <1>1, <1>4, <1>10
    <2> HIDE DEF Result
    <2>3. Result \in [0..End -> Int] /\ Result[last] = redzone_byte
          /\ \A i \in 0..End : i # last => Result[i] = sh[i]
      BY <1>2, <1>6, <2>1, <2>2
    <2>4. Shape(Result, last - 1, 0)
      <3>1. Result[last - 1] = 0
        BY <1>2, <2>2, <2>3
      <3>2. \A i \in ((last - 1) + 1)..last : Result[i] < 0
        <4>1. \A i \in ((last - 1) + 1)..last : i = last
          BY <1>1
        <4>2. QED  BY <1>6, <2>3, <4>1
      <3>3. \A i \in 0..End : i \notin (last - 1)..last => Result[i] = sh[i]
        <4>1. last \in (last - 1)..last
          BY <1>1
        <4>2. QED  BY <2>3, <4>1
      <3>4. QED  BY <1>8, <2>2, <2>3, <3>1, <3>2, <3>3
    <2>5. shadow_byte_to_size(0) = 8
      BY DEF shadow_byte_to_size
    <2>6. Found(last - 1, 0)
      BY <1>1, <1>4, <1>5, <1>10, <2>4, <2>5
    <2>7. QED  BY <2>6
  <1>11. CASE n > size
    <2>1. /\ full \in Int /\ full >= 0 /\ rest \in 0..7 /\ n - size = 8 * full + rest
          /\ last - full - 1 >= First
      <3> DEFINE m == n - size
      <3>1. m \in Int /\ m >= 1 /\ m <= 8 * (last - First) - 1
        BY <1>1, <1>4, <1>11
      <3> HIDE DEF m
      <3>2. /\ m \div 8 \in Int /\ m \div 8 >= 0 /\ m % 8 \in 0..7
            /\ m = 8 * (m \div 8) + (m % 8)
        BY <3>1
      <3>3. last - (m \div 8) - 1 >= First
        BY <1>1, <1>4, <3>1, <3>2
      <3>4. QED  BY <3>2, <3>3 DEF m
    <2>2. ~(n < size) /\ ~(n = size)
      BY <1>1, <1>4, <1>11
    <2> HIDE DEF full, rest
    <2>3. \A t \in stops : t = full /\ last - full - 1 = First
      <3>1. SUFFICES ASSUME NEW t \in stops PROVE t = full /\ last - full - 1 = First
        OBVIOUS
      <3>2. t \in 1..full /\ sh[last - t - 2] < 0
        OBVIOUS
      <3>3. ~(last - t - 2 >= First)
        <4>1. SUFFICES ASSUME last - t - 2 >= First PROVE FALSE
          OBVIOUS
        <4>2. last - t - 2 \in First..(last - 1)
          BY <1>1, <1>4, <2>1, <3>2, <4>1
        <4>3. sh[last - t - 2] = 0
          BY <1>2, <4>2
        <4>4. QED  BY <3>2, <4>3
      <3>4. QED  BY <1>1, <1>4, <2>1, <3>2, <3>3
    <2>4. CASE stops # {}
      <3>1. stops = {full} /\ last - full - 1 = First /\ full >= 1
        <4>1. PICK t \in stops : TRUE
          BY <2>4
        <4>2. t = full /\ last - full - 1 = First /\ t \in 1..full
          BY <2>3, <4>1
        <4>3. full >= 1
          BY <2>1, <4>2
        <4> HIDE DEF stops
        <4>4. QED  BY <2>3, <4>1, <4>2, <4>3
      <3>2. Min(stops) = full
        <4> HIDE DEF stops
        <4>1. QED  BY <2>1, <3>1 DEF Min
      <3>3. Result = Poisoned(last - full)
        <4>1. Result = Poisoned(last - Min(stops))
          <5> HIDE DEF Result, stops, Poisoned
          <5>1. QED  BY <1>3, <2>2, <2>4, Zenon
        <4>2. QED  BY <3>2, <4>1, Zenon
      <3>4. /\ Result \in [0..End -> Int]
            /\ \A i \in 0..End : Result[i] = IF i \in (last - full)..last THEN redzone_byte ELSE sh[i]
        BY <1>2, <1>6, <3>3
      <3> HIDE DEF Result, stops, Poisoned
      <3>5. /\ First \in First..last /\ First \in First..(last - 1) /\ First \in 0..End
            /\ First \notin (last - full)..last /\ last - full = First + 1
        BY <1>1, <1>4, <2>1, <3>1
      <3>6. Shape(Result, First, 0)
        <4>1. Result[First] = 0
          BY <1>2, <3>4, <3>5
        <4>2. \A i \in (First + 1)..last : Result[i] < 0
          <5>1. \A i \in (First + 1)..last : i \in 0..End /\ i \in (last - full)..last
            BY <1>1, <1>4, <3>5
          <5>2. QED  BY <1>6, <3>4, <5>1
        <4>3. \A i \in 0..End : i \notin First..last => Result[i] = sh[i]
          <5>1. \A i \in 0..End : i \notin First..last => i \notin (last - full)..last
            BY <1>1, <1>4, <3>5
          <5>2. QED  BY <3>4, <5>1
        <4>4. QED  BY <1>8, <3>4, <3>5, <4>1, <4>2, <4>3
      <3>7. SizeOf(First, 0) = 8
        BY <1>4, <1>5 DEF shadow_byte_to_size
      <3>8. Found(First, 0)
        <4>1. SizeOf(First, 0) < SizeOf(last, b)
          BY <1>1, <1>4, <2>1, <3>1, <3>7
        <4>2. SizeOf(First, 0) - (SizeOf(last, b) - n) \in -8..8
          BY <1>1, <1>4, <2>1, <3>1, <3>7
        <4>3. QED  BY <3>6, <4>1, <4>2
      <3>9. QED  BY <3>8
    <2>5. CASE stops = {}
      <3> DEFINE l == last - full - 1
                 c == 8 - rest
      <3>1. Result = [Poisoned(last - full) EXCEPT ![l] = c]
        <4>1. ~(stops # {})
          BY <2>5
        <4> HIDE DEF Result, stops, Poisoned
        <4>2. QED  BY <1>3, <2>2, <4>1, Zenon
      <3>2. /\ l \in First..last /\ l \in 0..End /\ c \in 1..8 /\ c \in Int
            /\ last - full = l + 1 /\ l \in Int /\ l < last
        BY <1>1, <1>4, <2>1
      <3>3. /\ Poisoned(last - full) \in [0..End -> Int]
            /\ \A i \in 0..End : Poisoned(last - full)[i]
                                   = IF i \in (last - full)..last THEN redzone_byte ELSE sh[i]
        BY <1>2, <1>6
      <3> HIDE DEF Result, stops, Poisoned, c
      <3>4. /\ Result \in [0..End -> Int] /\ Result[l] = c
            /\ \A i \in 0..End : i # l => Result[i] = IF i \in (last - full)..last
                                                      THEN redzone_byte ELSE sh[i]
        <4> HIDE DEF l
        <4>1. QED  BY <3>1, <3>2, <3>3
      <3> HIDE DEF l
      <3>5. Shape(Result, l, c)
        <4>1. \A i \in 0..End : i \notin l..last => Result[i] = sh[i]
          <5>1. \A i \in 0..End : i \notin l..last => i # l /\ i \notin (last - full)..last
            BY <1>1, <3>2
          <5>2. QED  BY <3>4, <5>1
        <4>2. \A i \in (l + 1)..last : Result[i] < 0
          <5>1. \A i \in (l + 1)..last : i \in 0..End /\ i # l /\ i \in (last - full)..last
            BY <1>1, <1>4, <3>2
          <5>2. QED  BY <1>6, <3>4, <5>1
        <4>3. c \in 0..8
          BY <3>2
        <4>4. QED  BY <1>8, <3>2, <3>4, <4>1, <4>2, <4>3
      <3>6. SizeOf(l, c) = 8 * (l - First) + c
        BY <1>5, <3>2 DEF shadow_byte_to_size
      <3>7. l = last - full - 1 /\ c = 8 - rest
        BY DEF l, c
      <3>8. Found(l, c)
        <4>1. SizeOf(l, c) < SizeOf(last, b)
          BY <1>1, <1>4, <2>1, <3>2, <3>6
        <4>2. SizeOf(l, c) - (SizeOf(last, b) - n) \in -8..8
          BY <1>1, <1>4, <2>1, <3>2, <3>6, <3>7
        <4>3. QED  BY <3>5, <4>1, <4>2
      <3>9. QED  BY <3>8
    <2>6. QED  BY <2>4, <2>5
  <1>12. QED
    <2>1. n < size \/ n = size \/ n > size
      BY <1>1, <1>4
    <2>2. QED  BY <1>9, <1>10, <1>11, <2>1

\* What an adjustment makes of the size.
Adjusts(adjustment, size) ==
    /\ adjustment >= REDZONE_SIZE \/ adjustment = 0 => size = layout.size
    /\ adjustment < REDZONE_SIZE => size - (layout.size + adjustment) \in -8..8
    /\ adjustment \in 1..(REDZONE_SIZE - 1) => size > layout.size
    /\ adjustment < 0 => size < layout.size

\* adjust_redzone_size keeps the shape, whichever of its cases it takes.
LEMMA AdjustedShape ==
    ASSUME LayoutOK, NEW addr, addr \div 8 \in First..InitialLast,
           NEW adjustment \in Int, layout.size + adjustment > 0
    PROVE  \E last, b : /\ Shape(AdjustedShadow(InitialShadow(layout), addr, adjustment), last, b)
                        /\ Adjusts(adjustment, SizeOf(last, b))
  <1> DEFINE sh == InitialShadow(layout)
             b0 == layout.size % 8
             e == NextRedzone(sh, addr \div 8) - 1
             new == AdjustedShadow(sh, addr, adjustment)
  <1>1. /\ Shape(sh, InitialLast, b0) /\ SizeOf(InitialLast, b0) = layout.size
        /\ layout.size \in Nat \ {0} /\ InitialLast \in Int
        /\ InitialLast + 3 <= NeighbourFirst(layout)
    BY InitialShape, LayoutFacts
  <1>2. REDZONE_SIZE = 16
    BY SizesAssumption, ShadowAssumption
  <1>3. e = InitialLast
    <2>1. NextRedzone(sh, addr \div 8) = InitialLast + 1
      BY <1>1, RedzonesOfShape
    <2>2. QED  BY <1>1, <2>1
  <1>4. new = CASE adjustment >= REDZONE_SIZE \/ adjustment = 0 -> sh
                [] adjustment \in 1..(REDZONE_SIZE - 1) -> Enlarge(sh, e, adjustment)
                [] adjustment < 0 -> Shrink(sh, e, -adjustment)
    BY Zenon DEF AdjustedShadow
  <1> HIDE DEF sh, b0, e, new
  <1>5. CASE adjustment >= REDZONE_SIZE \/ adjustment = 0
    <2>1. ~(adjustment \in 1..(REDZONE_SIZE - 1)) /\ ~(adjustment < 0)
      BY <1>2, <1>5
    <2>2. new = sh
      BY <1>4, <1>5, <2>1
    <2>3. Adjusts(adjustment, layout.size)
      BY <1>1, <1>2, <1>5 DEF Adjusts
    <2>4. QED  BY <1>1, <2>2, <2>3 DEF sh, new
  <1>6. CASE adjustment \in 1..(REDZONE_SIZE - 1)
    <2>1. /\ ~(adjustment >= REDZONE_SIZE \/ adjustment = 0) /\ ~(adjustment < 0)
          /\ adjustment \in 1..15
      BY <1>2, <1>6
    <2>2. new = Enlarge(sh, InitialLast, adjustment)
      BY <1>3, <1>4, <1>6, <2>1
    <2>3. PICK last, b : /\ Shape(new, last, b)
                         /\ SizeOf(last, b) > layout.size
                         /\ SizeOf(last, b) - (layout.size + adjustment) \in -8..8
      BY <1>1, <2>1, <2>2, EnlargedShape
    <2>4. Adjusts(adjustment, SizeOf(last, b))
      BY <2>1, <2>3 DEF Adjusts
    <2>5. QED  BY <2>3, <2>4 DEF sh, new
  <1>7. CASE adjustment < 0
    <2>1. /\ ~(adjustment >= REDZONE_SIZE \/ adjustment = 0)
          /\ ~(adjustment \in 1..(REDZONE_SIZE - 1))
          /\ -adjustment \in 1..(layout.size - 1)
          /\ layout.size - (-adjustment) = layout.size + adjustment
      BY <1>1, <1>2, <1>7
    <2>2. new = Shrink(sh, InitialLast, -adjustment)
      BY <1>3, <1>4, <1>7, <2>1
    <2>3. PICK last, b : /\ Shape(new, last, b)
                         /\ SizeOf(last, b) < layout.size
                         /\ SizeOf(last, b) - (layout.size - (-adjustment)) \in -8..8
      BY <1>1, <2>1, <2>2, ShrunkShape
    <2>4. Adjusts(adjustment, SizeOf(last, b))
      BY <2>1, <2>3 DEF Adjusts
    <2>5. QED  BY <2>3, <2>4 DEF sh, new
  <1>8. QED  BY <1>2, <1>5, <1>6, <1>7

-----------------------------------------------------------------------------
(***************************************************************************)
(* The inductive invariant: the shadow has the shape of a buffer whose     *)
(* size answers the request, and the cleared bytes are those behind the    *)
(* original end, if the pointer still finds the size.                      *)
(***************************************************************************)
Fresh(last, b) == (8 * First + layout.size)..(8 * First + SizeOf(last, b) - 1)

Answers(last, b) ==
    request # 0 /\ request - layout.size < REDZONE_SIZE =>
        /\ SizeOf(last, b) - request \in -8..8
        /\ (request > layout.size => SizeOf(last, b) > layout.size)
        /\ (request < layout.size => SizeOf(last, b) < layout.size)

Buffer ==
    \E last, b : /\ Shape(shadow, last, b)
                 /\ Answers(last, b)
                 /\ zeroed \subseteq Fresh(last, b)
                 /\ gsize # Error => zeroed = Fresh(last, b)

Untouched ==
    stage = "fix location" =>
        shadow = InitialShadow(layout) /\ request = 0 /\ zeroed = {}

GhostInv ==
    /\ LayoutOK
    /\ ptr \in (8 * First)..(8 * First + layout.size)
    /\ gsize = generic_buffer_size(shadow, ptr)
    /\ Untouched
    /\ Buffer

\* The pointer is never at or behind the neighbour.
LEMMA PointerBeforeNeighbour ==
    ASSUME LayoutOK, NEW addr \in (8 * First)..(8 * First + layout.size)
    PROVE  addr \in (8 * First)..(8 * NeighbourFirst(layout) - 1)
  <1>1. /\ layout.size \in Nat \ {0} /\ layout.gap \in Nat /\ layout.gap >= 2
        /\ InitialLast \in Int /\ InitialLast >= First
        /\ NeighbourFirst(layout) = InitialLast + 1 + layout.gap
        /\ layout.size % 8 \in 0..7
        /\ layout.size = 8 * (InitialLast - First) + shadow_byte_to_size(layout.size % 8)
    BY LayoutFacts DEF SizeOf
  <1>2. shadow_byte_to_size(layout.size % 8) \in 1..8
    BY <1>1 DEF shadow_byte_to_size
  <1>3. layout.size <= 8 * (InitialLast + 1 - First)
    BY <1>1, <1>2 DEF First
  <1>4. QED  BY <1>1, <1>3 DEF First

\* Without a mutation nothing is to be cleared.
LEMMA NothingFresh ==
    ASSUME LayoutOK
    PROVE  Fresh(InitialLast, layout.size % 8) = {}
  <1>1. layout.size \in Nat /\ SizeOf(InitialLast, layout.size % 8) = layout.size
    BY LayoutFacts
  <1>2. QED  BY <1>1 DEF Fresh, First

\* An untouched shadow satisfies the part about the buffer.
LEMMA BufferUntouched ==
    ASSUME LayoutOK, shadow = InitialShadow(layout), request = 0, zeroed = {}
    PROVE  Buffer
  <1>1. Shape(shadow, InitialLast, layout.size % 8)
    BY InitialShape
  <1>2. Answers(InitialLast, layout.size % 8)
    BY DEF Answers
  <1>3. QED  BY <1>1, <1>2, NothingFresh DEF Buffer

\* The process reaches the fix location with what the allocator laid out.
LEMMA GhostInvInit == Init => GhostInv
  <1> SUFFICES ASSUME Init PROVE GhostInv
    OBVIOUS
  <1>1. /\ LayoutOK /\ shadow = InitialShadow(layout) /\ request = 0 /\ zeroed = {}
        /\ gsize = generic_buffer_size(shadow, ptr)
    BY DEF Init, LayoutOK
  <1>2. Buffer
    BY <1>1, BufferUntouched
  <1>3. ptr \in (8 * First)..(8 * First + layout.size)
    <2>1. PICK offset \in 0..layout.size : ptr = 8 * First + offset
      BY DEF Init
    <2>2. layout.size \in Nat
      BY <1>1, LayoutFacts
    <2>3. QED  BY <2>1, <2>2 DEF First
  <1>4. QED  BY <1>1, <1>2, <1>3 DEF GhostInv, Untouched

\* At the fix location, a pointer that has a size has the size of the buffer.
LEMMA SizeAtFixLocation ==
    ASSUME GhostInv, stage = "fix location", gsize # Error
    PROVE  /\ gsize = layout.size
           /\ generic_buffer_base(shadow, ptr) = 8 * First
           /\ ptr \div 8 \in First..InitialLast
  <1>1. LayoutOK /\ shadow = InitialShadow(layout) /\ gsize = generic_buffer_size(shadow, ptr)
    BY DEF GhostInv, Untouched
  <1>2. ptr \in (8 * First)..(8 * NeighbourFirst(layout) - 1)
    BY PointerBeforeNeighbour DEF GhostInv
  <1>3. Shape(shadow, InitialLast, layout.size % 8)
    BY <1>1, InitialShape
  <1>4. SizeOf(InitialLast, layout.size % 8) = layout.size
    BY <1>1, LayoutFacts
  <1>5. QED  BY <1>1, <1>2, <1>3, <1>4, SizeOfShape

\* "_GSize_p=new" keeps the invariant, for every new size.
LEMMA MutateGSizeKeeps ==
    ASSUME GhostInv, NEW new \in Int, MutateGSize(new)
    PROVE  GhostInv'
  <1> DEFINE adjustment == new - gsize
             mutated_size == AdjustedSize(shadow, ptr, adjustment)
  <1>1. /\ stage = "fix location" /\ gsize # Error /\ new > 0
        /\ shadow' = AdjustedShadow(shadow, ptr, adjustment)
        /\ zeroed' = IF mutated_size # Error /\ mutated_size > gsize
                     THEN Cleared(shadow', ptr, gsize, mutated_size) ELSE {}
        /\ gsize' = generic_buffer_size(shadow', ptr)
        /\ request' = new /\ stage' = "mutated" /\ layout' = layout /\ ptr' = ptr
    BY DEF MutateGSize
  <1>2. /\ gsize = layout.size /\ ptr \div 8 \in First..InitialLast
        /\ LayoutOK /\ shadow = InitialShadow(layout)
        /\ ptr \in (8 * First)..(8 * First + layout.size)
    BY <1>1, SizeAtFixLocation DEF GhostInv, Untouched
  <1>3. /\ layout.size \in Nat \ {0} /\ REDZONE_SIZE = 16
        /\ adjustment \in Int /\ layout.size + adjustment = new
    BY <1>2, LayoutFacts, SizesAssumption, ShadowAssumption
  <1>4. PICK last, b : Shape(shadow', last, b) /\ Adjusts(adjustment, SizeOf(last, b))
    <2> HIDE DEF adjustment
    <2>1. layout.size + adjustment > 0
      BY <1>1, <1>3
    <2>2. QED  BY <1>1, <1>2, <1>3, <2>1, AdjustedShape
  <1>5. SizeOf(last, b) \in Nat \ {0}
    BY <1>2, <1>4, ShapeFacts
  <1>6. ptr \in (8 * First)..(8 * NeighbourFirst(layout) - 1)
    BY <1>2, PointerBeforeNeighbour
  <1>7. /\ gsize' \in {Error, SizeOf(last, b)}
        /\ gsize' # Error => generic_buffer_base(shadow', ptr) = 8 * First
    <2> HIDE DEF adjustment, mutated_size
    <2>1. \A sh : Shape(sh, last, b) =>
             /\ generic_buffer_size(sh, ptr) \in {Error, SizeOf(last, b)}
             /\ generic_buffer_size(sh, ptr) # Error => generic_buffer_base(sh, ptr) = 8 * First
      BY <1>2, <1>6, SizeOfShape
    <2>2. QED  BY <1>1, <1>4, <2>1
  <1>8. mutated_size = IF adjustment >= REDZONE_SIZE THEN Error ELSE gsize'
    BY <1>1, Zenon DEF AdjustedSize
  <1> DEFINE fresh == (8 * First + layout.size)..(8 * First + SizeOf(last, b) - 1)
  <1>9. zeroed' \subseteq fresh /\ (gsize' # Error => zeroed' = fresh)
    <2> HIDE DEF mutated_size, adjustment
    <2>1. CASE mutated_size # Error /\ mutated_size > gsize
      <3>1. mutated_size = gsize' /\ gsize' = SizeOf(last, b) /\ gsize' # Error
        BY <1>7, <1>8, <2>1
      <3>2. Cleared(shadow', ptr, gsize, mutated_size)
              = (8 * First + gsize)..(8 * First + mutated_size - 1)
        BY <1>7, <3>1 DEF Cleared
      <3>3. zeroed' = fresh
        BY <1>1, <1>2, <2>1, <3>1, <3>2
      <3>4. QED  BY <3>3
    <2>2. CASE ~(mutated_size # Error /\ mutated_size > gsize)
      <3>1. zeroed' = {}
        BY <1>1, <2>2
      <3>2. gsize' # Error => SizeOf(last, b) <= layout.size
        <4>1. SUFFICES ASSUME gsize' # Error PROVE SizeOf(last, b) <= layout.size
          OBVIOUS
        <4>2. CASE adjustment >= REDZONE_SIZE
          BY <1>3, <1>4, <1>5, <4>2 DEF Adjusts
        <4>3. CASE ~(adjustment >= REDZONE_SIZE)
          <5>1. mutated_size = SizeOf(last, b) /\ mutated_size # Error
            BY <1>7, <1>8, <4>1, <4>3
          <5>2. QED  BY <1>2, <1>3, <1>5, <2>2, <5>1
        <4>4. QED  BY <4>2, <4>3
      <3>3. SizeOf(last, b) <= layout.size => fresh = {}
        BY <1>3, <1>5 DEF First
      <3>4. QED  BY <3>1, <3>2, <3>3
    <2>3. QED  BY <2>1, <2>2
  <1>10. Answers(last, b)'
    <2>1. new - layout.size = adjustment /\ new \in Int
      BY <1>2, <1>3
    <2>2. SizeOf(last, b)' = SizeOf(last, b)
      BY DEF SizeOf
    <2> HIDE DEF adjustment
    <2>3. ASSUME new - layout.size < REDZONE_SIZE
          PROVE  /\ SizeOf(last, b) - new \in -8..8
                 /\ (new > layout.size => SizeOf(last, b) > layout.size)
                 /\ (new < layout.size => SizeOf(last, b) < layout.size)
      BY <1>3, <1>4, <1>5, <2>1, <2>3 DEF Adjusts
    <2>4. QED  BY <1>1, <2>2, <2>3 DEF Answers
  <1>11. Shape(shadow, last, b)'
    BY <1>1, <1>4 DEF Shape, InitialShadow, NeighbourFirst, ShadowEnd, ObjectByte
  <1>12. Fresh(last, b)' = fresh
    BY <1>1 DEF Fresh, SizeOf
  <1>13. Buffer'
    <2> HIDE DEF fresh
    <2>1. QED  BY <1>9, <1>10, <1>11, <1>12 DEF Buffer
  <1>14. QED
    BY <1>1, <1>2, <1>13 DEF GhostInv, LayoutOK, Untouched

\* "_GDiff_p=diff" keeps the invariant: only the pointer moves.
LEMMA MutateGDiffKeeps ==
    ASSUME GhostInv, NEW diff \in Int, MutateGDiff(diff)
    PROVE  GhostInv'
  <1>1. /\ stage = "fix location" /\ gsize # Error /\ diff \in 0..gsize
        /\ ptr' = generic_buffer_base(shadow, ptr) + diff
        /\ gsize' = generic_buffer_size(shadow, ptr') /\ stage' = "mutated"
        /\ UNCHANGED <<layout, shadow, request, zeroed>>
    BY DEF MutateGDiff
  <1>2. /\ gsize = layout.size /\ generic_buffer_base(shadow, ptr) = 8 * First
        /\ LayoutOK /\ shadow = InitialShadow(layout) /\ request = 0 /\ zeroed = {}
    BY <1>1, SizeAtFixLocation DEF GhostInv, Untouched
  <1>3. ptr' \in (8 * First)..(8 * First + layout.size)
    <2>1. layout.size \in Nat
      BY <1>2, LayoutFacts
    <2>2. ptr' = 8 * First + diff /\ diff \in 0..layout.size
      BY <1>1, <1>2
    <2>3. QED  BY <2>1, <2>2 DEF First
  <1>4. Shape(shadow, InitialLast, layout.size % 8)'
    <2>1. Shape(shadow, InitialLast, layout.size % 8)
      BY <1>2, InitialShape
    <2>2. QED
      BY <1>1, <2>1 DEF Shape, InitialLast, InitialShadow, NeighbourFirst, ShadowEnd, ObjectByte
  <1>5. Fresh(InitialLast, layout.size % 8)' = {}
    <2>1. Fresh(InitialLast, layout.size % 8) = {}
      BY <1>2, NothingFresh
    <2>2. QED  BY <1>1, <2>1 DEF Fresh, SizeOf, InitialLast
  <1>6. Answers(InitialLast, layout.size % 8)'
    BY <1>1, <1>2 DEF Answers
  <1>7. Buffer'
    <2>1. zeroed' = {}
      BY <1>1, <1>2
    <2>2. /\ Shape(shadow, InitialLast, layout.size % 8)' /\ Answers(InitialLast, layout.size % 8)'
          /\ zeroed' = Fresh(InitialLast, layout.size % 8)'
      BY <1>4, <1>5, <1>6, <2>1
    <2>3. QED  BY <2>2 DEF Buffer
  <1>8. QED
    BY <1>1, <1>2, <1>3, <1>7 DEF GhostInv, LayoutOK, Untouched

\* Every mutation keeps the invariant.
LEMMA GhostInvNext == GhostInv /\ [Next]_vars => GhostInv'
  <1> SUFFICES ASSUME GhostInv, [Next]_vars PROVE GhostInv'
    OBVIOUS
  <1>1. CASE Next
    <2>1. PICK n \in 0..(Max(Sizes) + REDZONE_SIZE) : MutateGSize(n) \/ MutateGDiff(n)
      BY <1>1 DEF Next
    <2>2. n \in Int
      BY <2>1
    <2>3. QED  BY <2>1, <2>2, MutateGSizeKeeps, MutateGDiffKeeps
  <1>2. CASE UNCHANGED vars
    <2>1. UNCHANGED <<layout, shadow, ptr, gsize, stage, request, zeroed>>
      BY <1>2 DEF vars
    <2>2. LayoutOK' /\ Untouched'
      BY <2>1 DEF GhostInv, LayoutOK, Untouched
    <2>3. PICK last, b : /\ Shape(shadow, last, b) /\ Answers(last, b)
                         /\ zeroed \subseteq Fresh(last, b)
                         /\ gsize # Error => zeroed = Fresh(last, b)
      BY DEF GhostInv, Buffer
    <2>4. Shape(shadow, last, b)'
      BY <2>1, <2>3 DEF Shape
    <2>5. Answers(last, b)' /\ Fresh(last, b)' = Fresh(last, b)
      BY <2>1, <2>3 DEF Answers, Fresh
    <2>6. Buffer'
      BY <2>1, <2>3, <2>4, <2>5 DEF Buffer
    <2>7. QED  BY <2>1, <2>2, <2>6 DEF GhostInv
  <1>3. QED  BY <1>1, <1>2

\* The shape, with what goes with it, holds in every reachable state.
THEOREM GhostInvariant == Spec => []GhostInv
  BY GhostInvInit, GhostInvNext, PTL DEF Spec

(***************************************************************************)
(* The ghost variables tell the truth: generic_buffer_size is the number   *)
(* of bytes the program can address, generic_buffer_base is the beginning  *)
(* of the buffer, from every pointer into it, before and after every       *)
(* mutation, and a pointer in the buffer and in reach has a size.          *)
(***************************************************************************)
THEOREM GhostTruth == Spec => []GhostsAreTrue
  <1>1. ASSUME GhostInv PROVE GhostsAreTrue
    <2>1. LayoutOK /\ gsize = generic_buffer_size(shadow, ptr)
      BY <1>1 DEF GhostInv
    <2>2. ptr \in (8 * First)..(8 * NeighbourFirst(layout) - 1)
      BY <1>1, PointerBeforeNeighbour DEF GhostInv
    <2>3. PICK last, b : Shape(shadow, last, b)
      BY <1>1 DEF GhostInv, Buffer
    <2>4. /\ gsize = IF ptr \div 8 > last \/ Overflowed(shadow, ptr) \/ OutOfReach(ptr, last)
                     THEN Error ELSE SizeOf(last, b)
          /\ gsize # Error => generic_buffer_base(shadow, ptr) = 8 * First
      BY <2>1, <2>2, <2>3, SizeOfShape
    <2>5. /\ BufferBytes(shadow) = (8 * First)..(8 * First + SizeOf(last, b) - 1)
          /\ Cardinality(BufferBytes(shadow)) = SizeOf(last, b)
      BY <2>1, <2>3, BytesOfShape
    <2>6. ASSUME ptr \in BufferBytes(shadow), InReach PROVE gsize # Error
      <3> DEFINE q == ptr \div 8
                 r == ptr % 8
      <3>1. /\ last \in Int /\ last >= First /\ b \in 0..8 /\ shadow[last] = b
            /\ shadow_byte_to_size(b) \in 1..8 /\ SizeOf(last, b) \in Nat \ {0}
        BY <2>1, <2>3, ShapeFacts
      <3>2. ptr \in Int /\ ptr >= 8 * First /\ ptr < 8 * last + shadow_byte_to_size(b)
        <4>1. /\ ptr \in (8 * First)..(8 * First + SizeOf(last, b) - 1)
              /\ SizeOf(last, b) = 8 * (last - First) + shadow_byte_to_size(b)
          BY <2>5, <2>6 DEF SizeOf
        <4>2. QED  BY <3>1, <4>1 DEF First
      <3>3. q \in Int /\ r \in 0..7 /\ ptr = 8 * q + r
        BY <3>2, ByEight
      <3>4. q \in First..last
        <4> HIDE DEF q, r
        <4>1. QED  BY <3>1, <3>2, <3>3 DEF First
      <3>5. ~Overflowed(shadow, ptr)
        <4>1. Overflowed(shadow, ptr) <=> shadow[q] < 0 \/ (shadow[q] > 0 /\ r > shadow[q])
          BY DEF Overflowed
        <4>2. Addressable(shadow, ptr) <=> shadow[q] = 0 \/ (shadow[q] > 0 /\ r < shadow[q])
          BY DEF Addressable
        <4>3. Addressable(shadow, ptr)
          BY <2>6 DEF BufferBytes
        <4>4. shadow[q] \in Int
          <5>1. q \in 0..ShadowEnd(layout)
            <6>1. last + 2 <= NeighbourFirst(layout) /\ NeighbourFirst(layout) < ShadowEnd(layout)
                  /\ NeighbourFirst(layout) \in Int /\ ShadowEnd(layout) \in Int
              BY <2>1, <2>3, ShapeFacts
            <6> HIDE DEF q
            <6>2. QED  BY <3>1, <3>4, <6>1 DEF First
          <5>2. QED  BY <2>1, <2>3, <5>1, ShapeFacts
        <4> HIDE DEF q, r
        <4>5. QED  BY <3>3, <4>1, <4>2, <4>3, <4>4
      <3>6. ~OutOfReach(ptr, last)
        <4>1. PrevRedzone(shadow, q) = First - 1 /\ NextRedzone(shadow, q) = last + 1
          BY <2>1, <2>3, <3>4, RedzonesOfShape
        <4>2. /\ PrevRedzone(shadow, q) - q \in -TRAVERSE_THRESHOLD..TRAVERSE_THRESHOLD
              /\ NextRedzone(shadow, q) - q \in -TRAVERSE_THRESHOLD..TRAVERSE_THRESHOLD
          BY <2>6 DEF InReach
        <4>3. OutOfReach(ptr, last) <=> \/ q - (First - 1) > TRAVERSE_THRESHOLD
                                        \/ (last + 1) - q > TRAVERSE_THRESHOLD
          BY DEF OutOfReach
        <4>4. TRAVERSE_THRESHOLD \in Nat
          BY SizesAssumption, ShadowAssumption
        <4> HIDE DEF q
        <4>5. QED  BY <3>1, <3>3, <4>1, <4>2, <4>3, <4>4 DEF First
      <3>7. ~(ptr \div 8 > last)
        BY <3>1, <3>4
      <3>8. gsize = SizeOf(last, b)
        BY <2>4, <3>5, <3>6, <3>7
      <3>9. QED  BY <3>1, <3>8 DEF Error
    <2>7. QED  BY <2>4, <2>5, <2>6 DEF GhostsAreTrue
  <1>2. QED  BY <1>1, GhostInvariant, PTL

(***************************************************************************)
(* Whatever size is asked for, adjust_redzone_size changes no shadow byte  *)
(* of the neighbour or before the buffer, and leaves a redzone byte        *)
(* between the buffer and the neighbour.                                   *)
(***************************************************************************)
THEOREM GhostNeighbours == Spec => []NeighboursUntouched
  <1>1. ASSUME GhostInv PROVE NeighboursUntouched
    <2>1. LayoutOK
      BY <1>1 DEF GhostInv
    <2>2. PICK last, b : Shape(shadow, last, b)
      BY <1>1 DEF GhostInv, Buffer
    <2>3. /\ DOMAIN shadow = 0..ShadowEnd(layout)
          /\ last \in Int /\ last + 2 <= NeighbourFirst(layout) /\ NeighbourFirst(layout) \in Int
      BY <2>1, <2>2, ShapeFacts
    <2>4. NeighbourFirst(layout) - 1 \in (last + 1)..(NeighbourFirst(layout) - 1)
      BY <2>3
    <2>5. shadow[NeighbourFirst(layout) - 1] < 0
      BY <2>2, <2>4 DEF Shape
    <2>6. \A i \in DOMAIN shadow :
             i < First \/ i >= NeighbourFirst(layout) => shadow[i] = InitialShadow(layout)[i]
      BY <2>2, <2>3 DEF Shape
    <2>7. QED  BY <2>5, <2>6 DEF NeighboursUntouched
  <1>2. QED  BY <1>1, GhostInvariant, PTL

(***************************************************************************)
(* mutate_var clears no byte that the program could address before, and,   *)
(* if the buffer has a size, all the bytes that it can address now.        *)
(***************************************************************************)
THEOREM GhostNewBytes == Spec => []NewBytesCleared
  <1>1. ASSUME GhostInv PROVE NewBytesCleared
    <2>1. LayoutOK
      BY <1>1 DEF GhostInv
    <2>2. PICK last, b : /\ Shape(shadow, last, b)
                         /\ zeroed \subseteq Fresh(last, b)
                         /\ gsize # Error => zeroed = Fresh(last, b)
      BY <1>1 DEF GhostInv, Buffer
    <2>3. /\ BufferBytes(shadow) = (8 * First)..(8 * First + SizeOf(last, b) - 1)
          /\ SizeOf(last, b) \in Nat
      BY <2>1, <2>2, BytesOfShape, ShapeFacts
    <2>4. /\ BufferBytes(InitialShadow(layout)) = (8 * First)..(8 * First + layout.size - 1)
          /\ layout.size \in Nat
      BY <2>1, InitialShape, BytesOfShape, LayoutFacts
    <2>5. Fresh(last, b) = (8 * First + layout.size)..(8 * First + SizeOf(last, b) - 1)
      BY DEF Fresh
    <2>6. Fresh(last, b) \cap BufferBytes(InitialShadow(layout)) = {}
      BY <2>3, <2>4, <2>5 DEF First
    <2>7. Fresh(last, b) = BufferBytes(shadow) \ BufferBytes(InitialShadow(layout))
      BY <2>3, <2>4, <2>5 DEF First
    <2>8. QED  BY <2>2, <2>6, <2>7 DEF NewBytesCleared
  <1>2. QED  BY <1>1, GhostInvariant, PTL

(***************************************************************************)
(* A mutation of the size that reports a size misses the one asked for by  *)
(* at most one shadow byte, and in the direction asked for.                *)
(***************************************************************************)
THEOREM GhostWithinOneShadowByte == Spec => []WithinOneShadowByte
  <1>1. ASSUME GhostInv PROVE WithinOneShadowByte
    <2>1. LayoutOK /\ gsize = generic_buffer_size(shadow, ptr)
      BY <1>1 DEF GhostInv
    <2>2. ptr \in (8 * First)..(8 * NeighbourFirst(layout) - 1)
      BY <1>1, PointerBeforeNeighbour DEF GhostInv
    <2>3. PICK last, b : Shape(shadow, last, b) /\ Answers(last, b)
      BY <1>1 DEF GhostInv, Buffer
    <2>4. gsize # Error => gsize = SizeOf(last, b)
      BY <2>1, <2>2, <2>3, SizeOfShape
    <2>5. QED  BY <2>3, <2>4 DEF WithinOneShadowByte, Answers
  <1>2. QED  BY <1>1, GhostInvariant, PTL

=============================================================================
