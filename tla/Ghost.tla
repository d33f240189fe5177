------------------------------- MODULE Ghost -------------------------------
(***************************************************************************)
(* Ghost variables: the size and the base of a buffer, and their mutation  *)
(* by moving the redzone or the pointer (module Shadow, and cases (1) and  *)
(* (2) of mutate_var in lib/patch.c).                                      *)
(*                                                                         *)
(* The model is one process stopped at the fix location, with a pointer    *)
(* into a buffer, the gap behind the buffer and a neighbour behind the     *)
(* gap.                                                                    *)
(*                                                                         *)
(* Elements have one byte.  A mutation instruction first gives the other   *)
(* variables of the constraint the values they have, which then changes    *)
(* nothing, so only its last pair is an action here.                       *)
(***************************************************************************)
EXTENDS Shadow

CONSTANTS Sizes,           \* sizes of the buffer
          Gaps,            \* shadow bytes of redzone behind it
          NeighbourSizes   \* sizes of the neighbour

ASSUME SizesAssumption == /\ Sizes \subseteq Nat \ {0}
                          /\ NeighbourSizes \subseteq Nat \ {0}
                          /\ \A g \in Gaps : g \in Nat /\ 8 * g >= REDZONE_SIZE

VARIABLES layout,   \* what the allocator laid out
          shadow,   \* the shadow bytes now
          ptr,      \* the pointer whose ghost variables are mutated
          gsize,    \* _GSize_ of the pointer, Error if it has none
          stage,    \* "fix location" or "mutated"
          request,  \* the size the mutation asked for
          zeroed    \* the bytes that memset cleared

vars == <<layout, shadow, ptr, gsize, stage, request, zeroed>>

-----------------------------------------------------------------------------
\* The allocator (external): two shadow bytes of redzone, the buffer, the gap,
\* the neighbour, two more of redzone.
First == 2
NeighbourFirst(l) == First + ShadowBytes(l.size) + l.gap
ShadowEnd(l) == NeighbourFirst(l) + ShadowBytes(l.neighbour) + 1

InitialShadow(l) ==
    [i \in 0..ShadowEnd(l) |->
        IF i - First \in 0..(ShadowBytes(l.size) - 1)
        THEN ObjectByte(l.size, i - First)
        ELSE IF i - NeighbourFirst(l) \in 0..(ShadowBytes(l.neighbour) - 1)
        THEN ObjectByte(l.neighbour, i - NeighbourFirst(l))
        ELSE Redzone]

-----------------------------------------------------------------------------
Init == /\ layout \in [size : Sizes, gap : Gaps, neighbour : NeighbourSizes]
        /\ shadow = InitialShadow(layout)
        /\ \E offset \in 0..layout.size : ptr = 8 * First + offset
        /\ gsize = generic_buffer_size(shadow, ptr)
        /\ stage = "fix location"
        /\ request = 0
        /\ zeroed = {}

(***************************************************************************)
(* "_GSize_p=new": the solver asks for sizes that are positive and reach   *)
(* the pointer.  mutate reads all variables again at the end.              *)
(***************************************************************************)
MutateGSize(new) ==
    /\ stage = "fix location" /\ gsize # Error
    /\ new > 0 /\ new >= ptr - generic_buffer_base(shadow, ptr)
    /\ LET adjustment == new - gsize
           mutated_size == AdjustedSize(shadow, ptr, adjustment)
       IN  /\ shadow' = AdjustedShadow(shadow, ptr, adjustment)
           /\ zeroed' = IF mutated_size # Error /\ mutated_size > gsize
                        THEN Cleared(shadow', ptr, gsize, mutated_size) ELSE {}
    /\ gsize' = generic_buffer_size(shadow', ptr)
    /\ request' = new
    /\ stage' = "mutated"
    /\ UNCHANGED <<layout, ptr>>

\* "_GDiff_p=diff": the pointer moves inside its buffer, or just behind it.
MutateGDiff(diff) ==
    /\ stage = "fix location" /\ gsize # Error
    /\ diff \in 0..gsize
    /\ ptr' = generic_buffer_base(shadow, ptr) + diff
    /\ gsize' = generic_buffer_size(shadow, ptr')
    /\ stage' = "mutated"
    /\ UNCHANGED <<layout, shadow, request, zeroed>>

Next == \E n \in 0..(Max(Sizes) + REDZONE_SIZE) : MutateGSize(n) \/ MutateGDiff(n)

Spec == Init /\ [][Next]_vars

-----------------------------------------------------------------------------
\* AddressSanitizer's own rule for one byte.
Addressable(sh, addr) ==
    LET b == sh[addr \div 8] IN b = 0 \/ (b > 0 /\ addr % 8 < b)

\* The addressable bytes between the buffer's first shadow byte and the neighbour.
BufferBytes(sh) ==
    {addr \in (8 * First)..(8 * NeighbourFirst(layout) - 1) : Addressable(sh, addr)}

\* The pointer is in the buffer and not out of the traversal's reach.
InReach == \A d \in {PrevRedzone(shadow, ptr \div 8), NextRedzone(shadow, ptr \div 8)} :
              d - ptr \div 8 \in -TRAVERSE_THRESHOLD..TRAVERSE_THRESHOLD

(***************************************************************************)
(* The ghost variables tell the truth about memory, before and after any   *)
(* mutation and from any pointer into the buffer: _GSize_ is the number of *)
(* bytes the program can address in it, and _GBase_ is where it begins.    *)
(***************************************************************************)
GhostsAreTrue ==
    /\ gsize # Error =>
          /\ gsize = Cardinality(BufferBytes(shadow))
          /\ generic_buffer_base(shadow, ptr) = 8 * First
    /\ ptr \in BufferBytes(shadow) /\ InReach => gsize # Error

(***************************************************************************)
(* "can't do mutations that potential reach in other objects": whatever    *)
(* size is asked for, the shadow of the neighbour and of everything before *)
(* the buffer stays as it was, and a redzone byte separates the two.       *)
(***************************************************************************)
NeighboursUntouched ==
    /\ \A i \in DOMAIN shadow :
          i < First \/ i >= NeighbourFirst(layout) => shadow[i] = InitialShadow(layout)[i]
    /\ shadow[NeighbourFirst(layout) - 1] < 0

(***************************************************************************)
(* If the buffer still has a size, mutate_var has cleared exactly the      *)
(* bytes that are addressable now and were not before: extending a buffer  *)
(* destroys no data of the program and shows it no uninitialised byte.     *)
(***************************************************************************)
NewBytesCleared ==
    /\ zeroed \cap BufferBytes(InitialShadow(layout)) = {}
    /\ gsize # Error => zeroed = BufferBytes(shadow) \ BufferBytes(InitialShadow(layout))

(***************************************************************************)
(* A mutation that reports a size misses the requested one by at most one  *)
(* shadow byte, and never changes the size in the other direction.         *)
(***************************************************************************)
WithinOneShadowByte ==
    stage = "mutated" /\ request # 0 /\ gsize # Error /\ request - layout.size < REDZONE_SIZE =>
        /\ gsize - request \in -8..8
        /\ (request > layout.size => gsize > layout.size)
        /\ (request < layout.size => gsize < layout.size)

=============================================================================
