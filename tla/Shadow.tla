------------------------------- MODULE Shadow -------------------------------
(***************************************************************************)
(* The shadow memory of AddressSanitizer as lib/ghost.c reads and changes  *)
(* it.  Shadow byte i describes the bytes 8i .. 8i+7: negative is a        *)
(* redzone, 0 is all eight accessible, n in 1..7 only the first n.  The    *)
(* limits of the two shadow regions are out of reach between redzones.     *)
(***************************************************************************)
EXTENDS Integers, FiniteSetsExt

CONSTANTS TRAVERSE_THRESHOLD,  \* shadow bytes looked at in one direction
          REDZONE_SIZE         \* adjustments reach less far

ASSUME ShadowAssumption == TRAVERSE_THRESHOLD \in Nat \ {0} /\ REDZONE_SIZE = 16

Error == -1
Redzone == -1

\* The shadow bytes of an object of some size (external), and the i-th of them.
ShadowBytes(size) == (size + 7) \div 8
ObjectByte(size, i) == IF i + 1 = ShadowBytes(size) THEN size % 8 ELSE 0

shadow_byte_to_size(b) == IF b = 0 THEN 8 ELSE b

PrevRedzone(sh, i) == Max({j \in DOMAIN sh : j < i /\ sh[j] < 0})
NextRedzone(sh, i) == Min({j \in DOMAIN sh : j > i /\ sh[j] < 0})

\* The access to addr is overflowed.
Overflowed(sh, addr) ==
    LET b == sh[addr \div 8] IN b < 0 \/ (b > 0 /\ addr % 8 > b)

\* Mutant: the shadow byte of the pointer counts as a full one.
generic_buffer_size_full(sh, addr) ==
    LET i == addr \div 8
        lo == PrevRedzone(sh, i)
        hi == NextRedzone(sh, i)
    IN  IF \/ Overflowed(sh, addr)
           \/ i - lo > TRAVERSE_THRESHOLD
           \/ hi - i > TRAVERSE_THRESHOLD
        THEN Error
        ELSE 8 * (i - lo) + MapThenSumSet(LAMBDA j : shadow_byte_to_size(sh[j]), (i + 1)..(hi - 1))

(***************************************************************************)
(* generic_buffer_size: the pointer's shadow byte, eight for each byte     *)
(* down to a redzone, and what each byte up to a redzone says.             *)
(***************************************************************************)
generic_buffer_size(sh, addr) ==
    LET i == addr \div 8
        lo == PrevRedzone(sh, i)
        hi == NextRedzone(sh, i)
    IN  IF \/ Overflowed(sh, addr)
           \/ i - lo > TRAVERSE_THRESHOLD
           \/ hi - i > TRAVERSE_THRESHOLD
        THEN Error
        ELSE 8 * (i - 1 - lo)
                + MapThenSumSet(LAMBDA j : shadow_byte_to_size(sh[j]), i..(hi - 1))

\* generic_buffer_base; Error stands for NULL.
generic_buffer_base(sh, addr) ==
    LET i == addr \div 8
        lo == PrevRedzone(sh, i)
    IN  IF Overflowed(sh, addr) \/ i - lo > TRAVERSE_THRESHOLD
        THEN Error
        ELSE 8 * (lo + 1)

\* Mutant: no look at the byte after the next.
EnlargeBlindly(sh, e, n) ==
    LET used == shadow_byte_to_size(sh[e])
        full == (used + n) \div 8
    IN  [i \in DOMAIN sh |-> IF i \in e..(e + full) THEN 0 ELSE sh[i]]

(***************************************************************************)
(* Case (2) of adjust_redzone_size: enlarge by n bytes a buffer whose last *)
(* shadow byte is e.  In the loop over full bytes, stop is the first turn  *)
(* after which the byte after the next is not redzone; the function leaves *)
(* there, without writing the excess.                                      *)
(***************************************************************************)
Enlarge(sh, e, n) ==
    LET size == shadow_byte_to_size(sh[e])
        capacity == 8 - size
        full == (n - capacity) \div 8
        stops == {t \in 1..full : sh[e + t + 2] >= 0}
        Zeros(last) == [i \in DOMAIN sh |-> IF i \in e..last THEN 0 ELSE sh[i]]
    IN  IF n < capacity THEN [sh EXCEPT ![e] = size + n]
        ELSE IF n = capacity THEN [sh EXCEPT ![e] = 0]
        ELSE IF stops # {} THEN Zeros(e + Min(stops))
        ELSE [Zeros(e + full) EXCEPT ![e + full + 1] = (n - capacity) % 8]

\* Mutant: the byte where shrinking ends is made redzone, too.
ShrinkOneMore(sh, e, n) ==
    LET full == (n + 7) \div 8
    IN  [i \in DOMAIN sh |-> IF i \in (e - full)..e THEN Redzone ELSE sh[i]]

(***************************************************************************)
(* Case (3): shrink by n bytes, with the loop and its early exit mirrored. *)
(***************************************************************************)
Shrink(sh, e, n) ==
    LET size == shadow_byte_to_size(sh[e])
        redzone_byte == sh[e + 1]
        full == (n - size) \div 8
        stops == {t \in 1..full : sh[e - t - 2] < 0}
        Poisoned(first) == [i \in DOMAIN sh |-> IF i \in first..e THEN redzone_byte ELSE sh[i]]
    IN  IF n < size THEN [sh EXCEPT ![e] = size - n]
        ELSE IF n = size THEN [sh EXCEPT ![e] = redzone_byte]
        ELSE IF stops # {} THEN Poisoned(e - Min(stops))
        ELSE [Poisoned(e - full) EXCEPT ![e - full - 1] = 8 - ((n - size) % 8)]

\* adjust_redzone_size: the shadow it leaves.
AdjustedShadow(sh, addr, adjustment) ==
    LET e == NextRedzone(sh, addr \div 8) - 1
    IN  CASE adjustment >= REDZONE_SIZE \/ adjustment = 0 -> sh
          [] adjustment \in 1..(REDZONE_SIZE - 1) -> Enlarge(sh, e, adjustment)
          [] adjustment < 0 -> Shrink(sh, e, -adjustment)

\* adjust_redzone_size: the size it returns.
AdjustedSize(sh, addr, adjustment) ==
    IF adjustment >= REDZONE_SIZE THEN Error
    ELSE generic_buffer_size(AdjustedShadow(sh, addr, adjustment), addr)

\* Mutant: what is cleared begins at the pointer.
ClearedFromPointer(sh, addr, old, new) == addr..(addr + new - old - 1)

\* The bytes that the zero-initialisation of mutate_var writes.
Cleared(sh, addr, old, new) ==
    LET base == generic_buffer_base(sh, addr) IN (base + old)..(base + new - 1)

=============================================================================
