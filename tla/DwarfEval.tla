----------------------------- MODULE DwarfEval -----------------------------
(***************************************************************************)
(* The memory of a program that has stopped at the fix location, and the   *)
(* evaluator of DWARF location expressions (lib/dwarf_eval.c), a machine   *)
(* with a stack of machine words.                                          *)
(*                                                                         *)
(* A byte has ByteValues values, fewer than in the program, and a word has *)
(* eight bytes.  The saved registers (STATE) lie in the program's memory.  *)
(***************************************************************************)
EXTENDS Integers, SequencesExt, Bitwise

CONSTANTS ByteValues,   \* the number of values of a byte, even
          Expressions   \* expression trees: [op, r, n, args]

ASSUME ByteAssumption == ByteValues \in Nat /\ ByteValues > 1 /\ ByteValues % 2 = 0

VARIABLE frame   \* the program: its types, variables and memory map

NULL == 0
WordSize == 8
Words == ByteValues ^ WordSize

-----------------------------------------------------------------------------
\* Memory: a function m from addresses to bytes

\* Little-endian; a byte that is not mapped reads as 0.
ReadUnsigned(m, a, width) ==
    LET from[i \in 0..width] ==
            IF i = width THEN 0
            ELSE (IF a + i \in DOMAIN m THEN m[a + i] ELSE 0) + ByteValues * from[i + 1]
    IN  from[0]

AsSigned(x, width) == IF 2 * x >= ByteValues ^ width THEN x - ByteValues ^ width ELSE x

ReadSigned(m, a, width) == AsSigned(ReadUnsigned(m, a, width), width)

\* Memory after the low bytes of x are written.
Write(m, a, width, x) ==
    [b \in DOMAIN m |-> IF b \in a..(a + width - 1)
                        THEN (x \div ByteValues ^ (b - a)) % ByteValues
                        ELSE m[b]]

-----------------------------------------------------------------------------
\* Expressions: sequences of [op, r, n], with a register and a number

\* dwarf_load_reg: where register r was saved; it aborts for others.
Registers == 0..16
RegisterAddr(r) == frame.state + WordSize * r

Signed(x) == AsSigned(x, WordSize)

\* Division of C: towards 0.
Quotient(a, b) == LET q == (IF a < 0 THEN -a ELSE a) \div (IF b < 0 THEN -b ELSE b)
                  IN  IF (a < 0) = (b < 0) THEN q ELSE -q

Truth(b) == IF b THEN 1 ELSE 0

BinaryOps == {"plus", "minus", "mul", "div", "mod", "and", "or", "xor", "shl", "shr",
              "shra", "lt", "le", "gt", "ge", "eq", "ne"}

\* Mutant: the operands are taken in the order of their popping.
BinarySwapped(op, u1, u0) ==
    CASE op = "plus" -> (u1 + u0) % Words
      [] op = "minus" -> (u0 - u1) % Words
      [] OTHER -> u0

\* u0 was on the top of the stack.
Binary(op, u1, u0) ==
    LET s1 == Signed(u1)
        s0 == Signed(u0)
        result == CASE op = "plus" -> s1 + s0
                    [] op = "minus" -> s1 - s0
                    [] op = "mul" -> s1 * s0
                    [] op = "div" -> Quotient(s1, s0)
                    [] op = "mod" -> s1 - s0 * Quotient(s1, s0)
                    [] op = "and" -> u1 & u0
                    [] op = "or" -> u1 | u0
                    [] op = "xor" -> u1 ^^ u0
                    [] op = "shl" -> u1 * 2 ^ u0
                    [] op = "shr" -> u1 \div 2 ^ u0
                    [] op = "shra" -> s1 \div 2 ^ u0
                    [] op = "lt" -> Truth(s1 < s0)
                    [] op = "le" -> Truth(s1 <= s0)
                    [] op = "gt" -> Truth(s1 > s0)
                    [] op = "ge" -> Truth(s1 >= s0)
                    [] op = "eq" -> Truth(s1 = s0)
                    [] op = "ne" -> Truth(s1 # s0)
    IN  result % Words

Unary(op, u0) == CASE op = "abs" -> LET s0 == Signed(u0) IN IF s0 < 0 THEN -s0 ELSE s0
                   [] op = "not" -> Words - 1 - u0
                   [] op = "neg" -> (-u0) % Words

(***************************************************************************)
(* One operation on a stack whose top is its last element.  An assertion   *)
(* that fails (operands missing, a division by 0, a full stack, no such    *)
(* register, an odd size to dereference) ends it.                          *)
(* dwarf_pick_uint counts from behind the top (what pick 0 finds there is  *)
(* not modelled), and rot reverses.                                        *)
(***************************************************************************)
Failed == <<-1>>

StackSize == 20

Operate(m, stack, op, r, n, fb) ==
    LET top == Last(stack)
        rest == Front(stack)
        push(x) == IF Len(stack) < StackSize THEN Append(stack, x % Words) ELSE Failed
        replace(x) == Append(rest, x % Words)
        deeper(k) == stack[Len(stack) - k]
        below(k) == SubSeq(stack, 1, Len(stack) - k)
    IN  CASE stack = Failed -> Failed
          [] op = "addr" -> push(frame.base + n)
          [] op \in {"lit", "const", "implicit_value"} -> push(n)
          [] op \in {"reg", "breg"} /\ r \notin Registers -> Failed
          [] op = "reg" -> push(RegisterAddr(r))
          [] op = "breg" -> push(ReadUnsigned(m, RegisterAddr(r), WordSize) + n)
          [] op = "fbreg" -> push(fb + n)
          [] op \in {"nop", "stack_value"} -> stack
          [] stack = <<>> -> Failed
          [] op = "plus_uconst" -> replace(top + n)
          [] op = "deref" -> replace(ReadUnsigned(m, top, WordSize))
          [] op = "deref_size" /\ n \notin {1, 2, 4, 8} -> Failed
          [] op = "deref_size" -> replace(ReadUnsigned(m, top, n))
          [] op = "dup" -> push(top)
          [] op = "drop" -> rest
          [] op \in {"abs", "not", "neg"} -> replace(Unary(op, top))
          [] Len(stack) < 2 -> Failed
          [] op = "over" -> push(top)
          [] op = "pick" -> IF n \in 1..(Len(stack) - 1) THEN push(deeper(n - 1)) ELSE Failed
          [] op = "swap" -> below(2) \o <<top, deeper(1)>>
          [] op \in {"div", "mod"} /\ top = 0 -> Failed
          [] op \in BinaryOps -> Append(below(2), Binary(op, deeper(1), top))
          [] Len(stack) < 3 -> Failed
          [] op = "rot" -> below(3) \o <<deeper(1), top, deeper(2)>>

(***************************************************************************)
(* dwarf_evaluate with the frame base fb: the word on the top in the end,  *)
(* or -1 when an assertion failed.                                         *)
(***************************************************************************)
dwarf_evaluate(m, expr, fb) ==
    LET final == FoldLeft(LAMBDA stack, o : Operate(m, stack, o.op, o.r, o.n, fb), <<>>, expr)
    IN  Last(final)

(***************************************************************************)
(* dwarf_var_parsing_init: the frame base, which is behind the location    *)
(* that its expression gives.  For DW_OP_call_frame_cfa that location is a *)
(* holder of the CFA.  NULL stands for the returns of -1 too: there is no  *)
(* frame information or CFA for the address, no function around it, or no  *)
(* location of its frame base.                                             *)
(***************************************************************************)
frame_base_addr(m) ==
    IF frame.frame_base = <<>> THEN NULL
    ELSE IF Head(frame.frame_base).op = "call_frame_cfa"
    THEN dwarf_evaluate(m, frame.cfa_expr, 0)
    ELSE ReadUnsigned(m, dwarf_evaluate(m, frame.frame_base, 0), WordSize)

-----------------------------------------------------------------------------
RECURSIVE Compile(_)
RECURSIVE Meaning(_, _)

\* The operations of an expression, operands first.
Compile(e) == Append(FlattenSeq([i \in DOMAIN e.args |-> Compile(e.args[i])]),
                     [op |-> e.op, r |-> e.r, n |-> e.n])

\* The bits of a word.
Bits(x) == {i \in 0..20 : 2 ^ i < Words /\ (x \div 2 ^ i) % 2 = 1}
OfBits(bits) == MapThenSumSet(LAMBDA i : 2 ^ i, bits)

\* Division that rounds towards 0, from one that rounds down.
Truncated(a, b) == LET q(c) == (a \div c) + Truth(a < 0 /\ a % c # 0)
                   IN  IF b < 0 THEN -q(-b) ELSE q(b)

\* What an expression means, over the integers and sets of bits.
Meaning(m, e) ==
    LET x(i) == Meaning(m, e.args[i])
        s(i) == Signed(x(i))
        value == CASE e.op \in {"lit", "const"} -> e.n
                   [] e.op = "addr" -> frame.base + e.n
                   [] e.op = "breg" -> ReadUnsigned(m, RegisterAddr(e.r), WordSize) + e.n
                   [] e.op = "fbreg" -> frame.base_of_frame + e.n
                   [] e.op = "deref" -> ReadUnsigned(m, x(1), WordSize)
                   [] e.op = "plus_uconst" -> x(1) + e.n
                   [] e.op = "neg" -> -s(1)
                   [] e.op = "not" -> OfBits(Bits(Words - 1) \ Bits(x(1)))
                   [] e.op = "abs" -> Max({s(1), -s(1)})
                   [] e.op = "plus" -> x(1) + x(2)
                   [] e.op = "minus" -> x(1) - x(2)
                   [] e.op = "mul" -> s(1) * s(2)
                   [] e.op = "div" -> Truncated(s(1), s(2))
                   [] e.op = "mod" -> s(1) - s(2) * Truncated(s(1), s(2))
                   [] e.op = "and" -> OfBits(Bits(x(1)) \cap Bits(x(2)))
                   [] e.op = "or" -> OfBits(Bits(x(1)) \cup Bits(x(2)))
                   [] e.op = "xor" -> OfBits(SymDiff(Bits(x(1)), Bits(x(2))))
                   [] e.op = "shl" -> OfBits({i \in Bits(Words - 1) : i - x(2) \in Bits(x(1))})
                   [] e.op = "shr" -> OfBits({i \in Bits(Words - 1) : i + x(2) \in Bits(x(1))})
                   [] e.op = "shra" -> OfBits({i \in Bits(Words - 1) :
                                                  Min({i + x(2), Max(Bits(Words - 1))}) \in Bits(x(1))})
                   [] e.op = "lt" -> Truth(s(1) < s(2))
                   [] e.op = "le" -> Truth(s(1) <= s(2))
                   [] e.op = "gt" -> Truth(s(2) < s(1))
                   [] e.op = "ge" -> Truth(s(2) <= s(1))
                   [] e.op = "eq" -> Truth(x(1) = x(2))
                   [] e.op = "ne" -> Truth(x(1) # x(2))
    IN  value % Words

\* The machine computes what the expressions mean.
EvaluatesRight(m) ==
    \A e \in Expressions : dwarf_evaluate(m, Compile(e), frame_base_addr(m)) = Meaning(m, e)

=============================================================================
