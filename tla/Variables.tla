----------------------------- MODULE Variables -----------------------------
(***************************************************************************)
(* From a stopped program to a snapshot and back: the walk over the        *)
(* variables of the fix location and what they point to, with the ghost    *)
(* variables of pointers (lib/patch.c); the file that is printed           *)
(* (lib/variables.c) and its cleaning up (cleanup_snapshot_file); and the  *)
(* mutation of variables, which names them as the snapshot does            *)
(* (ce_single_var.py, mutate_var).                                         *)
(*                                                                         *)
(* A type has the size that its debug information gives, 0 if it gives     *)
(* none: clang gives none for pointers.                                    *)
(*                                                                         *)
(* A name is a sequence of identifiers and "*", "->", ".".  A ghost holds  *)
(* its value itself, everything else is read from memory.  Names are       *)
(* unique: no variable hides one of an outer scope, and no pointer points  *)
(* to an array type (the array then has the name of the pointer).          *)
(***************************************************************************)
EXTENDS DwarfEval, Shadow, TLC

CONSTANTS Frames,       \* the states the program may stop in
          NewValues,    \* integers that variables are mutated to
          MaxPrefix     \* bound: values that a mutation instruction repeats

ASSUME NamesAssumption == \A f \in Frames :
    /\ \A i, j \in DOMAIN f.vars : f.vars[i].name = f.vars[j].name => i = j
    /\ \A t \in DOMAIN f.types : f.types[t].kind = "ptr" => f.types[f.types[t].to].kind # "array"

VARIABLES mem,     \* address -> byte
          shadow,  \* the shadow bytes
          list,    \* the variables found, the head of the C list last
          shown,   \* the processed snapshot: [ghost, name] -> [type, val]
          last     \* the mutation that was made: [key, val, malloc, cut]

vars == <<frame, mem, shadow, list, shown, last>>

NoMutation == [key |-> [ghost |-> "none", name |-> <<>>], val |-> 0, malloc |-> FALSE, cut |-> FALSE]

-----------------------------------------------------------------------------
\* Address map: is_addr_writable, is_addr_accessable.  The end is included.
Writable(a) == \E m \in frame.map : a \in m.start..m.end /\ m.w
Accessable(a) == \E m \in frame.map : a \in m.start..m.end

\* generic_buffer_size and generic_buffer_base of any address; there is no buffer
\* in what is not the program's memory (in_app_mem).
SizeAt(sh, a) == IF a \div 8 \in DOMAIN sh THEN generic_buffer_size(sh, a) ELSE Error
BaseAt(sh, a) == IF a \div 8 \in DOMAIN sh THEN generic_buffer_base(sh, a) ELSE Error

\* The allocator (external): objects that have redzones around them.
Allocated(sh, base, size) ==
    [i \in DOMAIN sh |-> IF i - base \div 8 \in 0..(ShadowBytes(size) - 1)
                         THEN ObjectByte(size, i - base \div 8) ELSE sh[i]]

Type(t) == frame.types[t]

-----------------------------------------------------------------------------
\* The walk over a state s = [mem, shadow]

Variable(name, t, a) ==
    [ghost |-> "no", name |-> name, type |-> t, ptr |-> a, val |-> 0, elem |-> -1, parent |-> 0]

GhostVariable(kind, name, t, val, elem, parent) ==
    [ghost |-> kind, name |-> name, type |-> t, ptr |-> -1, val |-> val, elem |-> elem,
     parent |-> parent]

\* add_new_var_to_list
AddVar(vs, name, t, a) ==
    IF t \in {"union", "unknown"} \/ ~Writable(a) THEN vs
    ELSE Append(vs, Variable(name, t, a))

Arrows(name) == Len(SelectSeq(name, LAMBDA x : x = "->"))

\* The parent is the variable that was added last.
AddGhosts(s, vs, name, a, elem) ==
    LET size == SizeAt(s.shadow, a)
        base == BaseAt(s.shadow, a)
    IN  vs \o (IF size = Error THEN <<>>
               ELSE <<GhostVariable("GSize", name, "uint32", size, elem, Len(vs))>>)
           \o (IF base = Error THEN <<>>
               ELSE <<GhostVariable("GBase", name, "ptr", base, -1, Len(vs))>>)

\* dwarf_get_ghost_from_array
FromArray(s, vs, name, a, t) ==
    LET us == AddVar(vs, name, "array", a)
        elem == Type(Type(t).to).size
        size == SizeAt(s.shadow, a)
    IN  IF ~Writable(a) THEN vs
        ELSE IF size = Error \/ elem <= 0 THEN us
        ELSE Append(us, GhostVariable("GSize", name, "uint32", size, elem, Len(us)))

\* Mutant: one arrow more is followed.
UnpackOneMore(base) == [follow |-> Arrows(base) <= 3, only_ghost |-> Arrows(base) = 3]

\* The heuristic "to avoid unpacking linked list node".
Unpack(base) == [follow |-> Arrows(base) <= 2, only_ghost |-> Arrows(base) = 2]

RECURSIVE FromPtr(_, _, _, _, _, _)
RECURSIVE FromStruct(_, _, _, _, _)

\* dwarf_get_vars_from_ptr.  The ghosts are skipped, and only_ghost with
\* them, if the target is not writable or has no size.
FromPtr(s, vs, name, a, t, only_ghost) ==
    LET target == Type(t).to
        ghosts == Writable(a) /\ Type(target).size > 0
        us == IF ghosts THEN AddGhosts(s, vs, name, a, Type(target).size) ELSE vs
        deref == <<"*">> \o name
    IN  CASE target = "void" -> vs
          [] target # "void" /\ ghosts /\ only_ghost -> us
          [] OTHER ->
               CASE Type(target).kind = "ptr" ->
                      IF ~Writable(a) THEN us
                      ELSE FromPtr(s, AddVar(us, deref, "ptr", a), deref,
                                   ReadUnsigned(s.mem, a, WordSize), target, FALSE)
                 [] Type(target).kind = "struct" -> FromStruct(s, us, Append(name, "->"), a, target)
                 [] Type(target).kind = "array" -> FromArray(s, us, name, a, target)
                 [] OTHER -> AddVar(us, deref, Type(target).kind, a)

\* dwarf_get_vars_in_struct
FromStruct(s, vs, base, a, t) ==
    FoldLeft(LAMBDA us, field :
        LET name == Append(base, field.name)
            at == a + field.offset
            kind == Type(field.type).kind
            value == ReadUnsigned(s.mem, at, WordSize)
            ws == AddVar(us, name, kind, at)
        IN  CASE kind = "struct" -> FromStruct(s, us, Append(name, "."), at, field.type)
              [] kind = "array" -> FromArray(s, us, name, at, field.type)
              [] kind = "ptr" -> IF Accessable(at) /\ Accessable(value) /\ Unpack(base).follow
                                 THEN FromPtr(s, ws, name, value, field.type, Unpack(base).only_ghost)
                                 ELSE ws
              [] OTHER -> ws,
        vs, Type(t).fields)

\* dwarf_get_variable
FromVariable(s, vs, v) ==
    LET name == <<v.name>>
        a == dwarf_evaluate(s.mem, v.loc, frame_base_addr(s.mem))
        kind == Type(v.type).kind
        us == AddVar(vs, name, kind, a)
    IN  CASE kind = "ptr" -> FromPtr(s, us, name, ReadUnsigned(s.mem, a, WordSize), v.type, FALSE)
          [] kind = "struct" -> FromStruct(s, vs, Append(name, "."), a, v.type)
          [] kind = "array" -> FromArray(s, vs, name, a, v.type)
          [] OTHER -> us

\* No variable is found without the frame base.
dwarf_get_variables(s) ==
    IF frame_base_addr(s.mem) = NULL THEN <<>>
    ELSE FoldLeft(LAMBDA vs, v : FromVariable(s, vs, v), <<>>, frame.vars)

-----------------------------------------------------------------------------
\* Printing: my_print_var, with the format of the type

Printed(m, v) ==
    CASE v.ghost # "no" -> v.val
      [] v.type = "int8" -> ReadSigned(m, v.ptr, 1)
      [] v.type \in {"char", "uint8"} -> ReadUnsigned(m, v.ptr, 1)
      [] v.type = "int16" -> ReadSigned(m, v.ptr, 2)
      [] v.type = "uint16" -> ReadUnsigned(m, v.ptr, 2)
      [] v.type \in {"int32", "bool"} -> ReadSigned(m, v.ptr, 4)
      [] v.type = "uint32" -> ReadUnsigned(m, v.ptr, 4)
      [] v.type = "int64" -> ReadSigned(m, v.ptr, 8)
      [] v.type \in {"uint64", "ptr"} -> ReadUnsigned(m, v.ptr, 8)

-----------------------------------------------------------------------------
\* cleanup_snapshot_file

NameLength(name) == Len(name) + Arrows(name)

Key(v) == [ghost |-> v.ghost, name |-> v.name]

GhostKey(kind, name) == [ghost |-> kind, name |-> name]

\* Sizes are given in bytes (use_raw_size) or in elements.
Unit(elem) == IF frame.use_raw_size THEN 1 ELSE elem

\* The line that remains of an address: the shortest name, printed first.
Remains(vs, i) ==
    \/ vs[i].ghost # "no"
    \/ \A j \in DOMAIN vs :
          vs[j].ghost = "no" /\ vs[j].type # "array" /\ vs[j].ptr = vs[i].ptr /\ j # i =>
             \/ NameLength(vs[i].name) < NameLength(vs[j].name)
             \/ NameLength(vs[i].name) = NameLength(vs[j].name) /\ i > j

(***************************************************************************)
(* Arrays are not printed; aliases are removed, and ghosts whose parent is *)
(* not there; the offset of a pointer in its buffer is added, and sizes    *)
(* are in their unit.                                                      *)
(***************************************************************************)
Cleanup(m, vs) ==
    LET printed == {i \in DOMAIN vs : vs[i].type # "array"}
        kept == {i \in printed : Remains(vs, i)}
        names == {vs[i].name : i \in {j \in kept : vs[j].ghost = "no"}}
        entries == {i \in kept : vs[i].ghost # "no" => vs[i].name \in names}
        at(k) == CHOOSE i \in entries : Key(vs[i]) = k
        bases == {i \in entries : vs[i].ghost = "GBase"}
        value(i) == IF vs[i].ghost = "GSize" THEN vs[i].val \div Unit(vs[i].elem) ELSE Printed(m, vs[i])
        diff(n) == Printed(m, vs[at(GhostKey("no", n))]) - vs[at(GhostKey("GBase", n))].val
    IN  [k \in {Key(vs[i]) : i \in entries} |-> [type |-> vs[at(k)].type, val |-> value(at(k))]]
          @@ [k \in {GhostKey("GDiff", vs[i].name) : i \in bases} |->
                [type |-> "int64", val |-> diff(k.name)]]

-----------------------------------------------------------------------------
\* Mutation

Width(t) == CASE t \in {"int8", "char", "bool", "uint8"} -> 1
              [] t \in {"int16", "uint16"} -> 2
              [] t \in {"int32", "uint32"} -> 4
              [] t \in {"int64", "uint64", "ptr"} -> 8

\* The variable that an instruction names: of a _GDiff_ the pointer.
Found(key) ==
    LET wanted == IF key.ghost = "GDiff" THEN GhostKey("no", key.name) ELSE key
    IN  {i \in DOMAIN list : /\ Key(list[i]) = wanted
                            /\ \A j \in DOMAIN list : Key(list[j]) = wanted => j <= i}

\* gsize_to_elem_size, in the unit of sizes
ElemSize(key) == Unit(CHOOSE e \in {list[i].elem : i \in Found(key)} : TRUE)

\* Where the pointer or the array v points to.
Target(m, v) == IF v.type = "ptr" THEN ReadUnsigned(m, v.ptr, WordSize) ELSE v.ptr

\* Mutant: the size itself is taken as the change.
ResizeBy(s, v, old, x) ==
    [s EXCEPT !.shadow = AdjustedShadow(@, Target(s.mem, v), x)]

(***************************************************************************)
(* A new size x for the buffer of the ghost's parent v: adjust_redzone_size*)
(* changes it by the difference to the ghost's value old, and new bytes    *)
(* are cleared.                                                            *)
(***************************************************************************)
Resize(s, v, old, x) ==
    LET a == Target(s.mem, v)
        sh == AdjustedShadow(s.shadow, a, x - old)
        mutated_size == AdjustedSize(s.shadow, a, x - old)
        cleared == IF mutated_size > old THEN Cleared(sh, a, old, mutated_size) ELSE {}
    IN  [mem |-> [c \in DOMAIN s.mem |-> IF c \in cleared THEN 0 ELSE s.mem[c]],
         shadow |-> sh]

\* mutate_var on the state s = [mem, shadow], for the variable at index i.
MutateVar(s, i, ins) ==
    LET v == list[i]
        base == Max({NULL, BaseAt(s.shadow, Target(s.mem, v))})
    IN  CASE ins.key.ghost = "GDiff" ->
               [s EXCEPT !.mem = Write(@, v.ptr, WordSize, base + ins.val)]
          [] ins.key.ghost = "GSize" -> Resize(s, list[v.parent], v.val, ins.val)
          [] ins.malloc ->
               [mem |-> Write(s.mem, v.ptr, WordSize, frame.fresh),
                shadow |-> Allocated(s.shadow, frame.fresh, frame.freshSize)]
          [] OTHER -> [s EXCEPT !.mem = Write(@, v.ptr, Width(v.type), ins.val)]

\* The loop over the pairs of an instruction, from the state s.
MutateAll(s, pairs) ==
    FoldLeft(LAMBDA t, ins : FoldLeft(LAMBDA u, i : MutateVar(u, i, ins), t, SetToSeq(Found(ins.key))),
             s, pairs)

\* __canonicalize_gsize_ins_pair: sizes are sent in bytes.
Instruction(key, x, malloc) ==
    [key |-> key, malloc |-> malloc,
     val |-> IF key.ghost = "GSize"
             THEN x * ElemSize(key) ELSE x]

\* __add_type_constraint
Fits(t, x) ==
    LET all == ByteValues ^ Width(t)
    IN  CASE t \in {"char", "int32"} -> x \in (-(all \div 2))..(all \div 2 - 1)
          [] t \in {"uint8", "uint32"} -> x \in 0..(all - 1)
          [] t \in {"uint16", "uint64"} -> x >= 0
          [] OTHER -> TRUE

(***************************************************************************)
(* What the solver may ask for a variable: at least one element, and no    *)
(* fewer than lie before the pointer; a pointer into its buffer or to the  *)
(* end of the last element (anywhere, if there is none).                   *)
(***************************************************************************)
Asked(key) ==
    LET shownAs(kind) == LET k == GhostKey(kind, key.name)
                         IN  IF k \in DOMAIN shown THEN shown[k].val ELSE 0
        elem == ElemSize(GhostKey("GSize", key.name))
        allowed(x) ==
            CASE key.ghost = "GSize" -> x > 0 /\ x * elem >= shownAs("GDiff")
              [] key.ghost = "GDiff" -> x >= 0 /\ (shownAs("GSize") # 0 => x <= shownAs("GSize") * elem)
              [] OTHER -> TRUE
    IN  IF key.ghost = "no" /\ shown[key].type = "ptr" THEN frame.addrs
        ELSE {x \in NewValues : allowed(x) /\ Fits(shown[key].type, x)}

-----------------------------------------------------------------------------
\* snapshot()
Snapshot ==
    /\ list = <<>>
    /\ UNCHANGED <<frame, mem, shadow, last>>
    /\ list' = dwarf_get_variables([mem |-> mem, shadow |-> shadow])
    /\ shown' = Cleanup(mem, list')

\* The size of a ghost's buffer is not that of the ghost any more.
Resized(s, key) ==
    \E i \in Found(key) : SizeAt(s.shadow, Target(s.mem, list[list[i].parent])) # list[i].val

\* Mutant: the snapshot is printed from the variables found before.
MutateNoRewalk ==
    /\ list # <<>> /\ last = NoMutation
    /\ \E key \in {k \in DOMAIN shown : k.ghost # "GBase"} : \E x \in Asked(key) :
          LET s == MutateAll([mem |-> mem, shadow |-> shadow], <<Instruction(key, x, FALSE)>>)
          IN  /\ mem' = s.mem /\ shadow' = s.shadow
              /\ last' = [key |-> key, val |-> x, malloc |-> FALSE, cut |-> FALSE]
              /\ shown' = Cleanup(s.mem, list)
    /\ UNCHANGED <<frame, list>>

(***************************************************************************)
(* mutate() in its k-th execution: the values of some other variables are  *)
(* repeated, then one is changed.  Pointers may get a new object instead.  *)
(* The variables are looked for again before the snapshot is printed.      *)
(***************************************************************************)
Mutate ==
    /\ list # <<>> /\ last = NoMutation
    /\ LET keys == {k \in DOMAIN shown : k.ghost # "GBase"}
           prefixes(key) == UNION {{p \in [1..n -> keys \ {key}] : IsInjective(p)} :
                                      n \in 0..MaxPrefix}
       IN  \E key \in keys : \E pre \in prefixes(key) :
             LET prefix == [n \in DOMAIN pre |-> Instruction(pre[n], shown[pre[n]].val, FALSE)]
                 repeated == MutateAll([mem |-> mem, shadow |-> shadow], prefix)
             IN  \E x \in Asked(key), malloc \in BOOLEAN :
                   /\ malloc => shown[key].type = "ptr" /\ x = NULL
                   /\ LET s == MutateAll(repeated, <<Instruction(key, x, malloc)>>)
                      IN  /\ mem' = s.mem /\ shadow' = s.shadow
                          /\ list' = dwarf_get_variables(s)
                          /\ shown' = Cleanup(s.mem, list')
                   /\ last' = [key |-> key, val |-> x, malloc |-> malloc,
                              cut |-> Resized(repeated, GhostKey("GSize", key.name))]
    /\ UNCHANGED frame

Init == /\ frame \in Frames
        /\ mem = frame.mem
        /\ shadow = FoldLeft(LAMBDA sh, b : Allocated(sh, b.base, b.size),
                             [i \in 0..Max(DOMAIN mem) \div 8 |-> Redzone], frame.buffers)
        /\ list = <<>>
        /\ shown = <<>>
        /\ last = NoMutation

Next == Snapshot \/ Mutate

Spec == Init /\ [][Next]_vars

-----------------------------------------------------------------------------
(***************************************************************************)
(* The stack machine computes the value of expressions of all operators on *)
(* words: operands are taken in their order, words wrap around, division   *)
(* and comparisons are signed, shifts are as their names say, and the      *)
(* frame base is found through the CFA or through a register.              *)
(***************************************************************************)
LocationsRight == list = <<>> => EvaluatesRight(mem)

(***************************************************************************)
(* The walk does not get lost in what a pointer reaches, a cycle included: *)
(* nothing behind more than three arrows is recorded, and behind three     *)
(* only what a pointer to a pointer leads to, for which only_ghost is      *)
(* dropped; it is also ignored for memory that is not writable.            *)
(***************************************************************************)
NoDeepNesting ==
    \A i \in DOMAIN list : LET name == list[i].name
                           IN  Arrows(name) <= IF Head(name) = "*" THEN 3 ELSE 2

(***************************************************************************)
(* The ghosts of a snapshot tell the truth about the pointer of their name *)
(* that is in the same snapshot, whichever aliases were removed and        *)
(* whatever was mutated before through another pointer to the buffer.      *)
(***************************************************************************)
GhostsMatchPointers ==
    \A k \in DOMAIN shown : k.ghost # "no" =>
        LET p == GhostKey("no", k.name)
            a == shown[p].val
        IN  /\ p \in DOMAIN shown /\ shown[p].type = "ptr"
            /\ BaseAt(shadow, a) # Error
            /\ CASE k.ghost = "GBase" -> shown[k].val = BaseAt(shadow, a)
                 [] k.ghost = "GDiff" -> shown[k].val = a - BaseAt(shadow, a)
                 [] k.ghost = "GSize" -> shown[k].val = SizeAt(shadow, a) \div ElemSize(k)

\* The value that a type can hold of x.
Reduced(t, x) ==
    LET y == x % ByteValues ^ Width(t)
    IN  IF t \in {"int8", "int16", "int32", "int64"} THEN AsSigned(y, Width(t)) ELSE y

\* Just behind a full shadow byte, where an object's end is redzone already.
AtRedzone(a) == a % 8 = 0 /\ shadow[a \div 8] < 0 /\ shadow[a \div 8 - 1] = 0

\* A buffer of want bytes was asked for, and there is one of got bytes.
SizeGiven(want, got) == \/ got = want
                        \/ want % 8 = 0 /\ got = want + 8
                        \/ want < 8 /\ got = 8
                        \/ want - got >= REDZONE_SIZE

(***************************************************************************)
(* A counter-example is the state that was asked for: the snapshot after a *)
(* mutation shows the variable, of the pointer's own buffer if it is a     *)
(* ghost, with the value asked for.  Excepted are ghosts of a pointer that *)
(* is then just behind its buffer, if the size is a multiple of 8 (there   *)
(* are none); sizes that grow too much, or are a multiple of 8, or smaller *)
(* (they are missed by a shadow byte); ghosts of a buffer with a part of   *)
(* an element at the end, if repeating another size of the same buffer     *)
(* has cut off the part, which the ghost does not notice; and a _Bool is   *)
(* printed with three bytes behind it.                                     *)
(***************************************************************************)
MutationShown ==
    LET k == last.key
        p == GhostKey("no", k.name)
        asked == IF last.malloc THEN frame.fresh ELSE last.val
    IN  CASE last = NoMutation -> TRUE
          [] k.ghost # "no" /\ last.cut -> TRUE
          [] k.ghost # "no" /\ k \notin DOMAIN shown -> AtRedzone(shown[p].val)
          [] k.ghost = "GDiff" -> shown[k].val = last.val
          [] k.ghost = "GSize" -> SizeGiven(last.val * ElemSize(k), SizeAt(shadow, shown[p].val))
          [] shown[k].type = "bool" -> shown[k].val % ByteValues = asked % ByteValues
          [] OTHER -> shown[k].val = Reduced(shown[k].type, asked)

=============================================================================
