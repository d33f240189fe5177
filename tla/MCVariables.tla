---------------------------- MODULE MCVariables ----------------------------
(***************************************************************************)
(* Programs: two pointers into one buffer, next to small integers; a       *)
(* cyclic list reached in several ways; a structure in read-only memory    *)
(* with a pointer to a buffer, and arrays; a tree with a pointer to        *)
(* pointers, from a compiler that gives pointers no size; and a program    *)
(* without a frame base.                                                   *)
(* Memory: 8..79 stack, 80..207 heap, 208..239 read-only.                  *)
(***************************************************************************)
EXTENDS Variables

Base(k, size) == [kind |-> k, to |-> "void", size |-> size, fields |-> <<>>]
Struct(size, fs) == [kind |-> "struct", to |-> "void", size |-> size, fields |-> fs]
Field(n, offset, t) == [name |-> n, offset |-> offset, type |-> t]

TypeNames == {"void", "int8", "char", "bool", "int16", "uint32", "pint", "node", "pnode", "ppnode",
              "conf", "pconf", "arr", "union", "outer", "pvoid", "tree", "ptree", "pptree"}

\* Types whose pointers have the size that the compiler gives them.
Types(ptrSize) == [t \in TypeNames |->
    LET Ptr(to) == [kind |-> "ptr", to |-> to, size |-> ptrSize, fields |-> <<>>]
    IN  CASE t = "void" -> Base("unknown", 0)
          [] t = "int8" -> Base("int8", 1)
          [] t = "char" -> Base("char", 1)
          [] t = "bool" -> Base("bool", 1)
          [] t = "int16" -> Base("int16", 2)
          [] t = "uint32" -> Base("uint32", 4)
          [] t = "union" -> Base("union", 2)
          [] t = "pvoid" -> Ptr("void")
          [] t = "pint" -> Ptr("int16")
          [] t = "node" -> Struct(10, <<Field("next", 0, "pnode"), Field("val", 8, "int16")>>)
          [] t = "pnode" -> Ptr("node")
          [] t = "ppnode" -> Ptr("pnode")
          [] t = "conf" -> Struct(16, <<Field("q", 0, "pint"), Field("next", 8, "pconf")>>)
          [] t = "pconf" -> Ptr("conf")
          [] t = "arr" -> [kind |-> "array", to |-> "int16", size |-> 4, fields |-> <<>>]
          [] t = "outer" -> Struct(7, <<Field("a", 0, "arr"), Field("u", 4, "union"),
                                        Field("c", 6, "char")>>)
          [] t = "tree" -> Struct(16, <<Field("up", 0, "ptree"), Field("kids", 8, "pptree")>>)
          [] t = "ptree" -> Ptr("tree")
          [] t = "pptree" -> Ptr("ptree")]

Op(o, r, n) == [op |-> o, r |-> r, n |-> n]
V(n, loc, t) == [name |-> n, loc |-> loc, type |-> t]
CFA == <<Op("call_frame_cfa", 0, 0)>>
FB(n) == <<Op("fbreg", 0, n)>>
Buffer(base, size) == [base |-> base, size |-> size]

Memory(writes) == FoldLeft(LAMBDA m, w : Write(m, w[1], w[2], w[3]),
                           [a \in 8..239 |-> 0], writes)

Map == {[start |-> 8, end |-> 79, w |-> TRUE], [start |-> 80, end |-> 207, w |-> TRUE],
        [start |-> 208, end |-> 239, w |-> FALSE]}

Frame(variables, writes, buffers, fb) ==
    [types |-> Types(8), vars |-> variables, base |-> 0, state |-> 8, map |-> Map,
     frame_base |-> fb, cfa_expr |-> <<Op("breg", 1, 8)>>,
     base_of_frame |-> IF fb = <<>> THEN NULL ELSE 32,
     mem |-> Memory(writes \o <<<<8, 8, 32>>, <<16, 8, 24>>>>),
     buffers |-> buffers, addrs |-> {NULL, 96, 98, 144}, fresh |-> 184, freshSize |-> 4,
     use_raw_size |-> FALSE]

Integers(size) ==
    Frame(<<V("i", FB(0), "int8"), V("c", FB(1), "char"), V("b", FB(2), "bool"),
             V("s", FB(4), "int16"), V("p", FB(8), "pint"), V("q", FB(16), "pint"),
             V("r", <<Op("reg", 2, 0)>>, "uint32")>>,
           <<<<32, 1, 3>>, <<34, 1, 1>>, <<36, 2, -3>>, <<40, 8, 96>>, <<48, 8, 98>>, <<24, 4, 9>>,
             <<96, 2, 5>>>>,
           <<Buffer(96, size)>>, CFA)

Aliases(size) ==
    Frame(<<V("p", FB(8), "pint"), V("q", FB(16), "pint")>>,
          <<<<40, 8, 96>>, <<48, 8, 98>>>>, <<Buffer(96, size)>>, CFA)

Tree ==
    Frame(<<V("t", FB(0), "ptree")>>, <<<<32, 8, 96>>, <<96, 8, 144>>, <<152, 8, 40>>, <<40, 8, 96>>>>,
          <<Buffer(96, 16), Buffer(144, 16)>>, CFA)

List(variables) ==
    Frame(variables,
          <<<<32, 8, 96>>, <<40, 8, 96>>, <<48, 2, 1>>, <<56, 8, 32>>,
            <<96, 8, 144>>, <<104, 2, 7>>, <<144, 8, 96>>, <<152, 2, 2>>>>,
          <<Buffer(96, 10), Buffer(144, 10)>>, <<Op("reg", 0, 0)>>)

MCFrames ==
    {Integers(5), Aliases(6), Aliases(8), Aliases(16), Aliases(18),
     [Aliases(9) EXCEPT !.use_raw_size = TRUE],
     [Tree EXCEPT !.types = Types(0)],
     Frame(<<V("i", FB(0), "int8")>>, <<>>, <<>>, <<>>),
     List(<<V("l", FB(0), "pnode"), V("pp", FB(24), "ppnode")>>), List(<<V("h", FB(8), "node")>>),
     Frame(<<V("s", FB(0), "int16"), V("r", FB(8), "pconf"), V("a", FB(16), "arr"),
             V("o", <<Op("addr", 0, 56)>>, "outer"), V("v", <<Op("addr", 0, 112)>>, "pvoid")>>,
           <<<<32, 2, 1>>, <<40, 8, 208>>, <<48, 2, 3>>, <<62, 1, 3>>, <<112, 8, 96>>,
             <<208, 8, 96>>, <<216, 8, 224>>, <<224, 8, 98>>>>,
           <<Buffer(96, 4), Buffer(48, 4)>>, CFA)}

MCNewValues == {-3, 0, 1, 2, 3, 4, 8, 300}

Expr(o, r, n, args) == [op |-> o, r |-> r, n |-> n, args |-> args]

Three == Expr("lit", 0, 3, <<>>)
Leaves == {Three, Expr("const", 0, -5, <<>>), Expr("breg", 1, -1, <<>>),
           Expr("fbreg", 0, 8, <<>>), Expr("addr", 0, 33, <<>>)}

\* Expressions over the given ones; shifts are by less than the size of a word.
Node(kids, others) ==
    {Expr(o, 0, 5, <<x>>) : o \in {"deref", "plus_uconst", "neg", "not", "abs"}, x \in kids}
        \cup {Expr(o, 0, 0, <<x, y>>) :
                 o \in BinaryOps \ {"shl", "shr", "shra"}, x \in kids, y \in others}
        \cup {Expr(o, 0, 0, <<x, Three>>) : o \in {"shl", "shr", "shra"}, x \in kids}

MCExpressions == Leaves \cup Node(Leaves, Leaves) \cup Node(Node(Leaves, {Three}), {Three})

=============================================================================
