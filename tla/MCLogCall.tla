----------------------------- MODULE MCLogCall -----------------------------
(***************************************************************************)
(* Calls for TLC: one argument of every shape of up to three containers,   *)
(* and every set of fields with up to two arguments of a few types.        *)
(***************************************************************************)
EXTENDS LogCall

I32 == Simple("Integral", 1, 4)
F64 == Simple("Float", 0, 8)
C16 == Simple("Char", 2, 2)
Str == String(0, 1)
U16 == String(2, 2)
Lit == Literal(0, 1, 5)

Lists(elems)            == {ListType(t) : t \in elems}
Arrays(elems)           == {ArrayType(t, 2) : t \in elems}
Pairs(firsts, seconds)  == {TupleType(<<t, u>>) : t \in firsts, u \in seconds}

\* Types by the number of containers inside each other.  Arrays have containers
\* for elements only in Nested.
Types1 == Lists({I32, Str, U16}) \union Arrays({C16, Str}) \union Pairs({I32, Str, Lit}, {F64, Str})
          \union {TupleType(<<>>)}
Types2 == Lists(Types1) \union Pairs(Types1, Types1 \union {I32})
Types3 == Lists(Types2) \union Pairs(Types2, {C16})
Nested == Arrays(Arrays(Arrays({I32}))) \union Arrays(Pairs({I32}, Arrays({C16})))

\* Arguments with lists of no and of two elements; the data in them are numbered
\* so that they differ.
RECURSIVE ArgsOfType(_, _)
ArgsOfType(t, n) ==
  LET Two(first, second) ==
        {ArgOf(t, <<v, w>>) : v \in ArgsOfType(first, 2 * n), w \in ArgsOfType(second, 2 * n + 1)}
  IN  CASE t.class = "String"  -> {Arg(t, n % 6)}
        [] t.class = "Literal" -> {Arg(t, t.chars - 1)}
        [] t.class = "List"    -> {ArgOf(t, <<>>)} \union Two(t.elem, t.elem)
        [] t.class = "Array"   -> Two(t.elem, t.elem)
        [] t.class = "Tuple"   -> IF t.elems = <<>> THEN {ArgOf(t, <<>>)} ELSE Two(t.elems[1], t.elems[2])
        [] OTHER               -> {Arg(t, n)}

Call(flags, sequence, n) ==
  [flags |-> flags, text |-> Arg(Lit, 4), args |-> sequence, replacements |-> n]

ArgsOf(types) == UNION {ArgsOfType(t, 1) : t \in types}

\* One argument of any shape.
ShapedCalls == {Call({}, <<a>>, 1) : a \in ArgsOf({I32, F64, C16, Str, U16, Lit} \union Types1 \union Types2 \union Types3)}

\* Every set of fields.
FewArgs     == ArgsOf({I32, Str, ListType(Str), TupleType(<<Lit, F64>>)})
FieldedCalls ==
  {Call(flags, sequence, n) :
     flags \in SUBSET ToSet(MetaFields), sequence \in {<<>>} \union {<<a>> : a \in FewArgs} \union
                                             {<<a, b>> : a \in FewArgs, b \in FewArgs}, n \in 0 .. 2}

MCCalls == ShapedCalls \union FieldedCalls
NestedCalls == {Call({}, <<a>>, 1) : a \in ArgsOf(Nested)}

MCLineFields == <<"Thread", "Line", "Logger", "Message">>
=============================================================================
