------------------------------ MODULE LogArgs ------------------------------
(***************************************************************************)
(* The arguments of a log call in a message: the signature of their types, *)
(* the sizes computed before the call reserves room in the ring, once from *)
(* the type alone and once from the value, and what is written.            *)
(*                                                                         *)
(* A type is a record made by one of the constructors below.  An argument  *)
(* or an element is a type with a value: a number for a simple type, the   *)
(* number of characters of a string or a literal, and a sequence of        *)
(* elements for containers.  Everything written is padded to Word bytes,   *)
(* so that a message is a sequence of words; a word says what it is part   *)
(* of.                                                                     *)
(***************************************************************************)
EXTENDS Integers, Sequences, SequencesExt

CONSTANT MaxNesting   \* containers inside each other

ASSUME LogArgsAssumption == MaxNesting \in Nat

Word == 4              \* constants::internal_msg_data_alignment
MsgAlignment == 8      \* constants::internal_msg_alignment
MessageHeader == 20    \* internal_msg_header::padded_data_size
CounterBytes == 2      \* sizeof(msg_counter)

\* padded_size()
Padded(bytes, to) == ((bytes + to - 1) \div to) * to

\* sizeof(T) in words, as written.
Words(bytes) == Padded(bytes, Word) \div Word

-----------------------------------------------------------------------------
\* Types.  The variant is the char_type of characters, and whether an integer
\* is signed.  A list has elements that are counted at run time, an array is a
\* std::array, a tuple also stands for std::pair.
Simple(class, variant, bytes)   == [class |-> class, variant |-> variant, bytes |-> bytes]
String(variant, unit)           == [class |-> "String", variant |-> variant, bytes |-> unit]
Literal(variant, unit, chars)   == [class |-> "Literal", variant |-> variant, bytes |-> unit, chars |-> chars]
ListType(elem)                  == [class |-> "List", elem |-> elem]
ArrayType(elem, n)              == [class |-> "Array", elem |-> elem, n |-> n]
TupleType(elems)                == [class |-> "Tuple", elems |-> elems]

IsText(t)      == t.class \in {"String", "Literal"}
IsList(t)      == t.class \in {"List", "Array"}
IsAggregate(t) == IsList(t) \/ t.class = "Tuple"

DataTypes    == [class : {"Char", "Bool", "Float", "Integral", "Hash", "Pointer", "Smallstring"}, variant : Nat, bytes : Nat]
StringTypes  == [class : {"String"}, variant : Nat, bytes : Nat]
LiteralTypes == [class : {"Literal"}, variant : Nat, bytes : Nat, chars : Nat \ {0}]
SimpleTypes  == DataTypes \cup StringTypes \cup LiteralTypes

\* The types with at most n containers inside each other.
Containers(elems) == [class : {"List"}, elem : elems] \cup [class : {"Array"}, elem : elems, n : Nat]
                     \cup [class : {"Tuple"}, elems : Seq(elems)]
ArgTypesTo[n \in 0 .. MaxNesting] == SimpleTypes \cup IF n = 0 THEN {} ELSE Containers(ArgTypesTo[n - 1])
ArgTypes == ArgTypesTo[MaxNesting]

\* An argument is a type with a value or with elements.
Arg(t, v)       == [type |-> t, value |-> v]
ArgOf(t, elems) == [type |-> t, elems |-> elems]

\* A literal has its characters without the one that ends it; an element has the
\* type it has in the type of the container.
IsArg(a) ==
  CASE a.type.class = "Literal" -> a.value = a.type.chars - 1
    [] a.type.class = "List"    -> \A i \in DOMAIN a.elems : a.elems[i].type = a.type.elem
    [] a.type.class = "Array"   -> Len(a.elems) = a.type.n /\ \A i \in DOMAIN a.elems : a.elems[i].type = a.type.elem
    [] a.type.class = "Tuple"   -> Len(a.elems) = Len(a.type.elems)
                                   /\ \A i \in DOMAIN a.elems : a.elems[i].type = a.type.elems[i]
    [] OTHER                    -> TRUE

ElementsTo[n \in 0 .. MaxNesting] ==
  {a \in [type : SimpleTypes, value : Nat] : IsArg(a)} \cup
  IF n = 0 THEN {} ELSE {a \in [type : Containers(ArgTypesTo[n - 1]), elems : Seq(ElementsTo[n - 1])] : IsArg(a)}
Elements == ElementsTo[MaxNesting]

\* log_type_v<T>, an element of log_element_type
ElementType(t) ==
  CASE t.class = "Char"        -> 16
    [] t.class = "Bool"        -> 32
    [] IsText(t)               -> 48
    [] t.class = "Float"       -> 64
    [] t.class = "Integral"    -> 80
    [] IsAggregate(t)          -> 96
    [] t.class = "Hash"        -> 112
    [] t.class = "Pointer"     -> 128
    [] t.class = "Smallstring" -> 160

\* log2_size<T>
Log2(bytes) == CHOOSE n \in 0 .. 7 : 2 ^ n = bytes

\* log_type_metadata_v<T>
Metadata(t) ==
  CASE t.class = "Char" \/ IsText(t) -> t.variant
    [] t.class = "Integral"          -> 8 * t.variant + Log2(t.bytes)
    [] t.class = "Float"             -> Log2(t.bytes)
    [] t.class = "Smallstring"       -> t.bytes \div 32
    [] t.class = "Tuple"             -> 1
    [] OTHER                         -> 0

Sum(numbers) ==
  LET sum[n \in 0 .. Len(numbers)] == IF n = 0 THEN 0 ELSE sum[n - 1] + numbers[n]
  IN  sum[Len(numbers)]

\* type_signature<T>
Signature[t \in ArgTypes] ==
  LET head == ElementType(t) + Metadata(t)
  IN  CASE IsList(t)         -> <<head>> \o Signature[t.elem]
        [] t.class = "Tuple" -> <<head, Len(t.elems)>>
                                \o FlattenSeq([i \in DOMAIN t.elems |-> Signature[t.elems[i]]])
        [] OTHER             -> <<head>>

\* internal_arg_header<T>::data_size
HeaderSize(t) == Padded(CounterBytes + 1 + Len(Signature[t]), Word)

-----------------------------------------------------------------------------
\* counter_size_from_type<T>()
CounterSize(t) == IF IsText(t) \/ IsList(t) THEN Padded(CounterBytes, Word) ELSE 0

\* log_element_counter_overhead(element)
CounterOverhead[a \in Elements] ==
  LET t == a.type
  IN  CounterSize(t) +
      CASE (IsList(t) /\ IsAggregate(t.elem)) \/ t.class = "Tuple" ->
             Sum([i \in DOMAIN a.elems |-> CounterOverhead[a.elems[i]]])
        [] IsList(t) /\ ~IsAggregate(t.elem) -> CounterSize(t.elem) * Len(a.elems)
        [] OTHER                             -> 0

\* log_element_payload_size(element)
PayloadSize[a \in Elements] ==
  CASE IsAggregate(a.type) -> Sum([i \in DOMAIN a.elems |-> PayloadSize[a.elems[i]]])
    [] IsText(a.type)      -> Padded(a.value * a.type.bytes, Word)
    [] OTHER               -> Padded(a.type.bytes, Word)

\* log_arg_size_compile_time<T>
SizeKnown[t \in ArgTypes] ==
  /\ ~(t.class \in {"String", "List"})
  /\ t.class = "Array" => SizeKnown[t.elem]
  /\ t.class = "Tuple" => \A i \in DOMAIN t.elems : SizeKnown[t.elems[i]]

\* The types with a size known at compile time, for which the functions below are.
KnownTypes == {t \in ArgTypes : SizeKnown[t]}

\* log_element_counter_overhead<T>()
CounterOverheadOfType[t \in KnownTypes] ==
  CounterSize(t) +
  CASE t.class = "Tuple" -> Sum([i \in DOMAIN t.elems |-> CounterOverheadOfType[t.elems[i]]])
    [] IsList(t)         -> CounterSize(t.elem) * t.n
    [] OTHER             -> 0

\* A bug: the terminating character is counted as part of a literal.
LiteralWithTerminator(t) == Padded(t.chars * t.bytes, Word)

LiteralSize(t) == Padded((t.chars - 1) * t.bytes, Word)

\* log_element_payload_size<T>()
PayloadSizeOfType[t \in KnownTypes] ==
  CASE IsList(t)         -> t.n * PayloadSizeOfType[t.elem]
    [] t.class = "Tuple" -> Sum([i \in DOMAIN t.elems |-> PayloadSizeOfType[t.elems[i]]])
    [] IsText(t)         -> LiteralSize(t)
    [] OTHER             -> Padded(t.bytes, Word)

\* log_arg_size(arg) and log_arg_size<T>()
ArgSize(a)       == HeaderSize(a.type) + CounterOverhead[a] + PayloadSize[a]
ArgSizeOfType(t) == HeaderSize(t) + CounterOverheadOfType[t] + PayloadSizeOfType[t]

-----------------------------------------------------------------------------
\* The words of a counter, of the characters of a text and of simple data.
CountWord(n)           == [is |-> "count", n |-> n]
TextWords(t, v)        == [i \in 1 .. Words(v * t.bytes) |->
                             [is |-> "text", unit |-> t.bytes, n |-> v, part |-> i]]
DataWords(t, v)        == [i \in 1 .. Words(t.bytes) |-> [is |-> "data", v |-> v, bytes |-> t.bytes, part |-> i]]
HeaderWords(t, size)   == [i \in 1 .. HeaderSize(t) \div Word |->
                             IF i = 1 THEN [is |-> "arg", size |-> size % 2 ^ 16, signature |-> Signature[t]]
                                      ELSE [is |-> "signature", part |-> i]]

\* write_var()
WriteVar[a \in Elements] ==
  LET elements == FlattenSeq([i \in DOMAIN a.elems |-> WriteVar[a.elems[i]]])
  IN  CASE IsText(a.type)         -> <<CountWord(a.value)>> \o TextWords(a.type, a.value)
        [] IsList(a.type)         -> <<CountWord(Len(a.elems))>> \o elements
        [] a.type.class = "Tuple" -> elements
        [] OTHER                  -> DataWords(a.type, a.value)

\* write_arg()
WriteArg(a) ==
  LET written == WriteVar[a]
      size    == IF SizeKnown[a.type] THEN ArgSizeOfType(a.type) ELSE HeaderSize(a.type) + Word * Len(written)
  IN  HeaderWords(a.type, size) \o written

-----------------------------------------------------------------------------
\* What is taken for a message: its size, the number of arguments and whether
\* one did not fit.
Taken(size, num, full) == [size |-> size, num |-> num, full |-> full]

\* A bug: the header is not counted when an argument is tried.
AddArgBesideHeader(taken, a, max) ==
  LET size == taken.size + ArgSize(a)
  IN  IF ~taken.full /\ Padded(size - MessageHeader, MsgAlignment) <= max THEN Taken(size, taken.num + 1, FALSE)
      ELSE Taken(taken.size, taken.num, TRUE)

\* add_arg_size() for an argument behind those that were taken
AddArgSize(taken, a, max) ==
  LET size == taken.size + ArgSize(a)
  IN  IF ~taken.full /\ Padded(size, MsgAlignment) <= max THEN Taken(size, taken.num + 1, FALSE)
      ELSE Taken(taken.size, taken.num, TRUE)

\* As many arguments as fit, one after the other
TakeFitting(args, max) ==
  LET taken[n \in 0 .. Len(args)] ==
        IF n = 0 THEN Taken(MessageHeader, 0, FALSE) ELSE AddArgSize(taken[n - 1], args[n], max)
  IN  [size |-> taken[Len(args)].size, num |-> taken[Len(args)].num]

\* compute_msg_size(): the size of the message and the number of arguments in
\* it, at most max bytes with the padding.
ComputeSize(args, max) ==
  LET size == MessageHeader + Sum([i \in DOMAIN args |-> ArgSizeOfType(args[i].type)])
  IN  IF /\ \A i \in DOMAIN args : SizeKnown[args[i].type]
         /\ Padded(size, MsgAlignment) <= max
      THEN [size |-> size, num |-> Len(args)]
      ELSE TakeFitting(args, max)

\* What write_message() writes behind the header of the message.
WriteArgs(args, num) == FlattenSeq([i \in 1 .. num |-> WriteArg(args[i])])
=============================================================================
