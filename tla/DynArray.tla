----------------------------- MODULE DynArray -----------------------------
(***************************************************************************)
(* dyn_array: the memory of lists that grow, with elements that are made   *)
(* and destroyed one by one, when any allocation may fail.                 *)
(***************************************************************************)
EXTENDS FiniteSetsExt, Integers, Sequences

CONSTANTS
  Arrays, Elements, Default,
  Blocks,     \* the pieces of memory the resource has
  Null,
  Raw,        \* memory with no element in it
  MinGrowth,  \* 8 in the code
  MaxMemory,  \* the most elements the resource has room for
  MaxSize     \* the largest size_t

\* A resource cannot have half of what a size_t counts.
ASSUME DynArrayAssumption ==
  /\ MinGrowth \in Nat \ {0} /\ MaxMemory \in Nat /\ MaxSize \in Nat
  /\ MinGrowth <= MaxMemory /\ 2 * MaxMemory <= MaxSize
  /\ Null \notin Blocks /\ Raw \notin Elements \cup {Default}

VARIABLES
  array,  \* begin_, size() and capacity() of each array
  memory, \* what is in the allocated blocks, cell by cell; <<>> for a free one
  list    \* the elements each array was given and has not been told to drop

arrayVars == <<array, memory, list>>

NoMemory == [begin |-> Null, size |-> 0, cap |-> 0]

ArrayInit ==
  /\ array = [a \in Arrays |-> NoMemory] /\ memory = [b \in Blocks |-> <<>>]
  /\ list = [a \in Arrays |-> <<>>]

FreeBlocks     == {b \in Blocks : memory[b] = <<>>}
Got(b, cap)    == IF cap <= MaxMemory THEN b ELSE Null
Freed(mem, a)  == IF a.begin = Null THEN mem ELSE [mem EXCEPT ![a.begin] = <<>>]
\* The elements of an array in order, as data() and size() show them
Content(a)     == IF array[a].begin = Null THEN <<>> ELSE SubSeq(memory[array[a].begin], 1, array[a].size)

State(arr, mem, ok) == [arr |-> arr, mem |-> mem, ok |-> ok]
Filled(mem, a, elements) ==
  [mem EXCEPT ![a.begin] = [i \in DOMAIN @ |-> IF i \in a.size + 1 .. a.size + Len(elements)
                                               THEN elements[i - a.size] ELSE @[i]]]
Destroyed(mem, b, gone) == [mem EXCEPT ![b] = [i \in DOMAIN @ |-> IF i \in gone THEN Raw ELSE @[i]]]

-----------------------------------------------------------------------------
\* A bug: the old memory is given back before it is known whether there is any
\* other.
ReallocatedFirst(a, cap, b) ==
  LET old   == array[a]
      new   == [old EXCEPT !.begin = b, !.cap = cap]
      moved == [Freed(memory, old) EXCEPT ![b] = [i \in 1 .. cap |-> Raw]]
  IN  IF cap = old.size /\ cap # 0 THEN State(old, memory, TRUE)
      ELSE IF cap < old.size \/ cap = 0 THEN State(old, memory, FALSE)
      ELSE IF Got(b, cap) = Null THEN State(NoMemory, Freed(memory, old), FALSE)
      ELSE State(new, Filled(moved, [new EXCEPT !.size = 0], Content(a)), TRUE)

\* reallocate_memory(), where b is what the resource returns
Reallocated(a, cap, b) ==
  LET old   == array[a]
      new   == [old EXCEPT !.begin = b, !.cap = cap]
      moved == [Freed(memory, old) EXCEPT ![b] = [i \in 1 .. cap |-> Raw]]
  IN  IF cap = old.size /\ cap # 0 THEN State(old, memory, TRUE)
      ELSE IF cap < old.size \/ cap = 0 \/ Got(b, cap) = Null THEN State(old, memory, FALSE)
      ELSE State(new, Filled(moved, [new EXCEPT !.size = 0], Content(a)), TRUE)

\* What an array of n elements has room for besides, where that can be counted
Spare(n) == LET more == Max({n \div 2, MinGrowth}) IN IF MaxSize - n < more THEN 0 ELSE more

\* grow(minimum_growth)
Grown(a, minimum, b) ==
  LET old == array[a] IN
  IF MaxSize - old.cap < minimum THEN State(old, memory, FALSE)
  ELSE Reallocated(a, Max({old.cap + Spare(old.cap), old.cap + minimum}), b)

Unchanged(a) == State(array[a], memory, TRUE)

\* Writes elements behind the last one of a where there is room.
Extended(a, s, elements) ==
  /\ memory' = IF s.ok /\ elements # <<>> THEN Filled(s.mem, s.arr, elements) ELSE s.mem
  /\ array' = [array EXCEPT ![a] = IF s.ok THEN [s.arr EXCEPT !.size = @ + Len(elements)] ELSE s.arr]
  /\ list' = [list EXCEPT ![a] = IF s.ok THEN @ \o elements ELSE @]

-----------------------------------------------------------------------------
TryPushBack(a, element, b) ==
  Extended(a, IF array[a].size = array[a].cap THEN Grown(a, 0, b) ELSE Unchanged(a), <<element>>)

\* write() of some elements, which are in no array
Write(a, elements, b) ==
  LET free == array[a].cap - array[a].size IN
  Extended(a, IF free < Len(elements) THEN Grown(a, Len(elements) - free, b) ELSE Unchanged(a), elements)

\* resize() to more, whose new elements are made, or, by resize_uninitialized(),
\* are whatever was there
Enlarge(a, elements, b) ==
  LET inc == Len(elements) IN
  Extended(a, IF array[a].cap < array[a].size + inc THEN Grown(a, inc, b) ELSE Unchanged(a), elements)

\* resize() to less, clear() and pop_back() keep the memory.
Shorten(a, n) ==
  /\ n < array[a].size
  /\ memory' = Destroyed(memory, array[a].begin, n + 1 .. array[a].size)
  /\ array' = [array EXCEPT ![a].size = n]
  /\ list' = [list EXCEPT ![a] = SubSeq(@, 1, n)]

\* The list without its element i, whose place the last one takes
Without(s, i) == SubSeq([s EXCEPT ![i] = s[Len(s)]], 1, Len(s) - 1)

\* A bug: the last element is copied but not destroyed.
RemoveCopies(a, i) ==
  LET last == array[a].size
      mem  == array[a].begin
  IN  /\ i \in 1 .. last
      /\ memory' = [memory EXCEPT ![mem][i] = memory[mem][last]]
      /\ array' = [array EXCEPT ![a].size = last - 1]
      /\ list' = [list EXCEPT ![a] = Without(@, i)]

\* remove(): swap with the last, then destroy that.
RemoveAt(a, i) ==
  LET last == array[a].size
      mem  == array[a].begin
  IN  /\ i \in 1 .. last
      /\ memory' = Destroyed([memory EXCEPT ![mem][i] = memory[mem][last], ![mem][last] = memory[mem][i]], mem, {last})
      /\ array' = [array EXCEPT ![a].size = last - 1]
      /\ list' = [list EXCEPT ![a] = Without(@, i)]

\* grow() and shrink() called for themselves
Grow(a, minimum, b) == Extended(a, Grown(a, minimum, b), <<>>)

Shrink(a, minimum, b) ==
  LET cap == Max({array[a].size + Spare(array[a].size), minimum})
  IN  Extended(a, IF array[a].cap <= cap THEN Unchanged(a) ELSE Reallocated(a, cap, b), <<>>)

\* The move assignment a = c and, with an empty temporary moved from, the
\* destructor
Move(a, c) ==
  /\ a # c
  /\ memory' = Freed(memory, array[a])
  /\ array' = [array EXCEPT ![a] = array[c], ![c] = NoMemory]
  /\ list' = [list EXCEPT ![a] = list[c], ![c] = <<>>]

\* Bounds the elements that are added at once.
AtOnce == 3
Some  == UNION {[1 .. n -> Elements] : n \in 1 .. AtOnce}

ArrayNext ==
  \E a \in Arrays :
    \/ \E b \in FreeBlocks \cup {Null} :
         \/ \E e \in Elements : TryPushBack(a, e, b)
         \/ \E elements \in Some : Write(a, elements, b)
         \/ \E n \in 1 .. AtOnce : Enlarge(a, [i \in 1 .. n |-> Default], b)
         \/ \E minimum \in {0, AtOnce, MaxSize} : Grow(a, minimum, b) \/ Shrink(a, minimum, b)
    \/ \E n \in 0 .. array[a].size : Shorten(a, n)
    \/ \E i \in 1 .. array[a].size : RemoveAt(a, i)
    \/ \E c \in Arrays : Move(a, c)

-----------------------------------------------------------------------------
\* Every block belongs to one array, which knows its size, and what is in it
\* are the elements of that array and nothing else: none is left behind when
\* the memory is given back, and none is destroyed twice.
MemoryIsOwned ==
  /\ \A b \in Blocks : memory[b] # <<>> => Cardinality({a \in Arrays : array[a].begin = b}) = 1
  /\ \A a \in Arrays :
       IF array[a].begin = Null THEN array[a] = NoMemory
       ELSE LET cells == memory[array[a].begin] IN
            /\ Len(cells) = array[a].cap /\ array[a].size <= array[a].cap
            /\ \A i \in DOMAIN cells : cells[i] = Raw <=> i > array[a].size

\* An array has the elements it was given, in order but for what remove() moves,
\* through any reallocation; an operation that fails changes none of them.
ArrayIsList == \A a \in Arrays : Content(a) = list[a]

\* An array is the list of its elements, in memory of its own: the two above.
ArrayIsIntact == MemoryIsOwned /\ ArrayIsList
=============================================================================
