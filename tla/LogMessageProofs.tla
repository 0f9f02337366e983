-------------------------- MODULE LogMessageProofs --------------------------
(***************************************************************************)
(* Messages, for every call and every type of arguments: what is computed  *)
(* before is what is written, and what is left out would not have fitted.  *)
(*                                                                         *)
(* Types and arguments are trees (IsTree): a value has no parts, and what  *)
(* it is made of lies less deep than itself.  Over trees there is          *)
(* induction, and each recursive function on them is the one its           *)
(* definition says.                                                        *)
(***************************************************************************)
EXTENDS LogMessage, TextProofs

\* E are the elements of trees, P[e] the parts of e, and L[k] those with at most k
\* others inside each other.
IsTree(E, P, L, N) ==
  /\ N \in Nat /\ P \in [E -> SUBSET E] /\ L \in [0 .. N -> SUBSET E] /\ L[N] = E
  /\ \A e \in L[0] : P[e] = {}
  /\ \A k \in 1 .. N : \A e \in L[k] : P[e] \subseteq L[k - 1]

\* Induction over trees.
LEMMA TreeInduction ==
  ASSUME NEW E, NEW P, NEW L, NEW N, IsTree(E, P, L, N),
         NEW T \in SUBSET E, \A e \in E : P[e] \subseteq T => e \in T
  PROVE  T = E
<1> USE DEF IsTree
<1> DEFINE U == {k \in 0 .. N : L[k] \subseteq T}
<1>1. 0 \in U
  <2>1. L[0] \subseteq T
    BY SMT
  <2> QED BY <2>1
<1>2. ASSUME NEW k \in 1 .. N, k - 1 \in U PROVE k \in U
  <2>1. k \in 0 .. N /\ k - 1 \in 0 .. N /\ L[k - 1] \subseteq T /\ L[k] \subseteq E
    BY <1>2, SMT
  <2>2. ASSUME NEW e \in L[k] PROVE e \in T
    BY <2>1, <2>2, SMT
  <2> QED BY <2>1, <2>2
<1>3. U \in SUBSET (0 .. N)
  OBVIOUS
<1> HIDE DEF U
<1>4. U = 0 .. N
  BY <1>1, <1>2, <1>3, UpTo
<1>5. N \in U
  BY <1>4
<1> QED BY <1>5 DEF U

AgreeOn(f, g, S) == \A p \in S : f[p] = g[p]

\* What G makes of a function for e depends on the parts of e only.
IsLocal(G, P, E, V) ==
  \A f \in [E -> V], g \in [E -> V], e \in E : AgreeOn(f, g, P[e]) => G[<<f, e>>] = G[<<g, e>>]

\* There is a function that is what G makes of its values for the parts.
LEMMA TreeFunction ==
  ASSUME NEW E, NEW P, NEW L, NEW N, IsTree(E, P, L, N), NEW V, NEW v \in V,
         NEW G \in [[E -> V] \X E -> V],
         IsLocal(G, P, E, V)
  PROVE  \E f \in [E -> V] : f = [e \in E |-> G[<<f, e>>]]
<1>0. ASSUME NEW f \in [E -> V], NEW g \in [E -> V], NEW e \in E, AgreeOn(f, g, P[e])
      PROVE  G[<<f, e>>] = G[<<g, e>>]
  BY <1>0 DEF IsLocal
<1> USE DEF IsTree
<1> DEFINE T == {k \in 0 .. N : \E f \in [E -> V] : \A e \in L[k] : f[e] = G[<<f, e>>]}
<1>1. 0 \in T
  <2>1. PICK f : f = [e \in E |-> v]
    OBVIOUS
  <2>2. f \in [E -> V]
    BY <2>1
  <2>3. PICK g : g = [e \in E |-> G[<<f, e>>]]
    OBVIOUS
  <2>4. g \in [E -> V] /\ \A e \in E : g[e] = G[<<f, e>>]
    BY <2>2, <2>3
  <2>5. ASSUME NEW e \in L[0] PROVE g[e] = G[<<g, e>>]
    <3>1. e \in E /\ P[e] = {}
      BY <2>5, SMT
    <3>2. AgreeOn(f, g, P[e])
      BY <3>1 DEF AgreeOn
    <3> HIDE DEF IsTree
    <3>3. G[<<f, e>>] = G[<<g, e>>]
      BY <1>0, <2>2, <2>4, <3>1, <3>2
    <3> QED BY <2>4, <3>1, <3>3
  <2>6. 0 \in 0 .. N
    BY SMT
  <2> QED BY <2>4, <2>5, <2>6
<1>2. ASSUME NEW k \in 1 .. N, k - 1 \in T PROVE k \in T
  <2>1. PICK f \in [E -> V] : \A e \in L[k - 1] : f[e] = G[<<f, e>>]
    BY <1>2
  <2>2. PICK g : g = [e \in E |-> G[<<f, e>>]]
    OBVIOUS
  <2>3. g \in [E -> V] /\ \A e \in E : g[e] = G[<<f, e>>]
    BY <2>2
  <2>4. k \in 0 .. N /\ k - 1 \in 0 .. N /\ L[k] \subseteq E /\ L[k - 1] \subseteq E
    BY <1>2, SMT
  <2>5. ASSUME NEW e \in L[k] PROVE g[e] = G[<<g, e>>]
    <3>1. e \in E /\ P[e] \subseteq L[k - 1]
      BY <2>4, <2>5, SMT
    <3>2. AgreeOn(f, g, P[e])
      BY <2>1, <2>3, <2>4, <3>1 DEF AgreeOn
    <3>3. f \in [E -> V] /\ g \in [E -> V] /\ e \in E
      BY <2>1, <2>3, <3>1
    <3> HIDE DEF IsTree
    <3>4. G[<<f, e>>] = G[<<g, e>>]
      BY <1>0, <3>2, <3>3
    <3> QED BY <2>3, <3>3, <3>4
  <2> QED BY <2>3, <2>4, <2>5
<1>3. T \in SUBSET (0 .. N)
  OBVIOUS
<1> HIDE DEF T
<1>4. T = 0 .. N
  BY <1>1, <1>2, <1>3, UpTo
<1>5. N \in T
  BY <1>4
<1>6. PICK f \in [E -> V] : \A e \in E : f[e] = G[<<f, e>>]
  BY <1>5 DEF T
<1>7. f = [e \in E |-> G[<<f, e>>]]
  BY <1>6
<1> QED BY <1>6, <1>7

-----------------------------------------------------------------------------
\* The types there are, level by level.
LEMMA TypesToIs ==
  \A n \in 0 .. MaxNesting : ArgTypesTo[n] = SimpleTypes \cup IF n = 0 THEN {} ELSE Containers(ArgTypesTo[n - 1])
<1> DEFINE F(f, m) == f = [n \in 0 .. m |-> SimpleTypes \cup IF n = 0 THEN {} ELSE Containers(f[n - 1])]
           T == {m \in 0 .. MaxNesting : \E f : F(f, m)}
<1>0. MaxNesting \in Nat
  BY LogArgsAssumption
<1>1. 0 \in T
  <2>1. PICK f : f = [n \in 0 .. 0 |-> SimpleTypes \cup {}]
    OBVIOUS
  <2>2. F(f, 0)
    BY <2>1
  <2> QED BY <1>0, <2>2
<1>2. ASSUME NEW m \in 1 .. MaxNesting, m - 1 \in T PROVE m \in T
  <2>1. PICK f : F(f, m - 1)
    BY <1>2
  <2>2. m \in Nat /\ m >= 1 /\ m \in 0 .. MaxNesting
    BY <1>0
  <2>3. PICK g : g = [n \in 0 .. m |-> IF n = m THEN SimpleTypes \cup Containers(f[m - 1]) ELSE f[n]]
    OBVIOUS
  <2>4. g[m] = SimpleTypes \cup Containers(f[m - 1]) /\ \A n \in 0 .. m - 1 : g[n] = f[n]
    BY <2>2, <2>3
  <2>5. ASSUME NEW n \in 0 .. m PROVE g[n] = SimpleTypes \cup IF n = 0 THEN {} ELSE Containers(g[n - 1])
    <3>1. CASE n = m
      <4>1. g[n - 1] = f[m - 1] /\ n # 0
        BY <2>2, <2>4, <3>1
      <4> QED BY <2>4, <3>1, <4>1
    <3>2. CASE n # m
      <4>1. n \in 0 .. m - 1 /\ (n # 0 => n - 1 \in 0 .. m - 1)
        BY <2>2, <3>2
      <4>2. f[n] = SimpleTypes \cup IF n = 0 THEN {} ELSE Containers(f[n - 1])
        BY Zenon, <2>1, <4>1
      <4> QED BY <2>4, <4>1, <4>2
    <3> QED BY <3>1, <3>2
  <2>6. g = [n \in 0 .. m |-> g[n]]
    BY <2>3
  <2>7. F(g, m)
    BY Zenon, <2>5, <2>6
  <2> QED BY <2>2, <2>7
<1>3. T = 0 .. MaxNesting
  <2>1. T \in SUBSET (0 .. MaxNesting)
    OBVIOUS
  <2> HIDE DEF T
  <2> QED BY <1>0, <1>1, <1>2, <2>1, UpTo
<1>4. \E f : F(f, MaxNesting)
  BY <1>0, <1>3
<1>5. F(ArgTypesTo, MaxNesting)
  BY Zenon, <1>4 DEF ArgTypesTo
<1> QED BY Zenon, <1>5

\* The elements there are, level by level.
ElementsOn(n, inner) ==
  {a \in [type : SimpleTypes, value : Nat] : IsArg(a)} \cup
  IF n = 0 THEN {} ELSE {a \in [type : Containers(ArgTypesTo[n - 1]), elems : Seq(inner)] : IsArg(a)}

LEMMA ElementsToIs == \A n \in 0 .. MaxNesting : ElementsTo[n] = ElementsOn(n, ElementsTo[n - 1])
<1> DEFINE F(f, m) == f = [n \in 0 .. m |-> ElementsOn(n, f[n - 1])]
           T == {m \in 0 .. MaxNesting : \E f : F(f, m)}
<1>0. MaxNesting \in Nat
  BY LogArgsAssumption
<1>1. 0 \in T
  <2>1. PICK f : f = [n \in 0 .. 0 |-> {a \in [type : SimpleTypes, value : Nat] : IsArg(a)} \cup {}]
    OBVIOUS
  <2>2. ElementsOn(0, f[0 - 1]) = {a \in [type : SimpleTypes, value : Nat] : IsArg(a)} \cup {}
    BY DEF ElementsOn
  <2>3. F(f, 0)
    BY <2>1, <2>2
  <2> QED BY <1>0, <2>3
<1>2. ASSUME NEW m \in 1 .. MaxNesting, m - 1 \in T PROVE m \in T
  <2>1. PICK f : F(f, m - 1)
    BY <1>2
  <2>2. m \in Nat /\ m >= 1 /\ m \in 0 .. MaxNesting
    BY <1>0
  <2>3. PICK g : g = [n \in 0 .. m |-> IF n = m THEN ElementsOn(m, f[m - 1]) ELSE f[n]]
    OBVIOUS
  <2>4. g[m] = ElementsOn(m, f[m - 1]) /\ \A n \in 0 .. m - 1 : g[n] = f[n]
    BY <2>2, <2>3
  <2>5. ASSUME NEW n \in 0 .. m PROVE g[n] = ElementsOn(n, g[n - 1])
    <3>1. CASE n = m
      <4>1. g[n - 1] = f[m - 1]
        BY <2>2, <2>4, <3>1
      <4> QED BY <2>4, <3>1, <4>1
    <3>2. CASE n # m
      <4>1. n \in 0 .. m - 1 /\ (n # 0 => n - 1 \in 0 .. m - 1)
        BY <2>2, <3>2
      <4>2. f[n] = ElementsOn(n, f[n - 1])
        BY Zenon, <2>1, <4>1
      <4>3. CASE n = 0
        <5>1. ElementsOn(n, f[n - 1]) = ElementsOn(n, g[n - 1])
          BY Zenon, <4>3 DEF ElementsOn
        <5> QED BY <2>4, <4>1, <4>2, <5>1
      <4>4. CASE n # 0
        <5>1. g[n] = f[n] /\ g[n - 1] = f[n - 1]
          BY <2>4, <4>1, <4>4
        <5> QED BY <4>2, <5>1
      <4> QED BY <4>3, <4>4
    <3> QED BY <3>1, <3>2
  <2>6. g = [n \in 0 .. m |-> g[n]]
    BY <2>3
  <2>7. F(g, m)
    BY Zenon, <2>5, <2>6
  <2> QED BY <2>2, <2>7
<1>3. T = 0 .. MaxNesting
  <2>1. T \in SUBSET (0 .. MaxNesting)
    OBVIOUS
  <2> HIDE DEF T
  <2> QED BY <1>0, <1>1, <1>2, <2>1, UpTo
<1>4. \E f : F(f, MaxNesting)
  BY <1>0, <1>3
<1>5. F(ElementsTo, MaxNesting)
  BY Zenon, <1>4 DEF ElementsTo, ElementsOn
<1> QED BY Zenon, <1>5

-----------------------------------------------------------------------------
DataClasses == {"Char", "Bool", "Float", "Integral", "Hash", "Pointer", "Smallstring"}

\* A type whose parts are of S
TypeOver(t, S) ==
  /\ t.class \in DataClasses \cup {"String", "Literal", "List", "Array", "Tuple"}
  /\ t.class \in DataClasses \cup {"String", "Literal"} => t.bytes \in Nat
  /\ t.class = "Literal" => t.chars \in Nat \ {0}
  /\ t.class \in {"List", "Array"} => t.elem \in S
  /\ t.class = "Array" => t.n \in Nat
  /\ t.class = "Tuple" => t.elems \in Seq(S)

\* A simple type has no parts.
LEMMA SimpleIs == ASSUME NEW S, NEW t \in SimpleTypes PROVE TypeOver(t, S)
<1>1. CASE t \in DataTypes
  BY <1>1 DEF DataTypes, TypeOver, DataClasses
<1>2. CASE t \in StringTypes
  BY <1>2 DEF StringTypes, TypeOver, DataClasses
<1>3. CASE t \in LiteralTypes
  BY <1>3 DEF LiteralTypes, TypeOver, DataClasses
<1> QED BY <1>1, <1>2, <1>3 DEF SimpleTypes

\* It is no container.
LEMMA SimpleClass == ASSUME NEW t \in SimpleTypes PROVE ~IsAggregate(t)
<1>1. t.class \in DataClasses \cup {"String", "Literal"}
  BY DEF SimpleTypes, DataTypes, StringTypes, LiteralTypes, DataClasses
<1> QED BY <1>1 DEF IsAggregate, IsList, DataClasses

\* A container has its parts.
LEMMA ContainerIs == ASSUME NEW S, NEW t \in Containers(S) PROVE TypeOver(t, S) /\ IsAggregate(t)
<1>1. CASE t \in [class : {"List"}, elem : S]
  BY <1>1 DEF TypeOver, DataClasses, IsAggregate, IsList
<1>2. CASE t \in [class : {"Array"}, elem : S, n : Nat]
  BY <1>2 DEF TypeOver, DataClasses, IsAggregate, IsList
<1>3. CASE t \in [class : {"Tuple"}, elems : Seq(S)]
  BY <1>3 DEF TypeOver, DataClasses, IsAggregate, IsList
<1> QED BY <1>1, <1>2, <1>3 DEF Containers

\* Containers of more types are more containers.
LEMMA ContainersGrow ==
  ASSUME NEW S, NEW R, S \subseteq R PROVE Containers(S) \subseteq Containers(R)
<1>1. Seq(S) \subseteq Seq(R)
  OBVIOUS
<1>2. [class : {"List"}, elem : S] \subseteq [class : {"List"}, elem : R]
  OBVIOUS
<1>3. [class : {"Array"}, elem : S, n : Nat] \subseteq [class : {"Array"}, elem : R, n : Nat]
  OBVIOUS
<1>4. [class : {"Tuple"}, elems : Seq(S)] \subseteq [class : {"Tuple"}, elems : Seq(R)]
  BY <1>1
<1> QED BY <1>2, <1>3, <1>4 DEF Containers

\* Types with fewer containers inside each other are types.
LEMMA TypesGrow ==
  /\ \A n \in 1 .. MaxNesting : ArgTypesTo[n - 1] \subseteq ArgTypesTo[n]
  /\ \A n \in 0 .. MaxNesting : ArgTypesTo[n] \subseteq ArgTypes
<1>0. MaxNesting \in Nat
  BY LogArgsAssumption
<1> DEFINE T == {n \in 0 .. MaxNesting : n = 0 \/ ArgTypesTo[n - 1] \subseteq ArgTypesTo[n]}
<1>1. 0 \in T
  BY <1>0
<1>2. ASSUME NEW n \in 1 .. MaxNesting, n - 1 \in T PROVE n \in T
  <2>1. n \in 0 .. MaxNesting /\ n - 1 \in 0 .. MaxNesting /\ n # 0
    BY <1>0
  <2>2. ArgTypesTo[n] = SimpleTypes \cup Containers(ArgTypesTo[n - 1])
    BY <2>1, TypesToIs
  <2>3. CASE n - 1 = 0
    <3>1. ArgTypesTo[n - 1] = SimpleTypes
      BY <2>1, <2>3, TypesToIs
    <3> QED BY <2>1, <2>2, <3>1
  <2>4. CASE n - 1 # 0
    <3>1. ArgTypesTo[n - 1] = SimpleTypes \cup Containers(ArgTypesTo[(n - 1) - 1])
      BY <2>1, <2>4, TypesToIs
    <3>2. ArgTypesTo[(n - 1) - 1] \subseteq ArgTypesTo[n - 1]
      BY <1>2, <2>4
    <3>3. Containers(ArgTypesTo[(n - 1) - 1]) \subseteq Containers(ArgTypesTo[n - 1])
      BY <3>2, ContainersGrow
    <3>4. ArgTypesTo[n - 1] \subseteq ArgTypesTo[n]
      BY <2>2, <3>1, <3>3
    <3> QED BY <2>1, <3>4
  <2> QED BY <2>3, <2>4
<1>3. T \in SUBSET (0 .. MaxNesting)
  OBVIOUS
<1> HIDE DEF T
<1>4. T = 0 .. MaxNesting
  BY <1>0, <1>1, <1>2, <1>3, UpTo
<1>5. ASSUME NEW n \in 1 .. MaxNesting PROVE ArgTypesTo[n - 1] \subseteq ArgTypesTo[n]
  <2>1. n \in T /\ n # 0
    BY <1>0, <1>4
  <2> QED BY <2>1 DEF T
<1> DEFINE U == {k \in 0 .. MaxNesting : ArgTypesTo[MaxNesting - k] \subseteq ArgTypes}
<1>6. 0 \in U
  BY <1>0 DEF ArgTypes
<1>7. ASSUME NEW k \in 1 .. MaxNesting, k - 1 \in U PROVE k \in U
  <2>1. PICK n : n = MaxNesting - (k - 1)
    OBVIOUS
  <2>2. n \in 1 .. MaxNesting /\ n - 1 = MaxNesting - k /\ k \in 0 .. MaxNesting
    BY <1>0, <2>1
  <2>3. ArgTypesTo[n] \subseteq ArgTypes
    BY <1>7, <2>1
  <2>4. ArgTypesTo[n - 1] \subseteq ArgTypesTo[n]
    BY <1>5, <2>2
  <2> QED BY <2>2, <2>3, <2>4
<1>8. U \in SUBSET (0 .. MaxNesting)
  OBVIOUS
<1> HIDE DEF U
<1>9. U = 0 .. MaxNesting
  BY <1>0, <1>6, <1>7, <1>8, UpTo
<1>10. ASSUME NEW n \in 0 .. MaxNesting PROVE ArgTypesTo[n] \subseteq ArgTypes
  <2>1. MaxNesting - n \in U /\ MaxNesting - (MaxNesting - n) = n
    BY <1>0, <1>9
  <2> QED BY <2>1 DEF U
<1> QED BY <1>5, <1>10

PartsOfType(t) == IF IsList(t) THEN {t.elem} ELSE IF t.class = "Tuple" THEN {t.elems[i] : i \in DOMAIN t.elems} ELSE {}

\* The parts of a type are types.
LEMMA TypeIs == ASSUME NEW t \in ArgTypes PROVE TypeOver(t, ArgTypes)
<1>0. MaxNesting \in Nat /\ MaxNesting \in 0 .. MaxNesting
  BY LogArgsAssumption
<1>1. CASE t \in SimpleTypes
  BY <1>1, SimpleIs
<1>2. CASE t \notin SimpleTypes
  <2>1. MaxNesting # 0 /\ t \in Containers(ArgTypesTo[MaxNesting - 1])
    BY <1>0, <1>2, TypesToIs DEF ArgTypes
  <2>2. ArgTypesTo[MaxNesting - 1] \subseteq ArgTypes
    BY <1>0, <2>1, TypesGrow
  <2> QED BY <2>1, <2>2, ContainersGrow, ContainerIs
<1> QED BY <1>1, <1>2

\* Its parts are where it says.
LEMMA TypeParts == ASSUME NEW S, NEW t, TypeOver(t, S) PROVE PartsOfType(t) \subseteq S
<1>1. CASE t.class = "Tuple"
  <2>1. t.elems \in Seq(S) /\ ~IsList(t)
    BY <1>1 DEF TypeOver, IsList
  <2>2. \A i \in DOMAIN t.elems : t.elems[i] \in S
    BY <2>1
  <2> QED BY <1>1, <2>1, <2>2 DEF PartsOfType
<1>2. CASE IsList(t)
  BY <1>2 DEF PartsOfType, TypeOver, IsList
<1> QED BY <1>1, <1>2 DEF PartsOfType

\* Types are trees.
LEMMA TypesAreTrees ==
  IsTree(ArgTypes, [t \in ArgTypes |-> PartsOfType(t)], [n \in 0 .. MaxNesting |-> ArgTypesTo[n]], MaxNesting)
<1> DEFINE P == [t \in ArgTypes |-> PartsOfType(t)]
           L == [n \in 0 .. MaxNesting |-> ArgTypesTo[n]]
<1>0. MaxNesting \in Nat /\ MaxNesting \in 0 .. MaxNesting
  BY LogArgsAssumption
<1>1. P \in [ArgTypes -> SUBSET ArgTypes]
  <2>1. \A t \in ArgTypes : PartsOfType(t) \in SUBSET ArgTypes
    BY TypeIs, TypeParts
  <2> QED BY <2>1
<1>2. L \in [0 .. MaxNesting -> SUBSET ArgTypes] /\ L[MaxNesting] = ArgTypes
  <2>1. \A n \in 0 .. MaxNesting : ArgTypesTo[n] \in SUBSET ArgTypes
    BY TypesGrow
  <2> QED BY <1>0, <2>1 DEF ArgTypes
<1>3. ASSUME NEW t \in L[0] PROVE P[t] = {}
  <2>1. t \in SimpleTypes
    BY <1>0, TypesToIs
  <2>2. t \in ArgTypes
    BY <1>0, <1>2, <1>3
  <2>3. PartsOfType(t) = {}
    BY <2>1, SimpleClass DEF PartsOfType, IsAggregate
  <2> QED BY <2>2, <2>3
<1>4. ASSUME NEW n \in 1 .. MaxNesting, NEW t \in L[n] PROVE P[t] \subseteq L[n - 1]
  <2>1. n \in 0 .. MaxNesting /\ n - 1 \in 0 .. MaxNesting /\ n # 0
    BY <1>0
  <2>2. t \in ArgTypes /\ t \in ArgTypesTo[n]
    BY <1>2, <1>4, <2>1
  <2>3. t \in SimpleTypes \cup Containers(ArgTypesTo[n - 1])
    BY <2>1, <2>2, TypesToIs
  <2>4. TypeOver(t, ArgTypesTo[n - 1])
    BY <2>3, SimpleIs, ContainerIs
  <2>5. PartsOfType(t) \subseteq ArgTypesTo[n - 1]
    BY <2>4, TypeParts
  <2> QED BY <2>1, <2>2, <2>5
<1> HIDE DEF P, L
<1>5. IsTree(ArgTypes, P, L, MaxNesting)
  BY Zenon, <1>0, <1>1, <1>2, <1>3, <1>4 DEF IsTree
<1> QED BY <1>5 DEF P, L

-----------------------------------------------------------------------------
\* An element whose parts are of S
ElementOver(a, S) ==
  /\ a.type \in ArgTypes /\ IsArg(a)
  /\ ~IsAggregate(a.type) => a.value \in Nat
  /\ IsAggregate(a.type) => a.elems \in Seq(S)

PartsOfElement(a) == IF IsAggregate(a.type) THEN {a.elems[i] : i \in DOMAIN a.elems} ELSE {}

\* Simple types are types.
LEMMA SimpleTypesAre == SimpleTypes \subseteq ArgTypes
<1>1. MaxNesting \in 0 .. MaxNesting
  BY LogArgsAssumption
<1> QED BY <1>1, TypesToIs DEF ArgTypes

\* What an element is, level by level.
LEMMA ElementsOnAre ==
  ASSUME NEW n \in 0 .. MaxNesting, NEW S, NEW a \in ElementsOn(n, S)
  PROVE  ElementOver(a, S) /\ (n = 0 => ~IsAggregate(a.type))
<1>0. MaxNesting \in Nat
  BY LogArgsAssumption
<1>1. CASE a \in {b \in [type : SimpleTypes, value : Nat] : IsArg(b)}
  <2>1. a.type \in SimpleTypes /\ a.value \in Nat /\ IsArg(a)
    BY <1>1
  <2> QED BY <2>1, SimpleTypesAre, SimpleClass DEF ElementOver
<1>2. CASE n # 0 /\ a \in {b \in [type : Containers(ArgTypesTo[n - 1]), elems : Seq(S)] : IsArg(b)}
  <2>1. a.type \in Containers(ArgTypesTo[n - 1]) /\ a.elems \in Seq(S) /\ IsArg(a)
    BY <1>2
  <2>2. n - 1 \in 0 .. MaxNesting /\ n \in 0 .. MaxNesting
    BY <1>0, <1>2
  <2>3. ArgTypesTo[n] = SimpleTypes \cup Containers(ArgTypesTo[n - 1])
    BY <1>2, <2>2, TypesToIs
  <2>4. ArgTypesTo[n] \subseteq ArgTypes
    BY <2>2, TypesGrow
  <2>5. a.type \in ArgTypes
    BY <2>1, <2>3, <2>4
  <2> QED BY <1>2, <2>1, <2>5, ContainerIs DEF ElementOver
<1> QED BY <1>1, <1>2 DEF ElementsOn

\* Elements of more parts are more elements.
LEMMA ElementsOnGrow ==
  ASSUME NEW n \in 1 .. MaxNesting, NEW S, NEW R, S \subseteq R
  PROVE  ElementsOn(n, S) \subseteq ElementsOn(n, R)
<1>1. Seq(S) \subseteq Seq(R)
  OBVIOUS
<1>2. n # 0
  BY LogArgsAssumption
<1>3. [type : Containers(ArgTypesTo[n - 1]), elems : Seq(S)] \subseteq [type : Containers(ArgTypesTo[n - 1]), elems : Seq(R)]
  BY <1>1
<1> QED BY <1>2, <1>3 DEF ElementsOn

\* Elements of a level are elements of the next.
LEMMA ElementsOnUp ==
  ASSUME NEW n \in 1 .. MaxNesting, NEW S, NEW R, n - 1 # 0 => S \subseteq R
  PROVE  ElementsOn(n - 1, S) \subseteq ElementsOn(n, R)
<1>1. n \in Nat /\ n # 0
  BY LogArgsAssumption
<1>2. CASE n - 1 = 0
  BY <1>1, <1>2 DEF ElementsOn
<1>3. CASE n - 1 # 0
  <2>0. n - 1 \in 1 .. MaxNesting
    BY <1>1, <1>3, LogArgsAssumption
  <2>1. ArgTypesTo[(n - 1) - 1] \subseteq ArgTypesTo[n - 1]
    BY <2>0, TypesGrow
  <2>2. Containers(ArgTypesTo[(n - 1) - 1]) \subseteq Containers(ArgTypesTo[n - 1]) /\ Seq(S) \subseteq Seq(R)
    BY <1>3, <2>1, ContainersGrow
  <2>3. [type : Containers(ArgTypesTo[(n - 1) - 1]), elems : Seq(S)] \subseteq [type : Containers(ArgTypesTo[n - 1]), elems : Seq(R)]
    BY <2>2
  <2> QED BY <1>1, <1>3, <2>3 DEF ElementsOn
<1> QED BY <1>2, <1>3

\* Elements with fewer containers inside each other are elements.
LEMMA ElementsGrow ==
  /\ \A n \in 1 .. MaxNesting : ElementsTo[n - 1] \subseteq ElementsTo[n]
  /\ \A n \in 0 .. MaxNesting : ElementsTo[n] \subseteq Elements
<1>0. MaxNesting \in Nat
  BY LogArgsAssumption
<1> DEFINE T == {n \in 0 .. MaxNesting : n = 0 \/ ElementsTo[n - 1] \subseteq ElementsTo[n]}
<1>1. 0 \in T
  BY <1>0
<1>2. ASSUME NEW n \in 1 .. MaxNesting, n - 1 \in T PROVE n \in T
  <2>1. n \in 0 .. MaxNesting /\ n - 1 \in 0 .. MaxNesting /\ n # 0
    BY <1>0
  <2>2. ElementsTo[n] = ElementsOn(n, ElementsTo[n - 1]) /\ ElementsTo[n - 1] = ElementsOn(n - 1, ElementsTo[(n - 1) - 1])
    BY <2>1, ElementsToIs
  <2>3. n - 1 # 0 => ElementsTo[(n - 1) - 1] \subseteq ElementsTo[n - 1]
    BY <1>2
  <2>4. ElementsTo[n - 1] \subseteq ElementsTo[n]
    BY <2>2, <2>3, ElementsOnUp
  <2> QED BY <2>1, <2>4
<1>3. T \in SUBSET (0 .. MaxNesting)
  OBVIOUS
<1> HIDE DEF T
<1>4. T = 0 .. MaxNesting
  BY <1>0, <1>1, <1>2, <1>3, UpTo
<1>5. ASSUME NEW n \in 1 .. MaxNesting PROVE ElementsTo[n - 1] \subseteq ElementsTo[n]
  <2>1. n \in T /\ n # 0
    BY <1>0, <1>4
  <2> QED BY <2>1 DEF T
<1> DEFINE U == {k \in 0 .. MaxNesting : ElementsTo[MaxNesting - k] \subseteq Elements}
<1>6. 0 \in U
  BY <1>0 DEF Elements
<1>7. ASSUME NEW k \in 1 .. MaxNesting, k - 1 \in U PROVE k \in U
  <2>1. PICK n : n = MaxNesting - (k - 1)
    OBVIOUS
  <2>2. n \in 1 .. MaxNesting /\ n - 1 = MaxNesting - k /\ k \in 0 .. MaxNesting
    BY <1>0, <2>1
  <2>3. ElementsTo[n] \subseteq Elements
    BY <1>7, <2>1
  <2>4. ElementsTo[n - 1] \subseteq ElementsTo[n]
    BY <1>5, <2>2
  <2> QED BY <2>2, <2>3, <2>4
<1>8. U \in SUBSET (0 .. MaxNesting)
  OBVIOUS
<1> HIDE DEF U
<1>9. U = 0 .. MaxNesting
  BY <1>0, <1>6, <1>7, <1>8, UpTo
<1>10. ASSUME NEW n \in 0 .. MaxNesting PROVE ElementsTo[n] \subseteq Elements
  <2>1. MaxNesting - n \in U /\ MaxNesting - (MaxNesting - n) = n
    BY <1>0, <1>9
  <2> QED BY <2>1 DEF U
<1> QED BY <1>5, <1>10

\* The parts of an element are where it says.
LEMMA ElementParts == ASSUME NEW S, NEW a, ElementOver(a, S) PROVE PartsOfElement(a) \subseteq S
<1>1. CASE IsAggregate(a.type)
  <2>1. a.elems \in Seq(S)
    BY <1>1 DEF ElementOver
  <2>2. \A i \in DOMAIN a.elems : a.elems[i] \in S
    BY <2>1
  <2> QED BY <1>1, <2>1, <2>2 DEF PartsOfElement
<1> QED BY <1>1 DEF PartsOfElement

\* What is at a level has its parts on the level below.
LEMMA ElementAt ==
  ASSUME NEW n \in 0 .. MaxNesting, NEW a \in ElementsTo[n]
  PROVE  /\ a \in Elements
         /\ n = 0 => PartsOfElement(a) = {}
         /\ n # 0 => ElementOver(a, ElementsTo[n - 1])
<1>1. a \in Elements
  BY ElementsGrow
<1>2. a \in ElementsOn(n, ElementsTo[n - 1])
  BY ElementsToIs
<1> QED BY <1>1, <1>2, ElementsOnAre DEF PartsOfElement

\* The parts of an element are elements.
LEMMA ElementIs == ASSUME NEW a \in Elements PROVE ElementOver(a, Elements)
<1>0. MaxNesting \in Nat /\ MaxNesting \in 0 .. MaxNesting
  BY LogArgsAssumption
<1>1. a \in ElementsOn(MaxNesting, ElementsTo[MaxNesting - 1])
  BY <1>0, ElementsToIs DEF Elements
<1>2. CASE MaxNesting = 0
  <2>1. ElementOver(a, ElementsTo[MaxNesting - 1]) /\ ~IsAggregate(a.type)
    BY <1>0, <1>1, <1>2, ElementsOnAre
  <2> QED BY <2>1 DEF ElementOver
<1>3. CASE MaxNesting # 0
  <2>1. MaxNesting - 1 \in 0 .. MaxNesting /\ MaxNesting \in 1 .. MaxNesting
    BY <1>0, <1>3
  <2>2. ElementsTo[MaxNesting - 1] \subseteq Elements
    BY <2>1, ElementsGrow
  <2>3. a \in ElementsOn(MaxNesting, Elements)
    BY <1>1, <2>1, <2>2, ElementsOnGrow
  <2> QED BY <1>0, <2>3, ElementsOnAre
<1> QED BY <1>2, <1>3

\* Elements are trees.
LEMMA ElementsAreTrees ==
  IsTree(Elements, [a \in Elements |-> PartsOfElement(a)], [n \in 0 .. MaxNesting |-> ElementsTo[n]], MaxNesting)
<1> DEFINE P == [a \in Elements |-> PartsOfElement(a)]
           L == [n \in 0 .. MaxNesting |-> ElementsTo[n]]
<1>0. MaxNesting \in Nat /\ MaxNesting \in 0 .. MaxNesting
  BY LogArgsAssumption
<1>1. P \in [Elements -> SUBSET Elements]
  <2>1. \A a \in Elements : PartsOfElement(a) \in SUBSET Elements
    BY ElementIs, ElementParts
  <2> QED BY <2>1
<1>2. L \in [0 .. MaxNesting -> SUBSET Elements] /\ L[MaxNesting] = Elements
  <2>1. \A n \in 0 .. MaxNesting : ElementsTo[n] \in SUBSET Elements
    BY ElementsGrow
  <2> QED BY <1>0, <2>1 DEF Elements
<1>3. ASSUME NEW a \in L[0] PROVE P[a] = {}
  <2>1. 0 \in 0 .. MaxNesting /\ a \in ElementsTo[0]
    BY <1>0
  <2>2. a \in Elements /\ PartsOfElement(a) = {}
    BY <2>1, ElementAt
  <2> QED BY <2>2
<1>4. ASSUME NEW n \in 1 .. MaxNesting, NEW a \in L[n] PROVE P[a] \subseteq L[n - 1]
  <2>1. n \in 0 .. MaxNesting /\ n - 1 \in 0 .. MaxNesting /\ n # 0
    BY <1>0
  <2>2. a \in ElementsTo[n]
    BY <1>4, <2>1
  <2>3. a \in Elements /\ ElementOver(a, ElementsTo[n - 1])
    BY <2>1, <2>2, ElementAt
  <2>4. PartsOfElement(a) \subseteq ElementsTo[n - 1]
    BY <2>3, ElementParts
  <2> QED BY <2>1, <2>3, <2>4
<1> HIDE DEF P, L
<1>5. IsTree(Elements, P, L, MaxNesting)
  BY Zenon, <1>0, <1>1, <1>2, <1>3, <1>4 DEF IsTree
<1> QED BY <1>5 DEF P, L

-----------------------------------------------------------------------------
\* f[k] is the sum of the first k of numbers.
IsSums(f, numbers) ==
  /\ f \in [0 .. Len(numbers) -> Nat] /\ f[0] = 0
  /\ \A k \in 1 .. Len(numbers) : f[k] = f[k - 1] + numbers[k]

\* A sum is the last of the sums of the first numbers.
LEMMA SumIs == ASSUME NEW s \in Seq(Nat) PROVE \E f : IsSums(f, s) /\ Sum(s) = f[Len(s)]
<1> DEFINE n == Len(s)
           G == [x \in Nat \X Nat |-> IF x[1] \in 1 .. n THEN x[2] + s[x[1]] ELSE 0]
           F(f) == f = [k \in 0 .. n |-> IF k = 0 THEN 0 ELSE f[k - 1] + s[k]]
           h == CHOOSE f : F(f)
<1>1. n \in Nat /\ \A k \in 1 .. n : s[k] \in Nat
  OBVIOUS
<1>2. G \in [Nat \X Nat -> Nat]
  OBVIOUS
<1>3. PICK f \in [0 .. n -> Nat] : Turns(f, G, 0, n)
  <2> HIDE DEF G, n
  <2> QED BY <1>1, <1>2, TurnsExist
<1>4. f[0] = 0 /\ \A k \in 1 .. n : f[k] = f[k - 1] + s[k]
  <2>1. ASSUME NEW k \in 1 .. n PROVE f[k] = f[k - 1] + s[k]
    <3>1. f[k] = G[<<k, f[k - 1]>>]
      BY <1>3 DEF Turns
    <3>2. k \in Nat /\ k - 1 \in 0 .. n
      BY <1>1
    <3>3. f[k - 1] \in Nat
      BY <1>3, <3>2
    <3> QED BY <3>1, <3>2, <3>3
  <2> QED BY <1>3, <2>1 DEF Turns
<1>5. F(f)
  <2>1. ASSUME NEW k \in 0 .. n PROVE f[k] = IF k = 0 THEN 0 ELSE f[k - 1] + s[k]
    BY <1>1, <1>4
  <2>2. f = [k \in 0 .. n |-> f[k]]
    BY <1>3
  <2> QED BY Zenon, <2>1, <2>2
<1>6. F(h)
  BY Zenon, <1>5
<1>7. Sum(s) = h[n]
  BY DEF Sum
<1> HIDE DEF h
<1>8. h[0] = 0 /\ \A k \in 1 .. n : h[k] = h[k - 1] + s[k]
  BY <1>1, <1>6, SMTT(60)
<1> DEFINE T == {k \in 0 .. n : h[k] = f[k]}
<1>9. 0 \in T
  BY <1>1, <1>4, <1>8
<1>10. ASSUME NEW k \in 1 .. n, k - 1 \in T PROVE k \in T
  <2>1. h[k] = f[k]
    BY <1>4, <1>8, <1>10
  <2> QED BY <2>1
<1>11. T \in SUBSET (0 .. n)
  OBVIOUS
<1> HIDE DEF T, n
<1>12. T = 0 .. n
  BY <1>1, <1>9, <1>10, <1>11, UpTo
<1>13. h[n] = f[n]
  <2>1. n \in T
    BY <1>1, <1>12
  <2> QED BY <2>1 DEF T
<1>14. IsSums(f, s)
  BY <1>3, <1>4 DEF IsSums, n
<1> QED BY <1>7, <1>13, <1>14 DEF n

\* Sums are numbers.
LEMMA SumIsNat == ASSUME NEW s \in Seq(Nat) PROVE Sum(s) \in Nat
<1>1. PICK f : IsSums(f, s) /\ Sum(s) = f[Len(s)]
  BY SumIs
<1>2. Len(s) \in 0 .. Len(s)
  OBVIOUS
<1> QED BY <1>1, <1>2 DEF IsSums

\* A sum of numbers is the sum of two.
LEMMA SumOfBoth ==
  ASSUME NEW s \in Seq(Nat), NEW t \in Seq(Nat), NEW u \in Seq(Nat), Len(s) = Len(u), Len(t) = Len(u),
         \A i \in 1 .. Len(u) : u[i] = s[i] + t[i]
  PROVE  Sum(u) = Sum(s) + Sum(t)
<1>1. PICK f : IsSums(f, s) /\ Sum(s) = f[Len(s)]
  BY SumIs
<1>2. PICK g : IsSums(g, t) /\ Sum(t) = g[Len(t)]
  BY SumIs
<1>3. PICK h : IsSums(h, u) /\ Sum(u) = h[Len(u)]
  BY SumIs
<1>4. PICK n \in Nat : n = Len(u)
  OBVIOUS
<1> DEFINE T == {k \in 0 .. n : h[k] = f[k] + g[k]}
<1>5. 0 \in T
  BY <1>1, <1>2, <1>3 DEF IsSums
<1>6. ASSUME NEW k \in 1 .. n, k - 1 \in T PROVE k \in T
  <2>1. f[k] = f[k - 1] + s[k] /\ g[k] = g[k - 1] + t[k] /\ h[k] = h[k - 1] + u[k] /\ u[k] = s[k] + t[k]
    BY <1>1, <1>2, <1>3, <1>4 DEF IsSums
  <2>2. s[k] \in Nat /\ t[k] \in Nat /\ k - 1 \in 0 .. n
    BY <1>4
  <2>3. f[k - 1] \in Nat /\ g[k - 1] \in Nat
    BY <1>1, <1>2, <1>4, <2>2 DEF IsSums
  <2>4. h[k] = f[k] + g[k]
    BY <1>6, <2>1, <2>2, <2>3, SMTT(60)
  <2> QED BY <2>4
<1>7. T \in SUBSET (0 .. n)
  OBVIOUS
<1> HIDE DEF T
<1>8. n \in T
  <2>1. T = 0 .. n
    BY <1>5, <1>6, <1>7, UpTo
  <2> QED BY <2>1
<1> QED BY <1>1, <1>2, <1>3, <1>4, <1>8 DEF T

\* A sum of numbers that are all the same.
LEMMA SumOfSame ==
  ASSUME NEW c \in Nat, NEW u \in Seq(Nat), \A i \in 1 .. Len(u) : u[i] = c
  PROVE  Sum(u) = Len(u) * c
<1>3. PICK h : IsSums(h, u) /\ Sum(u) = h[Len(u)]
  BY SumIs
<1>4. PICK n \in Nat : n = Len(u)
  OBVIOUS
<1> DEFINE T == {k \in 0 .. n : h[k] = k * c}
<1>5. 0 \in T
  BY <1>3 DEF IsSums
<1>6. ASSUME NEW k \in 1 .. n, k - 1 \in T PROVE k \in T
  <2>1. h[k] = h[k - 1] + c
    BY <1>3, <1>4 DEF IsSums
  <2>2. (k - 1) * c + c = k * c
    BY SMT
  <2> QED BY <1>6, <2>1, <2>2
<1>7. T \in SUBSET (0 .. n)
  OBVIOUS
<1> HIDE DEF T
<1>8. n \in T
  <2>1. T = 0 .. n
    BY <1>5, <1>6, <1>7, UpTo
  <2> QED BY <2>1
<1> QED BY <1>3, <1>4, <1>8 DEF T

\* A product of a sum.
LEMMA Distributed == \A c \in Nat, a \in Nat, b \in Nat : c * (a + b) = c * a + c * b /\ c * a \in Nat
BY SMT

\* Joined, sequences are as long as all of them.
LEMMA FlattenLen ==
  ASSUME NEW S, NEW ss \in Seq(Seq(S)), NEW c \in Nat, NEW u \in Seq(Nat), Len(u) = Len(ss),
         \A i \in 1 .. Len(ss) : u[i] = c * Len(ss[i])
  PROVE  FlattenSeq(ss) \in Seq(S) /\ c * Len(FlattenSeq(ss)) = Sum(u)
<1>3. PICK h : IsSums(h, u) /\ Sum(u) = h[Len(u)]
  BY SumIs
<1>4. PICK n \in Nat : n = Len(u)
  OBVIOUS
<1>5. CASE ss = <<>>
  <2>1. n = 0 /\ FlattenSeq(ss) = <<>>
    BY <1>4, <1>5 DEF FlattenSeq
  <2>2. Sum(u) = 0
    BY <1>3, <1>4, <2>1 DEF IsSums
  <2>3. FlattenSeq(ss) \in Seq(S) /\ Len(FlattenSeq(ss)) = 0
    BY <2>1
  <2> QED BY <2>2, <2>3
<1>6. CASE ss # <<>>
  <2>1. PICK f \in [1 .. Len(ss) -> Seq(S)] : IsFlat(ss, f, Len(ss)) /\ FlattenSeq(ss) = f[Len(ss)]
    BY <1>6, FlattenIs
  <2>2. n >= 1
    BY <1>4, <1>6
  <2> DEFINE T == {k \in 0 .. n : k = 0 \/ c * Len(f[k]) = h[k]}
  <2>3. 0 \in T
    OBVIOUS
  <2>4. ASSUME NEW k \in 1 .. n, k - 1 \in T PROVE k \in T
    <3>0. ss[k] \in Seq(S) /\ f[k] \in Seq(S) /\ k \in 0 .. n
      <4>1. PICK R : R = Seq(S)
        OBVIOUS
      <4>2. ss \in Seq(R) /\ f \in [1 .. n -> R] /\ Len(ss) = n
        BY <1>4, <2>1, <4>1
      <4>3. ss[k] \in R /\ f[k] \in R
        BY <4>2
      <4> QED BY <4>1, <4>3
    <3>1. h[k] = h[k - 1] + u[k] /\ u[k] = c * Len(ss[k]) /\ h[0] = 0
      BY <1>3, <1>4 DEF IsSums
    <3>5. Len(ss[k]) \in Nat
      BY <3>0
    <3>2. f[k] = IF k = 1 THEN ss[k] ELSE f[k - 1] \o ss[k]
      BY <1>4, <2>1 DEF IsFlat
    <3>3. CASE k = 1
      <4>1. h[k] = 0 + c * Len(ss[k]) /\ f[k] = ss[k]
        BY <3>1, <3>2, <3>3
      <4>2. c * Len(ss[k]) \in Nat
        BY <3>5, Distributed
      <4>3. c * Len(f[k]) = h[k]
        BY <4>1, <4>2
      <4> QED BY <3>0, <4>3
    <3>4. CASE k # 1
      <4>1. k - 1 \in 1 .. n /\ c * Len(f[k - 1]) = h[k - 1]
        BY <2>4, <3>4
      <4>2. f[k - 1] \in Seq(S) /\ f[k] = f[k - 1] \o ss[k]
        BY <1>4, <2>1, <3>2, <3>4, <4>1
      <4>3. Len(f[k]) = Len(f[k - 1]) + Len(ss[k]) /\ Len(f[k - 1]) \in Nat /\ Len(ss[k]) \in Nat
        BY <3>0, <4>2, ConcatLen
      <4>4. c * Len(f[k]) = c * Len(f[k - 1]) + c * Len(ss[k])
        <5>1. PICK a \in Nat, b \in Nat : a = Len(f[k - 1]) /\ b = Len(ss[k])
          BY <4>3
        <5>2. c * (a + b) = c * a + c * b
          BY Zenon, Distributed
        <5>3. Len(f[k]) = a + b
          BY <4>3, <5>1
        <5> QED BY Zenon, <5>1, <5>2, <5>3
      <4>5. c * Len(f[k]) = h[k]
        BY <3>1, <4>1, <4>4
      <4> QED BY <3>0, <4>5
    <3> QED BY <3>3, <3>4
  <2>5. T \in SUBSET (0 .. n)
    OBVIOUS
  <2> HIDE DEF T
  <2>6. n \in T
    <3>1. T = 0 .. n
      BY <2>3, <2>4, <2>5, UpTo
    <3> QED BY <3>1
  <2>7. c * Len(f[n]) = h[n]
    BY <2>2, <2>6 DEF T
  <2>8. f[n] \in Seq(S)
    BY <1>4, <2>1, <2>2, SMTT(60)
  <2> QED BY <1>3, <1>4, <2>1, <2>7, <2>8
<1> QED BY <1>5, <1>6

-----------------------------------------------------------------------------
\* Of functions that agree on the parts, what is made of their values agrees.
LEMMA TypePartsAgree ==
  ASSUME NEW t \in ArgTypes, NEW f, NEW g, AgreeOn(f, g, PartsOfType(t))
  PROVE  /\ IsList(t) => f[t.elem] = g[t.elem]
         /\ t.class = "Tuple" => [i \in DOMAIN t.elems |-> f[t.elems[i]]] = [i \in DOMAIN t.elems |-> g[t.elems[i]]]
<1>1. CASE IsList(t)
  <2>1. t.class # "Tuple"
    BY <1>1 DEF IsList
  <2> QED BY <1>1, <2>1 DEF AgreeOn, PartsOfType
<1>2. CASE t.class = "Tuple"
  <2>1. ~IsList(t)
    BY <1>2 DEF IsList
  <2>2. \A i \in DOMAIN t.elems : f[t.elems[i]] = g[t.elems[i]]
    BY <1>2, <2>1 DEF AgreeOn, PartsOfType
  <2> QED BY <2>1, <2>2
<1> QED BY <1>1, <1>2

\* It is so with the elements of a container.
LEMMA ElementPartsAgree ==
  ASSUME NEW a \in Elements, NEW f, NEW g, AgreeOn(f, g, PartsOfElement(a)), IsAggregate(a.type)
  PROVE  [i \in DOMAIN a.elems |-> f[a.elems[i]]] = [i \in DOMAIN a.elems |-> g[a.elems[i]]]
<1>1. \A i \in DOMAIN a.elems : f[a.elems[i]] = g[a.elems[i]]
  BY DEF AgreeOn, PartsOfElement
<1> QED BY <1>1

\* The values for a sequence are a sequence.
Mapped(f, s) == [i \in DOMAIN s |-> f[s[i]]]

\* Values, one for each of a sequence.
LEMMA MapIs ==
  ASSUME NEW S, NEW V, NEW f \in [S -> V], NEW s \in Seq(S)
  PROVE  /\ Mapped(f, s) \in Seq(V) /\ Len(Mapped(f, s)) = Len(s)
         /\ \A i \in 1 .. Len(s) : s[i] \in S /\ Mapped(f, s)[i] = f[s[i]]
<1>1. PICK n \in Nat : n = Len(s)
  OBVIOUS
<1>2. DOMAIN s = 1 .. n /\ \A i \in 1 .. n : s[i] \in S
  BY <1>1
<1>3. Mapped(f, s) \in [1 .. n -> V] /\ \A i \in 1 .. n : Mapped(f, s)[i] = f[s[i]]
  BY <1>2 DEF Mapped
<1>4. Mapped(f, s) \in Seq(V)
  BY <1>3
<1> QED BY <1>1, <1>2, <1>3, <1>4

-----------------------------------------------------------------------------
\* Each recursive function is the one its definition says.
SizeKnownStep(f, t) ==
  /\ ~(t.class \in {"String", "List"})
  /\ t.class = "Array" => f[t.elem]
  /\ t.class = "Tuple" => \A i \in DOMAIN t.elems : f[t.elems[i]]

\* Whether a size is known depends on the parts.
LEMMA SizeKnownLocal ==
  ASSUME NEW t \in ArgTypes, NEW f, NEW g, AgreeOn(f, g, PartsOfType(t))
  PROVE  SizeKnownStep(f, t) = SizeKnownStep(g, t)
<1>1. t.class = "Array" => f[t.elem] = g[t.elem]
  BY TypePartsAgree DEF IsList
<1>2. t.class = "Tuple" => \A i \in DOMAIN t.elems : f[t.elems[i]] = g[t.elems[i]]
  BY DEF AgreeOn, PartsOfType, IsList
<1> QED BY Zenon, <1>1, <1>2 DEF SizeKnownStep

\* It is known or not.
LEMMA SizeKnownIn ==
  ASSUME NEW t \in ArgTypes, NEW f \in [ArgTypes -> BOOLEAN] PROVE SizeKnownStep(f, t) \in BOOLEAN
BY Zenon DEF SizeKnownStep

\* Whether a size is known is what the definition says.
LEMMA SizeKnownIs ==
  SizeKnown \in [ArgTypes -> BOOLEAN] /\ \A e \in ArgTypes : SizeKnown[e] = SizeKnownStep(SizeKnown, e)
<1> DEFINE P == [e \in ArgTypes |-> PartsOfType(e)]
           L == [n \in 0 .. MaxNesting |-> ArgTypesTo[n]]
           V == BOOLEAN
           G == [x \in [ArgTypes -> V] \X ArgTypes |-> SizeKnownStep(x[1], x[2])]
<1>1. IsTree(ArgTypes, P, L, MaxNesting)
  BY TypesAreTrees
<1>2. PICK v : v \in V
  <2>1. TRUE \in V
    BY SMT
  <2> QED BY <2>1
<1>3. G \in [[ArgTypes -> V] \X ArgTypes -> V]
  <2>1. ASSUME NEW x \in [ArgTypes -> V] \X ArgTypes PROVE SizeKnownStep(x[1], x[2]) \in V
    <3>1. x[1] \in [ArgTypes -> V] /\ x[2] \in ArgTypes
      OBVIOUS
    <3> QED BY <3>1, SizeKnownIn
  <2> HIDE DEF V
  <2> QED BY <2>1
<1>4. IsLocal(G, P, ArgTypes, V)
  <2>1. ASSUME NEW f \in [ArgTypes -> V], NEW g \in [ArgTypes -> V], NEW e \in ArgTypes, AgreeOn(f, g, P[e])
        PROVE  G[<<f, e>>] = G[<<g, e>>]
    <3>1. SizeKnownStep(f, e) = SizeKnownStep(g, e)
      BY <2>1, SizeKnownLocal
    <3> QED BY <2>1, <3>1
  <2> HIDE DEF P, L, G
  <2> QED BY <2>1 DEF IsLocal
<1> HIDE DEF P, L, G, V
<1>5. PICK f \in [ArgTypes -> V] : f = [e \in ArgTypes |-> G[<<f, e>>]]
  BY <1>1, <1>2, <1>3, <1>4, TreeFunction
<1>6. f = [e \in ArgTypes |-> SizeKnownStep(f, e)]
  <2>1. \A e \in ArgTypes : G[<<f, e>>] = SizeKnownStep(f, e)
    BY DEF G
  <2> QED BY <1>5, <2>1
<1>7. SizeKnown = [e \in ArgTypes |-> SizeKnownStep(SizeKnown, e)]
  <2> DEFINE F(h) == h = [e \in ArgTypes |-> SizeKnownStep(h, e)]
             c == CHOOSE h : F(h)
  <2>1. SizeKnown = c
    BY Zenon DEF SizeKnown, SizeKnownStep
  <2>2. F(f)
    BY <1>6
  <2>3. F(c)
    BY Zenon, <2>2
  <2> HIDE DEF c
  <2> QED BY Zenon, <2>1, <2>3
<1> DEFINE T == {e \in ArgTypes : SizeKnown[e] = f[e]}
<1>8. ASSUME NEW e \in ArgTypes, P[e] \subseteq T PROVE e \in T
  <2>1. AgreeOn(SizeKnown, f, PartsOfType(e))
    BY <1>8 DEF P, AgreeOn
  <2>2. SizeKnownStep(SizeKnown, e) = SizeKnownStep(f, e)
    BY <2>1, SizeKnownLocal
  <2>3. SizeKnown[e] = SizeKnownStep(SizeKnown, e) /\ f[e] = SizeKnownStep(f, e)
    BY <1>6, <1>7
  <2> QED BY <2>2, <2>3
<1>9. T \in SUBSET ArgTypes
  OBVIOUS
<1> HIDE DEF T
<1>10. T = ArgTypes
  BY <1>1, <1>8, <1>9, TreeInduction
<1>11. \A e \in ArgTypes : SizeKnown[e] = f[e]
  BY <1>10 DEF T
<1>12. SizeKnown = f
  BY <1>6, <1>7, <1>11
<1> QED BY <1>7, <1>12 DEF V

-----------------------------------------------------------------------------
\* Joined, sequences are a sequence.
LEMMA FlattenIn == ASSUME NEW S, NEW ss \in Seq(Seq(S)) PROVE FlattenSeq(ss) \in Seq(S)
<1>1. CASE ss = <<>>
  BY <1>1 DEF FlattenSeq
<1>2. CASE ss # <<>>
  <2>1. PICK f \in [1 .. Len(ss) -> Seq(S)] : FlattenSeq(ss) = f[Len(ss)]
    BY <1>2, FlattenIs
  <2>2. Len(ss) \in 1 .. Len(ss)
    BY <1>2
  <2> QED BY <2>1, <2>2
<1> QED BY <1>1, <1>2

\* The elements of a signature
Codes == Nat \cup {ElementType(t) + Metadata(t) : t \in ArgTypes}

SignatureStep(f, t) ==
  LET head == ElementType(t) + Metadata(t)
  IN  CASE IsList(t)         -> <<head>> \o f[t.elem]
        [] t.class = "Tuple" -> <<head, Len(t.elems)>> \o FlattenSeq([i \in DOMAIN t.elems |-> f[t.elems[i]]])
        [] OTHER             -> <<head>>

\* A signature depends on those of the parts.
LEMMA SignatureLocal ==
  ASSUME NEW t \in ArgTypes, NEW f, NEW g, AgreeOn(f, g, PartsOfType(t))
  PROVE  SignatureStep(f, t) = SignatureStep(g, t)
<1> DEFINE head == ElementType(t) + Metadata(t)
<1> HIDE DEF head
<1>1. CASE IsList(t)
  <2>1. f[t.elem] = g[t.elem]
    BY <1>1, TypePartsAgree
  <2>2. SignatureStep(f, t) = <<head>> \o f[t.elem] /\ SignatureStep(g, t) = <<head>> \o g[t.elem]
    BY <1>1 DEF SignatureStep, IsList, head
  <2> QED BY <2>1, <2>2
<1>2. CASE t.class = "Tuple"
  <2>1. [i \in DOMAIN t.elems |-> f[t.elems[i]]] = [i \in DOMAIN t.elems |-> g[t.elems[i]]]
    BY <1>2, TypePartsAgree
  <2>2. /\ SignatureStep(f, t) = <<head, Len(t.elems)>> \o FlattenSeq([i \in DOMAIN t.elems |-> f[t.elems[i]]])
        /\ SignatureStep(g, t) = <<head, Len(t.elems)>> \o FlattenSeq([i \in DOMAIN t.elems |-> g[t.elems[i]]])
    BY <1>2 DEF SignatureStep, IsList, head
  <2> QED BY Zenon, <2>1, <2>2
<1>3. CASE ~IsList(t) /\ t.class # "Tuple"
  BY <1>3 DEF SignatureStep
<1> QED BY <1>1, <1>2, <1>3

\* It is a sequence of codes.
LEMMA SignatureIn ==
  ASSUME NEW t \in ArgTypes, NEW f \in [ArgTypes -> Seq(Codes)] PROVE SignatureStep(f, t) \in Seq(Codes)
<1> DEFINE head == ElementType(t) + Metadata(t)
<1>0. head \in Codes
  BY DEF Codes
<1> HIDE DEF head
<1>4. PICK R : R = Codes
  OBVIOUS
<1>1. CASE IsList(t)
  <2>1. t.elem \in ArgTypes
    BY <1>1, TypeIs DEF TypeOver, IsList
  <2>2. SignatureStep(f, t) = <<head>> \o f[t.elem]
    BY <1>1 DEF SignatureStep, IsList, head
  <2>3. f[t.elem] \in Seq(Codes) /\ <<head>> \in Seq(Codes)
    BY <1>0, <2>1
  <2> QED BY <2>2, <2>3, ConcatIn
<1>2. CASE t.class = "Tuple"
  <2>1. t.elems \in Seq(ArgTypes)
    BY <1>2, TypeIs DEF TypeOver
  <2>2. SignatureStep(f, t) = <<head, Len(t.elems)>> \o FlattenSeq([i \in DOMAIN t.elems |-> f[t.elems[i]]])
    BY <1>2 DEF SignatureStep, IsList, head
  <2>3. PICK S : S = Seq(Codes)
    OBVIOUS
  <2>4. PICK ss : ss = [i \in DOMAIN t.elems |-> f[t.elems[i]]]
    OBVIOUS
  <2>5. ss \in Seq(Seq(Codes))
    <3>1. f \in [ArgTypes -> S]
      BY <2>3
    <3>2. Mapped(f, t.elems) \in Seq(S)
      BY <2>1, <3>1, MapIs
    <3>3. ss \in Seq(S)
      BY <2>4, <3>2 DEF Mapped
    <3> QED BY <2>3, <3>3
  <2>6. FlattenSeq(ss) \in Seq(Codes)
    BY <2>5, FlattenIn
  <2>7. Len(t.elems) \in Codes
    BY <2>1 DEF Codes
  <2>8. <<head, Len(t.elems)>> \in Seq(Codes)
    BY <1>0, <2>7
  <2> QED BY <2>2, <2>4, <2>6, <2>8, ConcatIn
<1>3. CASE ~IsList(t) /\ t.class # "Tuple"
  <2>1. SignatureStep(f, t) = <<head>>
    BY <1>3 DEF SignatureStep, head
  <2> QED BY <1>0, <2>1
<1> QED BY <1>1, <1>2, <1>3

\* It is what the definition says.
LEMMA SignatureIs ==
  Signature \in [ArgTypes -> Seq(Codes)] /\ \A e \in ArgTypes : Signature[e] = SignatureStep(Signature, e)
<1> DEFINE P == [e \in ArgTypes |-> PartsOfType(e)]
           L == [n \in 0 .. MaxNesting |-> ArgTypesTo[n]]
           V == Seq(Codes)
           G == [x \in [ArgTypes -> V] \X ArgTypes |-> SignatureStep(x[1], x[2])]
<1>1. IsTree(ArgTypes, P, L, MaxNesting)
  BY TypesAreTrees
<1>2. PICK v : v \in V
  <2>1. <<>> \in V
    BY SMT
  <2> QED BY <2>1
<1>3. G \in [[ArgTypes -> V] \X ArgTypes -> V]
  <2>1. ASSUME NEW x \in [ArgTypes -> V] \X ArgTypes PROVE SignatureStep(x[1], x[2]) \in V
    <3>1. x[1] \in [ArgTypes -> V] /\ x[2] \in ArgTypes
      OBVIOUS
    <3> QED BY <3>1, SignatureIn
  <2> HIDE DEF V
  <2> QED BY <2>1
<1>4. IsLocal(G, P, ArgTypes, V)
  <2>1. ASSUME NEW f \in [ArgTypes -> V], NEW g \in [ArgTypes -> V], NEW e \in ArgTypes, AgreeOn(f, g, P[e])
        PROVE  G[<<f, e>>] = G[<<g, e>>]
    <3>1. SignatureStep(f, e) = SignatureStep(g, e)
      BY <2>1, SignatureLocal
    <3> QED BY <2>1, <3>1
  <2> HIDE DEF P, L, G
  <2> QED BY <2>1 DEF IsLocal
<1> HIDE DEF P, L, G, V
<1>5. PICK f \in [ArgTypes -> V] : f = [e \in ArgTypes |-> G[<<f, e>>]]
  BY <1>1, <1>2, <1>3, <1>4, TreeFunction
<1>6. f = [e \in ArgTypes |-> SignatureStep(f, e)]
  <2>1. \A e \in ArgTypes : G[<<f, e>>] = SignatureStep(f, e)
    BY DEF G
  <2> QED BY <1>5, <2>1
<1>7. Signature = [e \in ArgTypes |-> SignatureStep(Signature, e)]
  <2> DEFINE F(h) == h = [e \in ArgTypes |-> SignatureStep(h, e)]
             c == CHOOSE h : F(h)
  <2>1. Signature = c
    BY Zenon DEF Signature, SignatureStep
  <2>2. F(f)
    BY <1>6
  <2>3. F(c)
    BY Zenon, <2>2
  <2> HIDE DEF c
  <2> QED BY Zenon, <2>1, <2>3
<1> DEFINE T == {e \in ArgTypes : Signature[e] = f[e]}
<1>8. ASSUME NEW e \in ArgTypes, P[e] \subseteq T PROVE e \in T
  <2>1. AgreeOn(Signature, f, PartsOfType(e))
    BY <1>8 DEF P, AgreeOn
  <2>2. SignatureStep(Signature, e) = SignatureStep(f, e)
    BY <2>1, SignatureLocal
  <2>3. Signature[e] = SignatureStep(Signature, e) /\ f[e] = SignatureStep(f, e)
    BY <1>6, <1>7
  <2> QED BY <2>2, <2>3
<1>9. T \in SUBSET ArgTypes
  OBVIOUS
<1> HIDE DEF T
<1>10. T = ArgTypes
  BY <1>1, <1>8, <1>9, TreeInduction
<1>11. \A e \in ArgTypes : Signature[e] = f[e]
  BY <1>10 DEF T
<1>12. Signature = f
  BY <1>6, <1>7, <1>11
<1> QED BY <1>7, <1>12 DEF V

-----------------------------------------------------------------------------
\* The parts of a type of a size that is known are such types.
LEMMA KnownIs ==
  ASSUME NEW t \in KnownTypes
  PROVE  t \in ArgTypes /\ TypeOver(t, KnownTypes) /\ ~(t.class \in {"String", "List"})
<1>1. t \in ArgTypes /\ SizeKnown[t]
  BY DEF KnownTypes
<1>2. SizeKnownStep(SizeKnown, t)
  BY Zenon, <1>1, SizeKnownIs
<1>3. TypeOver(t, ArgTypes)
  BY <1>1, TypeIs
<1>4. t.class = "Array" => t.elem \in KnownTypes
  BY <1>2, <1>3 DEF SizeKnownStep, KnownTypes, TypeOver
<1>5. ASSUME t.class = "Tuple" PROVE t.elems \in Seq(KnownTypes)
  <2>1. t.elems \in Seq(ArgTypes) /\ \A i \in DOMAIN t.elems : SizeKnown[t.elems[i]]
    BY <1>2, <1>3, <1>5 DEF SizeKnownStep, TypeOver
  <2>2. \A i \in 1 .. Len(t.elems) : t.elems[i] \in KnownTypes
    BY <2>1 DEF KnownTypes
  <2> QED BY <2>1, <2>2
<1> QED BY <1>1, <1>2, <1>3, <1>4, <1>5 DEF SizeKnownStep, TypeOver

\* They are trees too.
LEMMA KnownAreTrees ==
  IsTree(KnownTypes, [t \in KnownTypes |-> PartsOfType(t)], [n \in 0 .. MaxNesting |-> ArgTypesTo[n] \cap KnownTypes], MaxNesting)
<1> DEFINE P == [t \in ArgTypes |-> PartsOfType(t)]
           L == [n \in 0 .. MaxNesting |-> ArgTypesTo[n]]
           Q == [t \in KnownTypes |-> PartsOfType(t)]
           M == [n \in 0 .. MaxNesting |-> ArgTypesTo[n] \cap KnownTypes]
<1>0. IsTree(ArgTypes, P, L, MaxNesting)
  BY TypesAreTrees
<1>1. MaxNesting \in Nat /\ MaxNesting \in 0 .. MaxNesting
  BY LogArgsAssumption
<1>2. \A t \in KnownTypes : t \in ArgTypes /\ Q[t] = P[t] /\ Q[t] \subseteq KnownTypes
  <2>1. ASSUME NEW t \in KnownTypes PROVE t \in ArgTypes /\ PartsOfType(t) \subseteq KnownTypes
    BY KnownIs, TypeParts
  <2> QED BY <2>1
<1>3. \A n \in 0 .. MaxNesting : M[n] = L[n] \cap KnownTypes
  OBVIOUS
<1>4. Q \in [KnownTypes -> SUBSET KnownTypes]
  BY <1>2
<1>5. M \in [0 .. MaxNesting -> SUBSET KnownTypes]
  OBVIOUS
<1>6. M[MaxNesting] = KnownTypes
  BY <1>1 DEF ArgTypes, KnownTypes
<1> HIDE DEF P, L, Q, M
<1>7. \A t \in M[0] : Q[t] = {}
  <2>1. 0 \in 0 .. MaxNesting /\ \A t \in L[0] : P[t] = {}
    BY <1>0, <1>1 DEF IsTree
  <2> QED BY <1>2, <1>3, <2>1
<1>8. ASSUME NEW n \in 1 .. MaxNesting, NEW t \in M[n] PROVE Q[t] \subseteq M[n - 1]
  <2>1. n \in 0 .. MaxNesting /\ n - 1 \in 0 .. MaxNesting
    BY <1>1
  <2>2. t \in L[n] /\ t \in KnownTypes
    BY <1>3, <1>8, <2>1
  <2>3. P[t] \subseteq L[n - 1]
    BY Zenon, <1>0, <2>2 DEF IsTree
  <2> QED BY <1>2, <1>3, <2>1, <2>2, <2>3
<1>9. IsTree(KnownTypes, Q, M, MaxNesting)
  BY Zenon, <1>1, <1>4, <1>5, <1>6, <1>7, <1>8 DEF IsTree
<1> QED BY <1>9 DEF Q, M

-----------------------------------------------------------------------------
\* A counter is a word.
LEMMA CounterSizeIs == \A t : CounterSize(t) = IF IsText(t) \/ IsList(t) THEN 4 ELSE 0
BY SMT DEF CounterSize, Padded, CounterBytes, Word

\* Its size is a number.
LEMMA CounterSizeNat == \A t : CounterSize(t) \in Nat
BY CounterSizeIs

\* What is padded is a number of words.
LEMMA PaddedIs == ASSUME NEW x \in Nat PROVE Padded(x, Word) \in Nat /\ Words(x) \in Nat /\ Padded(x, Word) = Word * Words(x)
<1>1. PICK d : d = (x + 3) \div 4
  OBVIOUS
<1>2. d \in Nat
  BY <1>1, SMT
<1>3. Padded(x, Word) = d * 4
  BY <1>1 DEF Padded, Word
<1>4. Words(x) = d
  BY <1>2, <1>3, SMT DEF Words, Word
<1> QED BY <1>2, <1>3, <1>4 DEF Word

\* A product is a number.
LEMMA ProductIn == \A a \in Nat, b \in Nat : a * b \in Nat
BY SMT

CounterOverheadOfTypeStep(f, t) ==
  CounterSize(t) +
  CASE t.class = "Tuple" -> Sum([i \in DOMAIN t.elems |-> f[t.elems[i]]])
    [] IsList(t)         -> CounterSize(t.elem) * t.n
    [] OTHER             -> 0

\* What it is for each class
LEMMA CounterOverheadOfTypeCases ==
  ASSUME NEW f, NEW t
  PROVE  /\ IsList(t) => CounterOverheadOfTypeStep(f, t) = CounterSize(t) + CounterSize(t.elem) * t.n
         /\ t.class = "Tuple" => CounterOverheadOfTypeStep(f, t) = CounterSize(t) + Sum(Mapped(f, t.elems))
         /\ ~IsAggregate(t) => CounterOverheadOfTypeStep(f, t) = CounterSize(t) + 0
<1>1. CASE IsList(t)
  BY <1>1 DEF IsList, CounterOverheadOfTypeStep, IsAggregate
<1>2. CASE t.class = "Tuple"
  BY <1>2 DEF IsList, CounterOverheadOfTypeStep, Mapped, IsAggregate
<1>3. CASE ~IsAggregate(t)
  BY <1>3 DEF CounterOverheadOfTypeStep, IsAggregate
<1> QED BY <1>1, <1>2, <1>3 DEF IsAggregate

\* The counters of a type depend on the parts.
LEMMA CounterOverheadOfTypeLocal ==
  ASSUME NEW t \in KnownTypes, NEW f, NEW g, AgreeOn(f, g, PartsOfType(t))
  PROVE  CounterOverheadOfTypeStep(f, t) = CounterOverheadOfTypeStep(g, t)
<1>1. t \in ArgTypes
  BY DEF KnownTypes
<1>2. t.class = "Tuple" => Mapped(f, t.elems) = Mapped(g, t.elems)
  BY <1>1, TypePartsAgree DEF Mapped
<1> QED BY Zenon, <1>2, CounterOverheadOfTypeCases DEF IsAggregate

\* The counters of a type are of the values there are.
LEMMA CounterOverheadOfTypeIn ==
  ASSUME NEW t \in KnownTypes, NEW f \in [KnownTypes -> Nat] PROVE CounterOverheadOfTypeStep(f, t) \in Nat
<1>1. t \in ArgTypes /\ TypeOver(t, KnownTypes) /\ ~(t.class \in {"String", "List"})
  BY KnownIs
<1>2. CASE IsList(t)
  <2>1. t.n \in Nat
    BY <1>1, <1>2 DEF IsList, TypeOver
  <2>2. CounterSize(t.elem) * t.n \in Nat
    BY <2>1, CounterSizeNat, ProductIn
  <2> QED BY <1>2, <2>2, CounterSizeNat, CounterOverheadOfTypeCases
<1>3. CASE t.class = "Tuple"
  <2>1. t.elems \in Seq(KnownTypes)
    BY <1>1, <1>3 DEF TypeOver
  <2>2. Sum(Mapped(f, t.elems)) \in Nat
    BY <2>1, MapIs, SumIsNat
  <2> QED BY <1>3, <2>2, CounterSizeNat, CounterOverheadOfTypeCases
<1>4. CASE ~IsAggregate(t)
  BY <1>4, CounterSizeNat, CounterOverheadOfTypeCases
<1> QED BY <1>2, <1>3, <1>4 DEF IsAggregate

\* The counters of a type are what the definition says.
LEMMA CounterOverheadOfTypeIs ==
  CounterOverheadOfType \in [KnownTypes -> Nat] /\ \A e \in KnownTypes : CounterOverheadOfType[e] = CounterOverheadOfTypeStep(CounterOverheadOfType, e)
<1> DEFINE P == [e \in KnownTypes |-> PartsOfType(e)]
           L == [n \in 0 .. MaxNesting |-> ArgTypesTo[n] \cap KnownTypes]
           V == Nat
           G == [x \in [KnownTypes -> V] \X KnownTypes |-> CounterOverheadOfTypeStep(x[1], x[2])]
<1>1. IsTree(KnownTypes, P, L, MaxNesting)
  BY KnownAreTrees
<1>2. PICK v : v \in V
  <2>1. 0 \in V
    BY SMT
  <2> QED BY <2>1
<1>3. G \in [[KnownTypes -> V] \X KnownTypes -> V]
  <2>1. ASSUME NEW x \in [KnownTypes -> V] \X KnownTypes PROVE CounterOverheadOfTypeStep(x[1], x[2]) \in V
    <3>1. x[1] \in [KnownTypes -> V] /\ x[2] \in KnownTypes
      OBVIOUS
    <3> QED BY <3>1, CounterOverheadOfTypeIn
  <2> HIDE DEF V
  <2> QED BY <2>1
<1>4. IsLocal(G, P, KnownTypes, V)
  <2>1. ASSUME NEW f \in [KnownTypes -> V], NEW g \in [KnownTypes -> V], NEW e \in KnownTypes, AgreeOn(f, g, P[e])
        PROVE  G[<<f, e>>] = G[<<g, e>>]
    <3>1. CounterOverheadOfTypeStep(f, e) = CounterOverheadOfTypeStep(g, e)
      BY <2>1, CounterOverheadOfTypeLocal
    <3> QED BY <2>1, <3>1
  <2> HIDE DEF P, L, G
  <2> QED BY <2>1 DEF IsLocal
<1> HIDE DEF P, L, G, V
<1>5. PICK f \in [KnownTypes -> V] : f = [e \in KnownTypes |-> G[<<f, e>>]]
  BY <1>1, <1>2, <1>3, <1>4, TreeFunction
<1>6. f = [e \in KnownTypes |-> CounterOverheadOfTypeStep(f, e)]
  <2>1. \A e \in KnownTypes : G[<<f, e>>] = CounterOverheadOfTypeStep(f, e)
    BY DEF G
  <2> QED BY <1>5, <2>1
<1>7. CounterOverheadOfType = [e \in KnownTypes |-> CounterOverheadOfTypeStep(CounterOverheadOfType, e)]
  <2> DEFINE F(h) == h = [e \in KnownTypes |-> CounterOverheadOfTypeStep(h, e)]
             c == CHOOSE h : F(h)
  <2>1. CounterOverheadOfType = c
    BY Zenon DEF CounterOverheadOfType, CounterOverheadOfTypeStep
  <2>2. F(f)
    BY <1>6
  <2>3. F(c)
    BY Zenon, <2>2
  <2> HIDE DEF c
  <2> QED BY Zenon, <2>1, <2>3
<1> DEFINE T == {e \in KnownTypes : CounterOverheadOfType[e] = f[e]}
<1>8. ASSUME NEW e \in KnownTypes, P[e] \subseteq T PROVE e \in T
  <2>1. AgreeOn(CounterOverheadOfType, f, PartsOfType(e))
    BY <1>8 DEF P, AgreeOn
  <2>2. CounterOverheadOfTypeStep(CounterOverheadOfType, e) = CounterOverheadOfTypeStep(f, e)
    BY <2>1, CounterOverheadOfTypeLocal
  <2>3. CounterOverheadOfType[e] = CounterOverheadOfTypeStep(CounterOverheadOfType, e) /\ f[e] = CounterOverheadOfTypeStep(f, e)
    BY <1>6, <1>7
  <2> QED BY <2>2, <2>3
<1>9. T \in SUBSET KnownTypes
  OBVIOUS
<1> HIDE DEF T
<1>10. T = KnownTypes
  BY <1>1, <1>8, <1>9, TreeInduction
<1>11. \A e \in KnownTypes : CounterOverheadOfType[e] = f[e]
  BY <1>10 DEF T
<1>12. CounterOverheadOfType = f
  BY <1>6, <1>7, <1>11
<1> QED BY <1>7, <1>12 DEF V

PayloadSizeOfTypeStep(f, t) ==
  CASE IsList(t)         -> t.n * f[t.elem]
    [] t.class = "Tuple" -> Sum([i \in DOMAIN t.elems |-> f[t.elems[i]]])
    [] IsText(t)         -> LiteralSize(t)
    [] OTHER             -> Padded(t.bytes, Word)

\* The payload of a type, for each class.
LEMMA PayloadSizeOfTypeCases ==
  ASSUME NEW f, NEW t
  PROVE  /\ IsText(t) => PayloadSizeOfTypeStep(f, t) = LiteralSize(t)
         /\ IsList(t) => PayloadSizeOfTypeStep(f, t) = t.n * f[t.elem]
         /\ t.class = "Tuple" => PayloadSizeOfTypeStep(f, t) = Sum(Mapped(f, t.elems))
         /\ ~IsText(t) /\ ~IsAggregate(t) => PayloadSizeOfTypeStep(f, t) = Padded(t.bytes, Word)
<1>1. CASE IsList(t)
  BY <1>1 DEF IsList, IsText, PayloadSizeOfTypeStep, IsAggregate
<1>2. CASE t.class = "Tuple"
  BY <1>2 DEF IsList, IsText, PayloadSizeOfTypeStep, Mapped, IsAggregate
<1>3. CASE ~IsAggregate(t) /\ IsText(t)
  BY <1>3 DEF PayloadSizeOfTypeStep, IsAggregate, IsText
<1>4. CASE ~IsAggregate(t) /\ ~IsText(t)
  BY <1>4 DEF PayloadSizeOfTypeStep, IsAggregate
<1> QED BY <1>1, <1>2, <1>3, <1>4 DEF IsAggregate

\* The payload of a type depends on the parts.
LEMMA PayloadSizeOfTypeLocal ==
  ASSUME NEW t \in KnownTypes, NEW f, NEW g, AgreeOn(f, g, PartsOfType(t))
  PROVE  PayloadSizeOfTypeStep(f, t) = PayloadSizeOfTypeStep(g, t)
<1>1. t \in ArgTypes
  BY DEF KnownTypes
<1>2. t.class = "Tuple" => Mapped(f, t.elems) = Mapped(g, t.elems)
  BY <1>1, TypePartsAgree DEF Mapped
<1>3. IsList(t) => f[t.elem] = g[t.elem]
  BY <1>1, TypePartsAgree
<1> QED BY Zenon, <1>2, <1>3, PayloadSizeOfTypeCases DEF IsAggregate

\* The payload of a type is of the values there are.
LEMMA PayloadSizeOfTypeIn ==
  ASSUME NEW t \in KnownTypes, NEW f \in [KnownTypes -> Nat] PROVE PayloadSizeOfTypeStep(f, t) \in Nat
<1>1. t \in ArgTypes /\ TypeOver(t, KnownTypes) /\ ~(t.class \in {"String", "List"})
  BY KnownIs
<1>2. CASE IsList(t)
  <2>1. t.n \in Nat /\ t.elem \in KnownTypes
    BY <1>1, <1>2 DEF IsList, TypeOver
  <2>2. t.n * f[t.elem] \in Nat
    BY <2>1, ProductIn
  <2> QED BY <1>2, <2>2, PayloadSizeOfTypeCases
<1>3. CASE t.class = "Tuple"
  <2>1. t.elems \in Seq(KnownTypes)
    BY <1>1, <1>3 DEF TypeOver
  <2>2. Sum(Mapped(f, t.elems)) \in Nat
    BY <2>1, MapIs, SumIsNat
  <2> QED BY <1>3, <2>2, PayloadSizeOfTypeCases
<1>4. CASE IsText(t)
  <2>1. t.chars - 1 \in Nat /\ t.bytes \in Nat
    BY <1>1, <1>4 DEF IsText, TypeOver
  <2>2. (t.chars - 1) * t.bytes \in Nat
    BY <2>1, ProductIn
  <2>3. LiteralSize(t) \in Nat
    BY <2>2, PaddedIs DEF LiteralSize
  <2> QED BY <1>4, <2>3, PayloadSizeOfTypeCases
<1>5. CASE ~IsText(t) /\ ~IsAggregate(t)
  <2>1. t.bytes \in Nat
    BY <1>1, <1>5 DEF TypeOver, IsText, IsAggregate, IsList
  <2>2. Padded(t.bytes, Word) \in Nat
    BY <2>1, PaddedIs
  <2> QED BY <1>5, <2>2, PayloadSizeOfTypeCases
<1> QED BY <1>2, <1>3, <1>4, <1>5 DEF IsAggregate

\* The payload of a type is what the definition says.
LEMMA PayloadSizeOfTypeIs ==
  PayloadSizeOfType \in [KnownTypes -> Nat] /\ \A e \in KnownTypes : PayloadSizeOfType[e] = PayloadSizeOfTypeStep(PayloadSizeOfType, e)
<1> DEFINE P == [e \in KnownTypes |-> PartsOfType(e)]
           L == [n \in 0 .. MaxNesting |-> ArgTypesTo[n] \cap KnownTypes]
           V == Nat
           G == [x \in [KnownTypes -> V] \X KnownTypes |-> PayloadSizeOfTypeStep(x[1], x[2])]
<1>1. IsTree(KnownTypes, P, L, MaxNesting)
  BY KnownAreTrees
<1>2. PICK v : v \in V
  <2>1. 0 \in V
    BY SMT
  <2> QED BY <2>1
<1>3. G \in [[KnownTypes -> V] \X KnownTypes -> V]
  <2>1. ASSUME NEW x \in [KnownTypes -> V] \X KnownTypes PROVE PayloadSizeOfTypeStep(x[1], x[2]) \in V
    <3>1. x[1] \in [KnownTypes -> V] /\ x[2] \in KnownTypes
      OBVIOUS
    <3> QED BY <3>1, PayloadSizeOfTypeIn
  <2> HIDE DEF V
  <2> QED BY <2>1
<1>4. IsLocal(G, P, KnownTypes, V)
  <2>1. ASSUME NEW f \in [KnownTypes -> V], NEW g \in [KnownTypes -> V], NEW e \in KnownTypes, AgreeOn(f, g, P[e])
        PROVE  G[<<f, e>>] = G[<<g, e>>]
    <3>1. PayloadSizeOfTypeStep(f, e) = PayloadSizeOfTypeStep(g, e)
      BY <2>1, PayloadSizeOfTypeLocal
    <3> QED BY <2>1, <3>1
  <2> HIDE DEF P, L, G
  <2> QED BY <2>1 DEF IsLocal
<1> HIDE DEF P, L, G, V
<1>5. PICK f \in [KnownTypes -> V] : f = [e \in KnownTypes |-> G[<<f, e>>]]
  BY <1>1, <1>2, <1>3, <1>4, TreeFunction
<1>6. f = [e \in KnownTypes |-> PayloadSizeOfTypeStep(f, e)]
  <2>1. \A e \in KnownTypes : G[<<f, e>>] = PayloadSizeOfTypeStep(f, e)
    BY DEF G
  <2> QED BY <1>5, <2>1
<1>7. PayloadSizeOfType = [e \in KnownTypes |-> PayloadSizeOfTypeStep(PayloadSizeOfType, e)]
  <2> DEFINE F(h) == h = [e \in KnownTypes |-> PayloadSizeOfTypeStep(h, e)]
             c == CHOOSE h : F(h)
  <2>1. PayloadSizeOfType = c
    BY Zenon DEF PayloadSizeOfType, PayloadSizeOfTypeStep
  <2>2. F(f)
    BY <1>6
  <2>3. F(c)
    BY Zenon, <2>2
  <2> HIDE DEF c
  <2> QED BY Zenon, <2>1, <2>3
<1> DEFINE T == {e \in KnownTypes : PayloadSizeOfType[e] = f[e]}
<1>8. ASSUME NEW e \in KnownTypes, P[e] \subseteq T PROVE e \in T
  <2>1. AgreeOn(PayloadSizeOfType, f, PartsOfType(e))
    BY <1>8 DEF P, AgreeOn
  <2>2. PayloadSizeOfTypeStep(PayloadSizeOfType, e) = PayloadSizeOfTypeStep(f, e)
    BY <2>1, PayloadSizeOfTypeLocal
  <2>3. PayloadSizeOfType[e] = PayloadSizeOfTypeStep(PayloadSizeOfType, e) /\ f[e] = PayloadSizeOfTypeStep(f, e)
    BY <1>6, <1>7
  <2> QED BY <2>2, <2>3
<1>9. T \in SUBSET KnownTypes
  OBVIOUS
<1> HIDE DEF T
<1>10. T = KnownTypes
  BY <1>1, <1>8, <1>9, TreeInduction
<1>11. \A e \in KnownTypes : PayloadSizeOfType[e] = f[e]
  BY <1>10 DEF T
<1>12. PayloadSizeOfType = f
  BY <1>6, <1>7, <1>11
<1> QED BY <1>7, <1>12 DEF V

-----------------------------------------------------------------------------
\* What the values of an argument follow from its type for.
LEMMA ArgIs ==
  ASSUME NEW a \in Elements
  PROVE  /\ IsList(a.type) => \A i \in DOMAIN a.elems : a.elems[i].type = a.type.elem
         /\ a.type.class = "Array" => Len(a.elems) = a.type.n
         /\ a.type.class = "Tuple" => /\ Len(a.elems) = Len(a.type.elems)
                                      /\ \A i \in DOMAIN a.elems : a.elems[i].type = a.type.elems[i]
         /\ a.type.class = "Literal" => a.value = a.type.chars - 1
<1>1. IsArg(a)
  BY ElementIs DEF ElementOver
<1>2. CASE a.type.class = "List"
  BY <1>1, <1>2 DEF IsArg, IsList
<1>3. CASE a.type.class = "Array"
  BY <1>1, <1>3 DEF IsArg, IsList
<1>4. CASE a.type.class = "Tuple"
  BY <1>1, <1>4 DEF IsArg, IsList
<1>5. CASE a.type.class = "Literal"
  BY <1>1, <1>5 DEF IsArg, IsList
<1> QED BY <1>2, <1>3, <1>4, <1>5 DEF IsList

\* The elements of a container and the values for them
LEMMA ElementsMapped ==
  ASSUME NEW a \in Elements, IsAggregate(a.type), NEW V, NEW f \in [Elements -> V]
  PROVE  /\ a.elems \in Seq(Elements) /\ Len(a.elems) \in Nat
         /\ Mapped(f, a.elems) \in Seq(V) /\ Len(Mapped(f, a.elems)) = Len(a.elems)
         /\ \A i \in 1 .. Len(a.elems) : /\ a.elems[i] \in Elements /\ a.elems[i] \in PartsOfElement(a)
                                         /\ Mapped(f, a.elems)[i] = f[a.elems[i]]
<1>1. a.elems \in Seq(Elements)
  BY ElementIs DEF ElementOver
<1>2. \A i \in 1 .. Len(a.elems) : a.elems[i] \in PartsOfElement(a)
  BY <1>1 DEF PartsOfElement
<1>3. PICK s \in Seq(Elements) : s = a.elems
  BY <1>1
<1>4. /\ Mapped(f, s) \in Seq(V) /\ Len(Mapped(f, s)) = Len(s)
      /\ \A i \in 1 .. Len(s) : s[i] \in Elements /\ Mapped(f, s)[i] = f[s[i]]
  <2>1. Mapped(f, s) \in Seq(V)
    BY MapIs
  <2>2. Len(Mapped(f, s)) = Len(s)
    BY <2>1 DEF Mapped
  <2>3. ASSUME NEW i \in 1 .. Len(s) PROVE s[i] \in Elements /\ Mapped(f, s)[i] = f[s[i]]
    BY DEF Mapped
  <2> QED BY <2>1, <2>2, <2>3
<1>5. Len(s) \in Nat
  OBVIOUS
<1> QED BY <1>1, <1>2, <1>3, <1>4, <1>5

\* The types of elements that are no containers
LEMMA SimpleValueIs ==
  ASSUME NEW a \in Elements, ~IsAggregate(a.type)
  PROVE  a.type.bytes \in Nat /\ a.value \in Nat /\ a.value * a.type.bytes \in Nat
<1>1. ElementOver(a, Elements)
  BY ElementIs
<1>2. a.value \in Nat /\ a.type \in ArgTypes
  BY <1>1 DEF ElementOver
<1>3. a.type.bytes \in Nat
  BY <1>2, TypeIs DEF TypeOver, IsAggregate, IsList
<1> QED BY <1>2, <1>3, ProductIn

CounterOverheadStep(f, a) ==
  LET t == a.type
  IN  CounterSize(t) +
      CASE (IsList(t) /\ IsAggregate(t.elem)) \/ t.class = "Tuple" ->
             Sum([i \in DOMAIN a.elems |-> f[a.elems[i]]])
        [] IsList(t) /\ ~IsAggregate(t.elem) -> CounterSize(t.elem) * Len(a.elems)
        [] OTHER                             -> 0

\* The counters of an element, for each class.
LEMMA CounterOverheadCases ==
  ASSUME NEW f, NEW a, NEW t, t = a.type
  PROVE  /\ IsList(t) /\ ~IsAggregate(t.elem) =>
              CounterOverheadStep(f, a) = CounterSize(t) + CounterSize(t.elem) * Len(a.elems)
         /\ (IsList(t) /\ IsAggregate(t.elem)) \/ t.class = "Tuple" =>
              CounterOverheadStep(f, a) = CounterSize(t) + Sum(Mapped(f, a.elems))
         /\ ~IsAggregate(t) => CounterOverheadStep(f, a) = CounterSize(t) + 0
<1> HIDE DEF IsAggregate
<1>1. CASE IsList(t) /\ ~IsAggregate(t.elem)
  <2>1. IsAggregate(t) /\ t.class # "Tuple"
    BY <1>1 DEF IsList, IsAggregate
  <2> QED BY <1>1, <2>1 DEF CounterOverheadStep
<1>2. CASE (IsList(t) /\ IsAggregate(t.elem)) \/ t.class = "Tuple"
  <2>1. IsAggregate(t) /\ ~(IsList(t) /\ ~IsAggregate(t.elem))
    BY <1>2 DEF IsList, IsAggregate
  <2> QED BY <1>2, <2>1 DEF CounterOverheadStep, Mapped
<1>3. CASE ~IsAggregate(t)
  <2>1. ~IsList(t) /\ t.class # "Tuple"
    BY <1>3 DEF IsAggregate
  <2> QED BY <1>3, <2>1 DEF CounterOverheadStep
<1> QED BY <1>1, <1>2, <1>3 DEF IsAggregate

\* The counters of an element depend on the parts.
LEMMA CounterOverheadLocal ==
  ASSUME NEW a \in Elements, NEW f, NEW g, AgreeOn(f, g, PartsOfElement(a))
  PROVE  CounterOverheadStep(f, a) = CounterOverheadStep(g, a)
<1>1. PICK t : t = a.type
  OBVIOUS
<1>2. IsAggregate(t) => Mapped(f, a.elems) = Mapped(g, a.elems)
  BY <1>1, ElementPartsAgree DEF Mapped
<1>3. CASE IsList(t) /\ ~IsAggregate(t.elem)
  BY <1>1, <1>3, CounterOverheadCases
<1>4. CASE (IsList(t) /\ IsAggregate(t.elem)) \/ t.class = "Tuple"
  <2>1. Mapped(f, a.elems) = Mapped(g, a.elems)
    BY <1>2, <1>4 DEF IsAggregate
  <2> QED BY <1>1, <1>4, <2>1, CounterOverheadCases
<1>5. CASE ~IsAggregate(t)
  BY <1>1, <1>5, CounterOverheadCases
<1> QED BY <1>3, <1>4, <1>5 DEF IsAggregate

\* The counters of an element are of the values there are.
LEMMA CounterOverheadIn ==
  ASSUME NEW a \in Elements, NEW f \in [Elements -> Nat] PROVE CounterOverheadStep(f, a) \in Nat
<1>1. PICK t : t = a.type
  OBVIOUS
<1>3. CASE IsList(t) /\ ~IsAggregate(t.elem)
  <2>1. Len(a.elems) \in Nat
    BY <1>1, <1>3, ElementsMapped DEF IsAggregate
  <2>2. CounterSize(t.elem) * Len(a.elems) \in Nat
    BY <2>1, CounterSizeNat, ProductIn
  <2> QED BY <1>1, <1>3, <2>2, CounterSizeNat, CounterOverheadCases
<1>4. CASE (IsList(t) /\ IsAggregate(t.elem)) \/ t.class = "Tuple"
  <2>1. Sum(Mapped(f, a.elems)) \in Nat
    BY <1>1, <1>4, ElementsMapped, SumIsNat DEF IsAggregate
  <2> QED BY <1>1, <1>4, <2>1, CounterSizeNat, CounterOverheadCases
<1>5. CASE ~IsAggregate(t)
  BY <1>1, <1>5, CounterSizeNat, CounterOverheadCases
<1> QED BY <1>3, <1>4, <1>5 DEF IsAggregate

\* The counters of an element are what the definition says.
LEMMA CounterOverheadIs ==
  CounterOverhead \in [Elements -> Nat] /\ \A e \in Elements : CounterOverhead[e] = CounterOverheadStep(CounterOverhead, e)
<1> DEFINE P == [e \in Elements |-> PartsOfElement(e)]
           L == [n \in 0 .. MaxNesting |-> ElementsTo[n]]
           V == Nat
           G == [x \in [Elements -> V] \X Elements |-> CounterOverheadStep(x[1], x[2])]
<1>1. IsTree(Elements, P, L, MaxNesting)
  BY ElementsAreTrees
<1>2. PICK v : v \in V
  <2>1. 0 \in V
    BY SMT
  <2> QED BY <2>1
<1>3. G \in [[Elements -> V] \X Elements -> V]
  <2>1. ASSUME NEW x \in [Elements -> V] \X Elements PROVE CounterOverheadStep(x[1], x[2]) \in V
    <3>1. x[1] \in [Elements -> V] /\ x[2] \in Elements
      OBVIOUS
    <3> QED BY <3>1, CounterOverheadIn
  <2> HIDE DEF V
  <2> QED BY <2>1
<1>4. IsLocal(G, P, Elements, V)
  <2>1. ASSUME NEW f \in [Elements -> V], NEW g \in [Elements -> V], NEW e \in Elements, AgreeOn(f, g, P[e])
        PROVE  G[<<f, e>>] = G[<<g, e>>]
    <3>1. CounterOverheadStep(f, e) = CounterOverheadStep(g, e)
      BY <2>1, CounterOverheadLocal
    <3> QED BY <2>1, <3>1
  <2> HIDE DEF P, L, G
  <2> QED BY <2>1 DEF IsLocal
<1> HIDE DEF P, L, G, V
<1>5. PICK f \in [Elements -> V] : f = [e \in Elements |-> G[<<f, e>>]]
  BY <1>1, <1>2, <1>3, <1>4, TreeFunction
<1>6. f = [e \in Elements |-> CounterOverheadStep(f, e)]
  <2>1. \A e \in Elements : G[<<f, e>>] = CounterOverheadStep(f, e)
    BY DEF G
  <2> QED BY <1>5, <2>1
<1>7. CounterOverhead = [e \in Elements |-> CounterOverheadStep(CounterOverhead, e)]
  <2> DEFINE F(h) == h = [e \in Elements |-> CounterOverheadStep(h, e)]
             c == CHOOSE h : F(h)
  <2>1. CounterOverhead = c
    BY Zenon DEF CounterOverhead, CounterOverheadStep
  <2>2. F(f)
    BY <1>6
  <2>3. F(c)
    BY Zenon, <2>2
  <2> HIDE DEF c
  <2> QED BY Zenon, <2>1, <2>3
<1> DEFINE T == {e \in Elements : CounterOverhead[e] = f[e]}
<1>8. ASSUME NEW e \in Elements, P[e] \subseteq T PROVE e \in T
  <2>1. AgreeOn(CounterOverhead, f, PartsOfElement(e))
    BY <1>8 DEF P, AgreeOn
  <2>2. CounterOverheadStep(CounterOverhead, e) = CounterOverheadStep(f, e)
    BY <2>1, CounterOverheadLocal
  <2>3. CounterOverhead[e] = CounterOverheadStep(CounterOverhead, e) /\ f[e] = CounterOverheadStep(f, e)
    BY <1>6, <1>7
  <2> QED BY <2>2, <2>3
<1>9. T \in SUBSET Elements
  OBVIOUS
<1> HIDE DEF T
<1>10. T = Elements
  BY <1>1, <1>8, <1>9, TreeInduction
<1>11. \A e \in Elements : CounterOverhead[e] = f[e]
  BY <1>10 DEF T
<1>12. CounterOverhead = f
  BY <1>6, <1>7, <1>11
<1> QED BY <1>7, <1>12 DEF V

PayloadSizeStep(f, a) ==
  CASE IsAggregate(a.type) -> Sum([i \in DOMAIN a.elems |-> f[a.elems[i]]])
    [] IsText(a.type)      -> Padded(a.value * a.type.bytes, Word)
    [] OTHER               -> Padded(a.type.bytes, Word)

\* Texts are no containers.
LEMMA TextIs == \A t : IsText(t) => ~IsAggregate(t)
BY DEF IsText, IsAggregate, IsList

\* The payload of an element, for each class.
LEMMA PayloadSizeCases ==
  ASSUME NEW f, NEW a
  PROVE  /\ IsText(a.type) => PayloadSizeStep(f, a) = Padded(a.value * a.type.bytes, Word)
         /\ IsAggregate(a.type) => PayloadSizeStep(f, a) = Sum(Mapped(f, a.elems))
         /\ ~IsText(a.type) /\ ~IsAggregate(a.type) => PayloadSizeStep(f, a) = Padded(a.type.bytes, Word)
<1>1. CASE IsText(a.type)
  BY <1>1, TextIs DEF PayloadSizeStep
<1>2. CASE IsAggregate(a.type)
  BY <1>2, TextIs DEF PayloadSizeStep, Mapped
<1>3. CASE ~IsText(a.type) /\ ~IsAggregate(a.type)
  BY <1>3 DEF PayloadSizeStep
<1> QED BY <1>1, <1>2, <1>3, TextIs

\* The payload of an element depends on the parts.
LEMMA PayloadSizeLocal ==
  ASSUME NEW a \in Elements, NEW f, NEW g, AgreeOn(f, g, PartsOfElement(a))
  PROVE  PayloadSizeStep(f, a) = PayloadSizeStep(g, a)
<1>2. IsAggregate(a.type) => Mapped(f, a.elems) = Mapped(g, a.elems)
  BY ElementPartsAgree DEF Mapped
<1> QED BY Zenon, <1>2, PayloadSizeCases

\* The payload of an element is of the values there are.
LEMMA PayloadSizeIn ==
  ASSUME NEW a \in Elements, NEW f \in [Elements -> Nat] PROVE PayloadSizeStep(f, a) \in Nat
<1>1. CASE IsText(a.type)
  <2>1. Padded(a.value * a.type.bytes, Word) \in Nat
    BY <1>1, TextIs, SimpleValueIs, PaddedIs
  <2> QED BY <1>1, <2>1, PayloadSizeCases
<1>2. CASE IsAggregate(a.type)
  <2>1. Sum(Mapped(f, a.elems)) \in Nat
    BY <1>2, ElementsMapped, SumIsNat
  <2> QED BY <1>2, <2>1, PayloadSizeCases
<1>3. CASE ~IsText(a.type) /\ ~IsAggregate(a.type)
  <2>1. Padded(a.type.bytes, Word) \in Nat
    BY <1>3, SimpleValueIs, PaddedIs
  <2> QED BY <1>3, <2>1, PayloadSizeCases
<1> QED BY <1>1, <1>2, <1>3

\* The payload of an element is what the definition says.
LEMMA PayloadSizeIs ==
  PayloadSize \in [Elements -> Nat] /\ \A e \in Elements : PayloadSize[e] = PayloadSizeStep(PayloadSize, e)
<1> DEFINE P == [e \in Elements |-> PartsOfElement(e)]
           L == [n \in 0 .. MaxNesting |-> ElementsTo[n]]
           V == Nat
           G == [x \in [Elements -> V] \X Elements |-> PayloadSizeStep(x[1], x[2])]
<1>1. IsTree(Elements, P, L, MaxNesting)
  BY ElementsAreTrees
<1>2. PICK v : v \in V
  <2>1. 0 \in V
    BY SMT
  <2> QED BY <2>1
<1>3. G \in [[Elements -> V] \X Elements -> V]
  <2>1. ASSUME NEW x \in [Elements -> V] \X Elements PROVE PayloadSizeStep(x[1], x[2]) \in V
    <3>1. x[1] \in [Elements -> V] /\ x[2] \in Elements
      OBVIOUS
    <3> QED BY <3>1, PayloadSizeIn
  <2> HIDE DEF V
  <2> QED BY <2>1
<1>4. IsLocal(G, P, Elements, V)
  <2>1. ASSUME NEW f \in [Elements -> V], NEW g \in [Elements -> V], NEW e \in Elements, AgreeOn(f, g, P[e])
        PROVE  G[<<f, e>>] = G[<<g, e>>]
    <3>1. PayloadSizeStep(f, e) = PayloadSizeStep(g, e)
      BY <2>1, PayloadSizeLocal
    <3> QED BY <2>1, <3>1
  <2> HIDE DEF P, L, G
  <2> QED BY <2>1 DEF IsLocal
<1> HIDE DEF P, L, G, V
<1>5. PICK f \in [Elements -> V] : f = [e \in Elements |-> G[<<f, e>>]]
  BY <1>1, <1>2, <1>3, <1>4, TreeFunction
<1>6. f = [e \in Elements |-> PayloadSizeStep(f, e)]
  <2>1. \A e \in Elements : G[<<f, e>>] = PayloadSizeStep(f, e)
    BY DEF G
  <2> QED BY <1>5, <2>1
<1>7. PayloadSize = [e \in Elements |-> PayloadSizeStep(PayloadSize, e)]
  <2> DEFINE F(h) == h = [e \in Elements |-> PayloadSizeStep(h, e)]
             c == CHOOSE h : F(h)
  <2>1. PayloadSize = c
    BY Zenon DEF PayloadSize, PayloadSizeStep
  <2>2. F(f)
    BY <1>6
  <2>3. F(c)
    BY Zenon, <2>2
  <2> HIDE DEF c
  <2> QED BY Zenon, <2>1, <2>3
<1> DEFINE T == {e \in Elements : PayloadSize[e] = f[e]}
<1>8. ASSUME NEW e \in Elements, P[e] \subseteq T PROVE e \in T
  <2>1. AgreeOn(PayloadSize, f, PartsOfElement(e))
    BY <1>8 DEF P, AgreeOn
  <2>2. PayloadSizeStep(PayloadSize, e) = PayloadSizeStep(f, e)
    BY <2>1, PayloadSizeLocal
  <2>3. PayloadSize[e] = PayloadSizeStep(PayloadSize, e) /\ f[e] = PayloadSizeStep(f, e)
    BY <1>6, <1>7
  <2> QED BY <2>2, <2>3
<1>9. T \in SUBSET Elements
  OBVIOUS
<1> HIDE DEF T
<1>10. T = Elements
  BY <1>1, <1>8, <1>9, TreeInduction
<1>11. \A e \in Elements : PayloadSize[e] = f[e]
  BY <1>10 DEF T
<1>12. PayloadSize = f
  BY <1>6, <1>7, <1>11
<1> QED BY <1>7, <1>12 DEF V

\* The words of a value
ValueWords == {CountWord(n) : n \in Nat} \cup [is : {"text"}, unit : Nat, n : Nat, part : Nat]
              \cup [is : {"data"}, v : Nat, bytes : Nat, part : Nat]

\* The words of characters.
LEMMA TextWordsAre ==
  ASSUME NEW t, t.bytes \in Nat, NEW v \in Nat
  PROVE  TextWords(t, v) \in Seq(ValueWords) /\ Len(TextWords(t, v)) = Words(v * t.bytes)
<1>1. PICK n \in Nat : n = Words(v * t.bytes)
  BY ProductIn, PaddedIs
<1>2. \A i \in 1 .. n : [is |-> "text", unit |-> t.bytes, n |-> v, part |-> i] \in ValueWords
  BY DEF ValueWords
<1>3. TextWords(t, v) \in [1 .. n -> ValueWords]
  BY <1>1, <1>2 DEF TextWords
<1> QED BY <1>1, <1>3

\* The words of simple data.
LEMMA DataWordsAre ==
  ASSUME NEW t, t.bytes \in Nat, NEW v \in Nat
  PROVE  DataWords(t, v) \in Seq(ValueWords) /\ Len(DataWords(t, v)) = Words(t.bytes)
<1>1. PICK n \in Nat : n = Words(t.bytes)
  BY PaddedIs
<1>2. \A i \in 1 .. n : [is |-> "data", v |-> v, bytes |-> t.bytes, part |-> i] \in ValueWords
  BY DEF ValueWords
<1>3. DataWords(t, v) \in [1 .. n -> ValueWords]
  BY <1>1, <1>2 DEF DataWords
<1> QED BY <1>1, <1>3

WriteVarStep(f, a) ==
  LET elements == FlattenSeq([i \in DOMAIN a.elems |-> f[a.elems[i]]])
  IN  CASE IsText(a.type)         -> <<CountWord(a.value)>> \o TextWords(a.type, a.value)
        [] IsList(a.type)         -> <<CountWord(Len(a.elems))>> \o elements
        [] a.type.class = "Tuple" -> elements
        [] OTHER                  -> DataWords(a.type, a.value)

\* The words of an element, for each class.
LEMMA WriteVarCases ==
  ASSUME NEW f, NEW a
  PROVE  /\ IsText(a.type) => WriteVarStep(f, a) = <<CountWord(a.value)>> \o TextWords(a.type, a.value)
         /\ IsList(a.type) => WriteVarStep(f, a) = <<CountWord(Len(a.elems))>> \o FlattenSeq(Mapped(f, a.elems))
         /\ a.type.class = "Tuple" => WriteVarStep(f, a) = FlattenSeq(Mapped(f, a.elems))
         /\ ~IsText(a.type) /\ ~IsAggregate(a.type) => WriteVarStep(f, a) = DataWords(a.type, a.value)
<1>1. CASE IsText(a.type)
  BY <1>1, TextIs DEF WriteVarStep, IsAggregate
<1>2. CASE IsList(a.type)
  BY <1>2, TextIs DEF WriteVarStep, Mapped, IsAggregate, IsList
<1>3. CASE a.type.class = "Tuple"
  BY <1>3, TextIs DEF WriteVarStep, Mapped, IsAggregate, IsList
<1>4. CASE ~IsText(a.type) /\ ~IsAggregate(a.type)
  BY <1>4 DEF WriteVarStep, IsAggregate
<1> QED BY <1>1, <1>2, <1>3, <1>4, TextIs DEF IsAggregate

\* The words of an element depend on the parts.
LEMMA WriteVarLocal ==
  ASSUME NEW a \in Elements, NEW f, NEW g, AgreeOn(f, g, PartsOfElement(a))
  PROVE  WriteVarStep(f, a) = WriteVarStep(g, a)
<1>2. IsAggregate(a.type) => Mapped(f, a.elems) = Mapped(g, a.elems)
  BY ElementPartsAgree DEF Mapped
<1> QED BY Zenon, <1>2, WriteVarCases DEF IsAggregate

\* The words of an element are of the values there are.
LEMMA WriteVarIn ==
  ASSUME NEW a \in Elements, NEW f \in [Elements -> Seq(ValueWords)] PROVE WriteVarStep(f, a) \in Seq(ValueWords)
<1>0. \A n \in Nat : CountWord(n) \in ValueWords /\ <<CountWord(n)>> \in Seq(ValueWords)
  <2>1. \A n \in Nat : CountWord(n) \in ValueWords
    BY DEF ValueWords
  <2> QED BY <2>1
<1>4. ASSUME IsAggregate(a.type) PROVE FlattenSeq(Mapped(f, a.elems)) \in Seq(ValueWords) /\ Len(a.elems) \in Nat
  <2>1. PICK S : S = Seq(ValueWords)
    OBVIOUS
  <2>2. Mapped(f, a.elems) \in Seq(S) /\ Len(a.elems) \in Nat
    BY <1>4, <2>1, ElementsMapped
  <2> QED BY <2>1, <2>2, FlattenIn
<1>1. CASE IsText(a.type)
  <2>1. TextWords(a.type, a.value) \in Seq(ValueWords) /\ a.value \in Nat
    BY <1>1, TextIs, SimpleValueIs, TextWordsAre
  <2> QED BY <1>0, <1>1, <2>1, WriteVarCases, ConcatIn
<1>2. CASE IsList(a.type)
  BY <1>0, <1>2, <1>4, WriteVarCases, ConcatIn DEF IsAggregate
<1>3. CASE a.type.class = "Tuple"
  BY <1>3, <1>4, WriteVarCases DEF IsAggregate
<1>5. CASE ~IsText(a.type) /\ ~IsAggregate(a.type)
  BY <1>5, SimpleValueIs, DataWordsAre, WriteVarCases
<1> QED BY <1>1, <1>2, <1>3, <1>5 DEF IsAggregate

\* The words of an element are what the definition says.
LEMMA WriteVarIs ==
  WriteVar \in [Elements -> Seq(ValueWords)] /\ \A e \in Elements : WriteVar[e] = WriteVarStep(WriteVar, e)
<1> DEFINE P == [e \in Elements |-> PartsOfElement(e)]
           L == [n \in 0 .. MaxNesting |-> ElementsTo[n]]
           V == Seq(ValueWords)
           G == [x \in [Elements -> V] \X Elements |-> WriteVarStep(x[1], x[2])]
<1>1. IsTree(Elements, P, L, MaxNesting)
  BY ElementsAreTrees
<1>2. PICK v : v \in V
  <2>1. <<>> \in V
    BY SMT
  <2> QED BY <2>1
<1>3. G \in [[Elements -> V] \X Elements -> V]
  <2>1. ASSUME NEW x \in [Elements -> V] \X Elements PROVE WriteVarStep(x[1], x[2]) \in V
    <3>1. x[1] \in [Elements -> V] /\ x[2] \in Elements
      OBVIOUS
    <3> QED BY <3>1, WriteVarIn
  <2> HIDE DEF V
  <2> QED BY <2>1
<1>4. IsLocal(G, P, Elements, V)
  <2>1. ASSUME NEW f \in [Elements -> V], NEW g \in [Elements -> V], NEW e \in Elements, AgreeOn(f, g, P[e])
        PROVE  G[<<f, e>>] = G[<<g, e>>]
    <3>1. WriteVarStep(f, e) = WriteVarStep(g, e)
      BY <2>1, WriteVarLocal
    <3> QED BY <2>1, <3>1
  <2> HIDE DEF P, L, G
  <2> QED BY <2>1 DEF IsLocal
<1> HIDE DEF P, L, G, V
<1>5. PICK f \in [Elements -> V] : f = [e \in Elements |-> G[<<f, e>>]]
  BY <1>1, <1>2, <1>3, <1>4, TreeFunction
<1>6. f = [e \in Elements |-> WriteVarStep(f, e)]
  <2>1. \A e \in Elements : G[<<f, e>>] = WriteVarStep(f, e)
    BY DEF G
  <2> QED BY <1>5, <2>1
<1>7. WriteVar = [e \in Elements |-> WriteVarStep(WriteVar, e)]
  <2> DEFINE F(h) == h = [e \in Elements |-> WriteVarStep(h, e)]
             c == CHOOSE h : F(h)
  <2>1. WriteVar = c
    BY Zenon DEF WriteVar, WriteVarStep
  <2>2. F(f)
    BY <1>6
  <2>3. F(c)
    BY Zenon, <2>2
  <2> HIDE DEF c
  <2> QED BY Zenon, <2>1, <2>3
<1> DEFINE T == {e \in Elements : WriteVar[e] = f[e]}
<1>8. ASSUME NEW e \in Elements, P[e] \subseteq T PROVE e \in T
  <2>1. AgreeOn(WriteVar, f, PartsOfElement(e))
    BY <1>8 DEF P, AgreeOn
  <2>2. WriteVarStep(WriteVar, e) = WriteVarStep(f, e)
    BY <2>1, WriteVarLocal
  <2>3. WriteVar[e] = WriteVarStep(WriteVar, e) /\ f[e] = WriteVarStep(f, e)
    BY <1>6, <1>7
  <2> QED BY <2>2, <2>3
<1>9. T \in SUBSET Elements
  OBVIOUS
<1> HIDE DEF T
<1>10. T = Elements
  BY <1>1, <1>8, <1>9, TreeInduction
<1>11. \A e \in Elements : WriteVar[e] = f[e]
  BY <1>10 DEF T
<1>12. WriteVar = f
  BY <1>6, <1>7, <1>11
<1> QED BY <1>7, <1>12 DEF V

-----------------------------------------------------------------------------
\* Whatever is in a container, its elements have counters of the sum of theirs.
LEMMA CountersAre ==
  ASSUME NEW a \in Elements, IsAggregate(a.type)
  PROVE  CounterOverhead[a] = CounterSize(a.type) + Sum(Mapped(CounterOverhead, a.elems))
<1>1. PICK t : t = a.type
  OBVIOUS
<1>2. CounterOverhead \in [Elements -> Nat] /\ \A e \in Elements : CounterOverhead[e] = CounterOverheadStep(CounterOverhead, e)
  BY CounterOverheadIs
<1>3. CASE IsList(t) /\ ~IsAggregate(t.elem)
  <2>1. PICK n \in Nat : n = Len(a.elems)
    BY <1>2, ElementsMapped
  <2>2. PICK u : u = Mapped(CounterOverhead, a.elems)
    OBVIOUS
  <2>3. u \in Seq(Nat) /\ Len(u) = n /\ \A i \in 1 .. n : a.elems[i] \in Elements /\ u[i] = CounterOverhead[a.elems[i]]
    BY <1>2, <2>1, <2>2, ElementsMapped
  <2>4. PICK c \in Nat : c = CounterSize(t.elem)
    BY CounterSizeNat
  <2>5. ASSUME NEW i \in 1 .. n PROVE u[i] = c
    <3>1. a.elems[i] \in Elements /\ a.elems[i].type = t.elem
      BY <1>1, <1>3, <2>1, <2>3, ArgIs, ElementsMapped
    <3>2. CounterOverheadStep(CounterOverhead, a.elems[i]) = CounterSize(t.elem) + 0
      BY <1>3, <3>1, CounterOverheadCases
    <3> QED BY <1>2, <2>3, <2>4, <3>1, <3>2
  <2>6. Sum(u) = n * c
    BY <2>3, <2>5, SumOfSame
  <2>7. CounterOverhead[a] = CounterSize(t) + c * n
    BY <1>1, <1>2, <1>3, <2>1, <2>4, CounterOverheadCases
  <2>8. c * n = n * c
    BY <2>1, <2>4
  <2> QED BY <1>1, <2>2, <2>6, <2>7, <2>8
<1>4. CASE (IsList(t) /\ IsAggregate(t.elem)) \/ t.class = "Tuple"
  BY <1>1, <1>2, <1>4, CounterOverheadCases
<1> QED BY <1>1, <1>3, <1>4 DEF IsAggregate

\* The word of a counter.
LEMMA CounterWord == ASSUME NEW n \in Nat PROVE <<CountWord(n)>> \in Seq(ValueWords) /\ Len(<<CountWord(n)>>) = 1
<1>1. CountWord(n) \in ValueWords
  BY DEF ValueWords
<1> QED BY <1>1

\* A counter is one word more.
LEMMA CounterAndWords ==
  ASSUME NEW n \in Nat, NEW s \in Seq(ValueWords)
  PROVE  <<CountWord(n)>> \o s \in Seq(ValueWords) /\ Word * Len(<<CountWord(n)>> \o s) = 4 + Word * Len(s)
<1>1. PICK c : c = <<CountWord(n)>>
  OBVIOUS
<1>2. c \in Seq(ValueWords) /\ Len(c) = 1
  BY <1>1, CounterWord
<1>3. c \o s \in Seq(ValueWords) /\ Len(c \o s) = 1 + Len(s) /\ Len(s) \in Nat
  <2>1. c \o s \in Seq(ValueWords)
    BY <1>2, ConcatIn
  <2>2. Len(c \o s) = Len(c) + Len(s)
    BY <1>2, ConcatLen
  <2>3. Len(s) \in Nat
    OBVIOUS
  <2> QED BY <1>2, <2>1, <2>2, <2>3
<1>4. Word * Len(c \o s) = 4 + Word * Len(s)
  BY <1>3 DEF Word
<1> QED BY <1>1, <1>3, <1>4

\* What write_var() writes is as long as the counters and the payload that were
\* computed before.
LEMMA VarIsWritten == \A a \in Elements : Word * Len(WriteVar[a]) = CounterOverhead[a] + PayloadSize[a]
<1> DEFINE P == [a \in Elements |-> PartsOfElement(a)]
           L == [n \in 0 .. MaxNesting |-> ElementsTo[n]]
           T == {a \in Elements : Word * Len(WriteVar[a]) = CounterOverhead[a] + PayloadSize[a]}
<1>1. IsTree(Elements, P, L, MaxNesting)
  BY ElementsAreTrees
<1>2. CounterOverhead \in [Elements -> Nat] /\ \A e \in Elements : CounterOverhead[e] = CounterOverheadStep(CounterOverhead, e)
  BY CounterOverheadIs
<1>3. PayloadSize \in [Elements -> Nat] /\ \A e \in Elements : PayloadSize[e] = PayloadSizeStep(PayloadSize, e)
  BY PayloadSizeIs
<1>4. WriteVar \in [Elements -> Seq(ValueWords)] /\ \A e \in Elements : WriteVar[e] = WriteVarStep(WriteVar, e)
  BY WriteVarIs
<1>5. ASSUME NEW a \in Elements, P[a] \subseteq T PROVE a \in T
  <2>1. CASE IsText(a.type)
    <3>1. a.value \in Nat /\ a.type.bytes \in Nat /\ a.value * a.type.bytes \in Nat /\ ~IsAggregate(a.type)
      BY <2>1, TextIs, SimpleValueIs
    <3>2. PICK w : w = TextWords(a.type, a.value)
      OBVIOUS
    <3>3. w \in Seq(ValueWords) /\ Word * Len(w) = Padded(a.value * a.type.bytes, Word)
      BY <3>1, <3>2, TextWordsAre, PaddedIs
    <3>4. WriteVar[a] = <<CountWord(a.value)>> \o w
      BY <1>4, <2>1, <3>2, WriteVarCases
    <3>5. Word * Len(WriteVar[a]) = 4 + Padded(a.value * a.type.bytes, Word)
      BY <3>1, <3>3, <3>4, CounterAndWords
    <3>6. PayloadSize[a] = Padded(a.value * a.type.bytes, Word)
      BY <1>3, <2>1, PayloadSizeCases
    <3>7. CounterOverhead[a] = 4
      BY <1>2, <2>1, <3>1, CounterOverheadCases, CounterSizeIs
    <3> QED BY <3>5, <3>6, <3>7
  <2>2. CASE IsAggregate(a.type)
    <3>1. PICK n \in Nat : n = Len(a.elems)
      BY <1>2, <2>2, ElementsMapped
    <3>2. PICK s : s = Mapped(CounterOverhead, a.elems)
      OBVIOUS
    <3>3. PICK t : t = Mapped(PayloadSize, a.elems)
      OBVIOUS
    <3>4. PICK ss : ss = Mapped(WriteVar, a.elems)
      OBVIOUS
    <3>5. s \in Seq(Nat) /\ Len(s) = n /\ \A i \in 1 .. n : s[i] = CounterOverhead[a.elems[i]]
      BY <1>2, <2>2, <3>1, <3>2, ElementsMapped
    <3>6. t \in Seq(Nat) /\ Len(t) = n /\ \A i \in 1 .. n : t[i] = PayloadSize[a.elems[i]]
      BY <1>3, <2>2, <3>1, <3>3, ElementsMapped
    <3>7. ss \in Seq(Seq(ValueWords)) /\ Len(ss) = n /\ \A i \in 1 .. n : ss[i] = WriteVar[a.elems[i]]
      <4>1. PICK S : S = Seq(ValueWords)
        OBVIOUS
      <4>2. WriteVar \in [Elements -> S]
        BY <1>4, <4>1
      <4>3. ss \in Seq(S) /\ Len(ss) = n /\ \A i \in 1 .. n : ss[i] = WriteVar[a.elems[i]]
        BY <2>2, <3>1, <3>4, <4>2, ElementsMapped
      <4> QED BY <4>1, <4>3
    <3>8. PICK u : u = [i \in 1 .. n |-> s[i] + t[i]]
      OBVIOUS
    <3>9. u \in Seq(Nat) /\ Len(u) = n /\ \A i \in 1 .. n : u[i] = s[i] + t[i]
      <4>1. \A i \in 1 .. n : s[i] \in Nat /\ t[i] \in Nat
        BY <3>5, <3>6
      <4>2. u \in [1 .. n -> Nat]
        BY <3>8, <4>1
      <4> QED BY <3>1, <3>8, <4>2
    <3>10. Sum(u) = Sum(s) + Sum(t)
      BY <3>5, <3>6, <3>9, SumOfBoth
    <3>11. \A i \in 1 .. n : u[i] = Word * Len(ss[i])
      <4>1. ASSUME NEW i \in 1 .. n PROVE a.elems[i] \in T
        BY <1>2, <1>5, <2>2, <3>1, ElementsMapped
      <4> TAKE i \in 1 .. n
      <4>2. PICK e : e = a.elems[i]
        OBVIOUS
      <4>3. Word * Len(WriteVar[e]) = CounterOverhead[e] + PayloadSize[e]
        BY Zenon, <4>1, <4>2
      <4>4. ss[i] = WriteVar[e] /\ s[i] = CounterOverhead[e] /\ t[i] = PayloadSize[e]
        BY Zenon, <3>5, <3>6, <3>7, <4>2
      <4>5. u[i] = s[i] + t[i]
        BY Zenon, <3>9
      <4> QED BY Zenon, <4>3, <4>4, <4>5
    <3>12. Word \in Nat
      BY DEF Word
    <3>13. FlattenSeq(ss) \in Seq(ValueWords) /\ Word * Len(FlattenSeq(ss)) = Sum(u)
      <4>1. Len(u) = Len(ss) /\ \A i \in 1 .. Len(ss) : u[i] = Word * Len(ss[i])
        BY <3>7, <3>9, <3>11
      <4> QED BY ZenonT(60), <3>7, <3>9, <3>12, <4>1, FlattenLen
    <3>14. Sum(s) \in Nat /\ Sum(t) \in Nat
      BY <3>5, <3>6, SumIsNat
    <3>15. PayloadSize[a] = Sum(t)
      BY <1>3, <2>2, <3>3, PayloadSizeCases
    <3>16. CounterOverhead[a] = CounterSize(a.type) + Sum(s)
      BY <2>2, <3>2, CountersAre
    <3>17. CASE IsList(a.type)
      <4>1. WriteVar[a] = <<CountWord(n)>> \o FlattenSeq(ss)
        BY <1>4, <3>1, <3>4, <3>17, WriteVarCases
      <4>2. Word * Len(WriteVar[a]) = 4 + Sum(u)
        BY <3>13, <4>1, CounterAndWords
      <4>3. CounterSize(a.type) = 4
        BY <3>17, CounterSizeIs
      <4> QED BY <3>10, <3>14, <3>15, <3>16, <4>2, <4>3
    <3>18. CASE a.type.class = "Tuple"
      <4>1. WriteVar[a] = FlattenSeq(ss)
        BY <1>4, <3>4, <3>18, WriteVarCases
      <4>2. CounterSize(a.type) = 0
        BY <3>18, CounterSizeIs DEF IsText, IsList
      <4> QED BY <3>10, <3>13, <3>14, <3>15, <3>16, <4>1, <4>2
    <3> QED BY <2>2, <3>17, <3>18 DEF IsAggregate
  <2>3. CASE ~IsText(a.type) /\ ~IsAggregate(a.type)
    <3>1. a.value \in Nat /\ a.type.bytes \in Nat
      BY <2>3, SimpleValueIs
    <3>2. WriteVar[a] = DataWords(a.type, a.value)
      BY <1>4, <2>3, WriteVarCases
    <3>3. Word * Len(WriteVar[a]) = Padded(a.type.bytes, Word) /\ Padded(a.type.bytes, Word) \in Nat
      BY <3>1, <3>2, DataWordsAre, PaddedIs
    <3>4. PayloadSize[a] = Padded(a.type.bytes, Word)
      BY <1>3, <2>3, PayloadSizeCases
    <3>5. CounterSize(a.type) = 0
      BY <2>3, CounterSizeIs DEF IsAggregate
    <3>6. CounterOverhead[a] = CounterSize(a.type) + 0
      BY <1>2, <2>3, CounterOverheadCases
    <3> QED BY <3>3, <3>4, <3>5, <3>6
  <2> QED BY <2>1, <2>2, <2>3
<1>6. T \in SUBSET Elements
  OBVIOUS
<1> HIDE DEF P, L, T
<1>7. T = Elements
  BY <1>1, <1>5, <1>6, TreeInduction
<1> QED BY <1>7 DEF T

-----------------------------------------------------------------------------
\* The words of a message behind its header
MessageWords == ValueWords \cup {HeaderWords(t, size)[i] : t \in ArgTypes, size \in Nat, i \in Nat}

\* The header of an argument is a number of words.
LEMMA HeaderIs ==
  ASSUME NEW t \in ArgTypes
  PROVE  /\ HeaderSize(t) \in Nat /\ HeaderSize(t) \div Word \in Nat
         /\ HeaderSize(t) = Word * (HeaderSize(t) \div Word)
<1>1. Signature[t] \in Seq(Codes)
  BY SignatureIs
<1>2. PICK n \in Nat : n = Len(Signature[t])
  <2>1. PICK s \in Seq(Codes) : s = Signature[t]
    BY <1>1
  <2>2. Len(s) \in Nat
    OBVIOUS
  <2> QED BY <2>1, <2>2
<1>3. PICK x \in Nat : x = CounterBytes + 1 + n
  BY DEF CounterBytes
<1>4. HeaderSize(t) = Padded(x, Word) /\ HeaderSize(t) \div Word = Words(x)
  BY <1>2, <1>3 DEF HeaderSize, Words
<1> QED BY <1>4, PaddedIs

\* It is written as long as it is.
LEMMA HeaderWordsAre ==
  ASSUME NEW t \in ArgTypes, NEW size \in Nat
  PROVE  HeaderWords(t, size) \in Seq(MessageWords) /\ Word * Len(HeaderWords(t, size)) = HeaderSize(t)
<1>1. PICK n \in Nat : n = HeaderSize(t) \div Word
  BY HeaderIs
<1>2. PICK h : h = HeaderWords(t, size)
  OBVIOUS
<1>3. DOMAIN h = 1 .. n /\ h = [i \in 1 .. n |-> h[i]]
  BY <1>1, <1>2 DEF HeaderWords
<1>4. \A i \in 1 .. n : h[i] \in MessageWords
  BY <1>2 DEF MessageWords
<1>5. h \in Seq(MessageWords) /\ Len(h) = n
  BY <1>3, <1>4
<1> QED BY <1>1, <1>2, <1>5, HeaderIs

\* An argument is written as long as was computed from its value.
LEMMA ArgIsWritten ==
  ASSUME NEW a \in Elements
  PROVE  WriteArg(a) \in Seq(MessageWords) /\ Word * Len(WriteArg(a)) = ArgSize(a) /\ ArgSize(a) \in Nat
<1>1. a.type \in ArgTypes
  BY ElementIs DEF ElementOver
<1>2. PICK w : w = WriteVar[a]
  OBVIOUS
<1>3. w \in Seq(ValueWords) /\ Word * Len(w) = CounterOverhead[a] + PayloadSize[a] /\ Len(w) \in Nat
  BY <1>2, WriteVarIs, VarIsWritten
<1>4. CounterOverhead[a] \in Nat /\ PayloadSize[a] \in Nat /\ HeaderSize(a.type) \in Nat
  BY <1>1, CounterOverheadIs, PayloadSizeIs, HeaderIs
<1>5. w \in Seq(MessageWords)
  <2>1. ValueWords \subseteq MessageWords
    BY DEF MessageWords
  <2> QED BY <1>3, <2>1
<1>6. PICK size : size = IF SizeKnown[a.type] THEN ArgSizeOfType(a.type) ELSE HeaderSize(a.type) + Word * Len(w)
  OBVIOUS
<1>7. size \in Nat
  <2>1. CASE SizeKnown[a.type]
    <3>1. a.type \in KnownTypes
      BY <1>1, <2>1 DEF KnownTypes
    <3>2. CounterOverheadOfType[a.type] \in Nat /\ PayloadSizeOfType[a.type] \in Nat
      BY <3>1, CounterOverheadOfTypeIs, PayloadSizeOfTypeIs
    <3> QED BY <1>4, <1>6, <2>1, <3>2 DEF ArgSizeOfType
  <2>2. CASE ~SizeKnown[a.type]
    BY <1>3, <1>4, <1>6, <2>2 DEF Word
  <2> QED BY <2>1, <2>2
<1>8. PICK h : h = HeaderWords(a.type, size)
  OBVIOUS
<1>9. h \in Seq(MessageWords) /\ Word * Len(h) = HeaderSize(a.type) /\ Len(h) \in Nat
  BY <1>1, <1>7, <1>8, HeaderWordsAre
<1>10. WriteArg(a) = h \o w
  BY <1>2, <1>6, <1>8 DEF WriteArg
<1>11. h \o w \in Seq(MessageWords) /\ Len(h \o w) = Len(h) + Len(w)
  BY <1>5, <1>9, ConcatIn, ConcatLen
<1>12. Word * Len(h \o w) = HeaderSize(a.type) + (CounterOverhead[a] + PayloadSize[a])
  BY <1>3, <1>9, <1>11 DEF Word
<1> QED BY <1>4, <1>10, <1>11, <1>12 DEF ArgSize

-----------------------------------------------------------------------------
ShallowStep(f, t) ==
  /\ t.class = "Array" => f[t.elem] /\ CounterOverheadOfType[t.elem] = CounterSize(t.elem)
  /\ t.class = "Tuple" => \A i \in DOMAIN t.elems : f[t.elems[i]]

\* Whether a type is shallow depends on the parts.
LEMMA ShallowLocal ==
  ASSUME NEW t \in KnownTypes, NEW f, NEW g, AgreeOn(f, g, PartsOfType(t))
  PROVE  ShallowStep(f, t) = ShallowStep(g, t)
<1>0. t \in ArgTypes
  BY DEF KnownTypes
<1>1. t.class = "Array" => f[t.elem] = g[t.elem]
  BY <1>0, TypePartsAgree DEF IsList
<1>2. t.class = "Tuple" => \A i \in DOMAIN t.elems : f[t.elems[i]] = g[t.elems[i]]
  BY DEF AgreeOn, PartsOfType, IsList
<1> QED BY Zenon, <1>1, <1>2 DEF ShallowStep

\* Whether a type is shallow is of the values there are.
LEMMA ShallowIn ==
  ASSUME NEW t \in KnownTypes, NEW f \in [KnownTypes -> BOOLEAN] PROVE ShallowStep(f, t) \in BOOLEAN
BY Zenon DEF ShallowStep

\* Whether a type is shallow is what the definition says.
LEMMA ShallowIs ==
  Shallow \in [KnownTypes -> BOOLEAN] /\ \A e \in KnownTypes : Shallow[e] = ShallowStep(Shallow, e)
<1> DEFINE P == [e \in KnownTypes |-> PartsOfType(e)]
           L == [n \in 0 .. MaxNesting |-> ArgTypesTo[n] \cap KnownTypes]
           V == BOOLEAN
           G == [x \in [KnownTypes -> V] \X KnownTypes |-> ShallowStep(x[1], x[2])]
<1>1. IsTree(KnownTypes, P, L, MaxNesting)
  BY KnownAreTrees
<1>2. PICK v : v \in V
  <2>1. TRUE \in V
    BY SMT
  <2> QED BY <2>1
<1>3. G \in [[KnownTypes -> V] \X KnownTypes -> V]
  <2>1. ASSUME NEW x \in [KnownTypes -> V] \X KnownTypes PROVE ShallowStep(x[1], x[2]) \in V
    <3>1. x[1] \in [KnownTypes -> V] /\ x[2] \in KnownTypes
      OBVIOUS
    <3> QED BY <3>1, ShallowIn
  <2> HIDE DEF V
  <2> QED BY <2>1
<1>4. IsLocal(G, P, KnownTypes, V)
  <2>1. ASSUME NEW f \in [KnownTypes -> V], NEW g \in [KnownTypes -> V], NEW e \in KnownTypes, AgreeOn(f, g, P[e])
        PROVE  G[<<f, e>>] = G[<<g, e>>]
    <3>1. ShallowStep(f, e) = ShallowStep(g, e)
      BY <2>1, ShallowLocal
    <3> QED BY <2>1, <3>1
  <2> HIDE DEF P, L, G
  <2> QED BY <2>1 DEF IsLocal
<1> HIDE DEF P, L, G, V
<1>5. PICK f \in [KnownTypes -> V] : f = [e \in KnownTypes |-> G[<<f, e>>]]
  BY <1>1, <1>2, <1>3, <1>4, TreeFunction
<1>6. f = [e \in KnownTypes |-> ShallowStep(f, e)]
  <2>1. \A e \in KnownTypes : G[<<f, e>>] = ShallowStep(f, e)
    BY DEF G
  <2> QED BY <1>5, <2>1
<1>7. Shallow = [e \in KnownTypes |-> ShallowStep(Shallow, e)]
  <2> DEFINE F(h) == h = [e \in KnownTypes |-> ShallowStep(h, e)]
             c == CHOOSE h : F(h)
  <2>1. Shallow = c
    BY Zenon DEF Shallow, ShallowStep
  <2>2. F(f)
    BY <1>6
  <2>3. F(c)
    BY Zenon, <2>2
  <2> HIDE DEF c
  <2> QED BY Zenon, <2>1, <2>3
<1> DEFINE T == {e \in KnownTypes : Shallow[e] = f[e]}
<1>8. ASSUME NEW e \in KnownTypes, P[e] \subseteq T PROVE e \in T
  <2>1. AgreeOn(Shallow, f, PartsOfType(e))
    BY <1>8 DEF P, AgreeOn
  <2>2. ShallowStep(Shallow, e) = ShallowStep(f, e)
    BY <2>1, ShallowLocal
  <2>3. Shallow[e] = ShallowStep(Shallow, e) /\ f[e] = ShallowStep(f, e)
    BY <1>6, <1>7
  <2> QED BY <2>2, <2>3
<1>9. T \in SUBSET KnownTypes
  OBVIOUS
<1> HIDE DEF T
<1>10. T = KnownTypes
  BY <1>1, <1>8, <1>9, TreeInduction
<1>11. \A e \in KnownTypes : Shallow[e] = f[e]
  BY <1>10 DEF T
<1>12. Shallow = f
  BY <1>6, <1>7, <1>11
<1> QED BY <1>7, <1>12 DEF V

\* The size computed from a type is the one computed from a value, but for
\* arrays of elements with counters inside them.
LEMMA TypeSizeIsSize ==
  \A a \in Elements : a.type \in KnownTypes /\ Shallow[a.type] =>
    CounterOverheadOfType[a.type] = CounterOverhead[a] /\ PayloadSizeOfType[a.type] = PayloadSize[a]
<1> DEFINE P == [a \in Elements |-> PartsOfElement(a)]
           L == [n \in 0 .. MaxNesting |-> ElementsTo[n]]
           T == {a \in Elements : a.type \in KnownTypes /\ Shallow[a.type] =>
                   CounterOverheadOfType[a.type] = CounterOverhead[a] /\ PayloadSizeOfType[a.type] = PayloadSize[a]}
<1>1. IsTree(Elements, P, L, MaxNesting)
  BY ElementsAreTrees
<1>2. CounterOverhead \in [Elements -> Nat] /\ \A e \in Elements : CounterOverhead[e] = CounterOverheadStep(CounterOverhead, e)
  BY CounterOverheadIs
<1>3. PayloadSize \in [Elements -> Nat] /\ \A e \in Elements : PayloadSize[e] = PayloadSizeStep(PayloadSize, e)
  BY PayloadSizeIs
<1>4. /\ CounterOverheadOfType \in [KnownTypes -> Nat]
      /\ \A t \in KnownTypes : CounterOverheadOfType[t] = CounterOverheadOfTypeStep(CounterOverheadOfType, t)
  BY CounterOverheadOfTypeIs
<1>5. /\ PayloadSizeOfType \in [KnownTypes -> Nat]
      /\ \A t \in KnownTypes : PayloadSizeOfType[t] = PayloadSizeOfTypeStep(PayloadSizeOfType, t)
  BY PayloadSizeOfTypeIs
<1>6. \A t \in KnownTypes : Shallow[t] = ShallowStep(Shallow, t)
  BY ShallowIs
<1>7. ASSUME NEW a \in Elements, P[a] \subseteq T, NEW t \in KnownTypes, t = a.type, Shallow[t]
      PROVE  CounterOverheadOfType[t] = CounterOverhead[a] /\ PayloadSizeOfType[t] = PayloadSize[a]
  <2>1. TypeOver(t, KnownTypes) /\ ~(t.class \in {"String", "List"})
    BY KnownIs
  <2>2. ShallowStep(Shallow, t)
    BY Zenon, <1>6, <1>7
  <2>3. CASE IsList(t)
    <3>1. t.class = "Array" /\ IsAggregate(t)
      BY <2>1, <2>3 DEF IsList, IsAggregate
    <3>2. t.elem \in KnownTypes /\ t.n \in Nat
      BY <2>1, <3>1 DEF TypeOver
    <3>3. Shallow[t.elem] /\ CounterOverheadOfType[t.elem] = CounterSize(t.elem)
      BY <2>2, <3>1 DEF ShallowStep
    <3>4. Len(a.elems) = t.n
      BY <1>7, <3>1, ArgIs
    <3>5. ASSUME NEW i \in 1 .. t.n
          PROVE  /\ CounterOverhead[a.elems[i]] = CounterOverheadOfType[t.elem]
                 /\ PayloadSize[a.elems[i]] = PayloadSizeOfType[t.elem]
      <4>1. a.elems[i] \in Elements /\ a.elems[i] \in PartsOfElement(a) /\ a.elems[i].type = t.elem
        <5>1. a.elems[i] \in Elements /\ a.elems[i] \in PartsOfElement(a) /\ i \in DOMAIN a.elems
          BY <1>2, <1>7, <3>1, <3>4, ElementsMapped
        <5> QED BY <1>7, <2>3, <5>1, ArgIs
      <4>2. a.elems[i] \in T
        BY <1>7, <4>1
      <4> QED BY <3>2, <3>3, <4>1, <4>2
    <3>6. PICK c \in Nat : c = CounterOverheadOfType[t.elem]
      BY <1>4, <3>2
    <3>7. PICK d \in Nat : d = PayloadSizeOfType[t.elem]
      BY <1>5, <3>2
    <3>8. PICK u : u = Mapped(CounterOverhead, a.elems)
      OBVIOUS
    <3>9. PICK v : v = Mapped(PayloadSize, a.elems)
      OBVIOUS
    <3>10. u \in Seq(Nat) /\ Len(u) = t.n /\ \A i \in 1 .. Len(u) : u[i] = c
      BY <1>2, <1>7, <3>1, <3>4, <3>5, <3>6, <3>8, ElementsMapped
    <3>11. v \in Seq(Nat) /\ Len(v) = t.n /\ \A i \in 1 .. Len(v) : v[i] = d
      BY <1>3, <1>7, <3>1, <3>4, <3>5, <3>7, <3>9, ElementsMapped, SMTT(60)
    <3>12. Sum(u) = t.n * c
      BY <3>10, SumOfSame
    <3>13. Sum(v) = t.n * d
      BY <3>11, SumOfSame
    <3>14. CounterOverhead[a] = CounterSize(t) + t.n * c
      BY <1>7, <3>1, <3>8, <3>12, CountersAre
    <3>15. CounterOverheadOfType[t] = CounterSize(t) + c * t.n
      BY <1>4, <2>3, <3>3, <3>6, CounterOverheadOfTypeCases
    <3>16. c * t.n = t.n * c
      BY <3>2, <3>6
    <3>17. PayloadSize[a] = t.n * d
      BY <1>3, <1>7, <3>1, <3>9, <3>13, PayloadSizeCases
    <3>18. PayloadSizeOfType[t] = t.n * d
      BY <1>5, <2>3, <3>7, PayloadSizeOfTypeCases
    <3> QED BY <3>14, <3>15, <3>16, <3>17, <3>18
  <2>4. CASE t.class = "Tuple"
    <3>1. IsAggregate(t) /\ t.elems \in Seq(KnownTypes)
      BY <2>1, <2>4 DEF TypeOver, IsAggregate
    <3>2. \A i \in DOMAIN t.elems : Shallow[t.elems[i]]
      BY <2>2, <2>4 DEF ShallowStep
    <3>3. PICK n \in Nat : n = Len(t.elems)
      BY <3>1
    <3>4. DOMAIN t.elems = 1 .. n /\ Len(a.elems) = n /\ DOMAIN a.elems = 1 .. n
      BY <1>2, <1>7, <2>4, <3>1, <3>3, ArgIs, ElementsMapped
    <3>5. ASSUME NEW i \in 1 .. n
          PROVE  /\ CounterOverhead[a.elems[i]] = CounterOverheadOfType[t.elems[i]]
                 /\ PayloadSize[a.elems[i]] = PayloadSizeOfType[t.elems[i]]
      <4>1. a.elems[i] \in Elements /\ a.elems[i] \in PartsOfElement(a) /\ a.elems[i].type = t.elems[i]
        <5>1. i \in 1 .. Len(a.elems) /\ i \in DOMAIN a.elems /\ IsAggregate(a.type)
          BY Zenon, <1>7, <3>1, <3>4
        <5>2. a.elems[i] \in Elements /\ a.elems[i] \in PartsOfElement(a)
          BY Zenon, <1>2, <5>1, ElementsMapped
        <5>3. a.elems[i].type = a.type.elems[i]
          BY Zenon, <1>7, <2>4, <5>1, ArgIs
        <5> QED BY Zenon, <1>7, <5>2, <5>3
      <4>2. a.elems[i] \in T
        BY <1>7, <4>1
      <4>3. t.elems[i] \in KnownTypes /\ Shallow[t.elems[i]]
        BY <3>1, <3>2, <3>4
      <4> QED BY <4>1, <4>2, <4>3
    <3>6. Mapped(CounterOverhead, a.elems) = Mapped(CounterOverheadOfType, t.elems)
      BY <3>4, <3>5 DEF Mapped
    <3>7. Mapped(PayloadSize, a.elems) = Mapped(PayloadSizeOfType, t.elems)
      BY <3>4, <3>5 DEF Mapped
    <3>8. CounterOverhead[a] = CounterSize(t) + Sum(Mapped(CounterOverhead, a.elems))
      BY <1>7, <3>1, CountersAre
    <3>9. CounterOverheadOfType[t] = CounterSize(t) + Sum(Mapped(CounterOverheadOfType, t.elems))
      BY <1>4, <2>4, CounterOverheadOfTypeCases
    <3>10. PayloadSize[a] = Sum(Mapped(PayloadSize, a.elems))
      BY <1>3, <1>7, <3>1, PayloadSizeCases
    <3>11. PayloadSizeOfType[t] = Sum(Mapped(PayloadSizeOfType, t.elems))
      BY <1>5, <2>4, PayloadSizeOfTypeCases
    <3> QED BY Zenon, <3>6, <3>7, <3>8, <3>9, <3>10, <3>11
  <2>5. CASE ~IsAggregate(t)
    <3>1. CounterOverhead[a] = CounterSize(t) + 0 /\ CounterOverheadOfType[t] = CounterSize(t) + 0
      BY <1>2, <1>4, <1>7, <2>5, CounterOverheadCases, CounterOverheadOfTypeCases
    <3>2. CASE IsText(t)
      <4>1. t.class = "Literal"
        BY <2>1, <3>2 DEF IsText
      <4>2. a.value = t.chars - 1
        BY <1>7, <4>1, ArgIs
      <4>3. PayloadSize[a] = Padded(a.value * t.bytes, Word)
        BY <1>3, <1>7, <3>2, PayloadSizeCases
      <4>4. PayloadSizeOfType[t] = Padded((t.chars - 1) * t.bytes, Word)
        BY <1>5, <3>2, PayloadSizeOfTypeCases DEF LiteralSize
      <4> QED BY <3>1, <4>2, <4>3, <4>4
    <3>3. CASE ~IsText(t)
      <4>1. PayloadSize[a] = Padded(t.bytes, Word)
        BY <1>3, <1>7, <2>5, <3>3, PayloadSizeCases
      <4>2. PayloadSizeOfType[t] = Padded(t.bytes, Word)
        BY <1>5, <2>5, <3>3, PayloadSizeOfTypeCases
      <4> QED BY <3>1, <4>1, <4>2
    <3> QED BY <3>2, <3>3
  <2> QED BY <2>3, <2>4, <2>5 DEF IsAggregate
<1>8. ASSUME NEW a \in Elements, P[a] \subseteq T PROVE a \in T
  BY <1>7, <1>8
<1>9. T \in SUBSET Elements
  OBVIOUS
<1> HIDE DEF P, L, T
<1>10. T = Elements
  BY <1>1, <1>8, <1>9, TreeInduction
<1> QED BY <1>10 DEF T

-----------------------------------------------------------------------------
\* The sum of the first numbers.
LEMMA SumOfFirst ==
  ASSUME NEW u \in Seq(Nat), NEW f, IsSums(f, u), NEW j \in 0 .. Len(u), NEW v \in Seq(Nat), Len(v) = j,
         \A i \in 1 .. j : v[i] = u[i]
  PROVE  Sum(v) = f[j]
<1>1. PICK g : IsSums(g, v) /\ Sum(v) = g[Len(v)]
  BY SumIs
<1>2. PICK n \in Nat : n = Len(u)
  OBVIOUS
<1>3. j \in Nat /\ j <= n
  BY <1>2
<1> DEFINE T == {k \in 0 .. j : g[k] = f[k]}
<1>4. 0 \in T
  BY <1>1, <1>3 DEF IsSums
<1>5. ASSUME NEW k \in 1 .. j, k - 1 \in T PROVE k \in T
  <2>1. g[k] = g[k - 1] + v[k] /\ f[k] = f[k - 1] + u[k]
    BY <1>1, <1>2, <1>3, SMTT(60) DEF IsSums
  <2> QED BY <1>5, <2>1
<1>6. T \in SUBSET (0 .. j)
  OBVIOUS
<1> HIDE DEF T
<1>7. T = 0 .. j
  BY <1>3, <1>4, <1>5, <1>6, UpTo
<1>8. j \in T
  BY <1>3, <1>7
<1> QED BY <1>1, <1>8 DEF T

\* What is taken of the first n arguments, when sums[j] is the size of the first j:
\* either all, or so many that the next one did not fit.
IsTaken(taken, n, sums, most) ==
  /\ taken.num \in 0 .. n /\ taken.size = MessageHeader + sums[taken.num] /\ taken.full \in BOOLEAN
  /\ Padded(taken.size, MsgAlignment) <= most
  /\ ~taken.full => taken.num = n
  /\ taken.full => taken.num < n /\ Padded(MessageHeader + sums[taken.num + 1], MsgAlignment) > most

\* What is padded is a number.
LEMMA PaddedNat == ASSUME NEW x \in Nat PROVE Padded(x, MsgAlignment) \in Nat
<1>1. PICK d \in Nat : d = (x + 7) \div 8
  <2>1. (x + 7) \div 8 \in Nat
    BY SMT
  <2> QED BY <2>1
<1>2. Padded(x, MsgAlignment) = d * 8
  BY <1>1, SMT DEF Padded, MsgAlignment
<1> QED BY <1>1, <1>2

\* Another argument is taken, or it is the first that does not fit.
LEMMA OneMoreTaken ==
  ASSUME NEW taken, NEW n \in Nat, NEW N \in Nat, n < N, NEW sums \in [0 .. N -> Nat], NEW most \in Nat, NEW a,
         ArgSize(a) \in Nat, sums[n + 1] = sums[n] + ArgSize(a), IsTaken(taken, n, sums, most)
  PROVE  IsTaken(AddArgSize(taken, a, most), n + 1, sums, most)
<1>1. /\ taken.num \in 0 .. n /\ taken.size = MessageHeader + sums[taken.num] /\ taken.full \in BOOLEAN
      /\ Padded(taken.size, MsgAlignment) <= most
      /\ ~taken.full => taken.num = n
      /\ taken.full => taken.num < n /\ Padded(MessageHeader + sums[taken.num + 1], MsgAlignment) > most
  BY DEF IsTaken
<1>2. n + 1 \in 0 .. N /\ n \in 0 .. N
  OBVIOUS
<1>3. PICK size : size = taken.size + ArgSize(a)
  OBVIOUS
<1>4. taken.size \in Nat /\ size \in Nat
  <2>1. PICK k \in 0 .. n : k = taken.num
    BY <1>1
  <2>2. k \in 0 .. N
    OBVIOUS
  <2>3. PICK x \in Nat : x = sums[k]
    BY <2>2
  <2>4. taken.size = 20 + x
    BY <1>1, <2>1, <2>3 DEF MessageHeader
  <2> QED BY <1>3, <2>4
<1>5. Padded(size, MsgAlignment) \in Nat
  BY <1>4, PaddedNat
<1>6. ~taken.full => size = MessageHeader + sums[n + 1]
  <2>1. sums[n] \in Nat /\ sums[n + 1] \in Nat
    BY <1>2
  <2> QED BY <1>1, <1>3, <2>1 DEF MessageHeader
<1>7. CASE ~taken.full /\ Padded(size, MsgAlignment) <= most
  <2>1. PICK new : new = Taken(size, taken.num + 1, FALSE)
    OBVIOUS
  <2>2. new.size = size /\ new.num = n + 1 /\ new.full = FALSE
    BY <1>1, <1>7, <2>1 DEF Taken
  <2>3. AddArgSize(taken, a, most) = new
    BY <1>3, <1>7, <2>1 DEF AddArgSize
  <2>4. IsTaken(new, n + 1, sums, most)
    <3>1. new.num \in 0 .. n + 1 /\ new.size = MessageHeader + sums[new.num] /\ new.full \in BOOLEAN
      <4>1. n + 1 \in 0 .. n + 1
        OBVIOUS
      <4> QED BY <1>6, <1>7, <2>2, <4>1
    <3>2. Padded(new.size, MsgAlignment) <= most
      BY <1>7, <2>2
    <3> QED BY Zenon, <2>2, <3>1, <3>2 DEF IsTaken
  <2> QED BY <2>3, <2>4
<1>8. CASE taken.full
  <2>1. PICK new : new = Taken(taken.size, taken.num, TRUE)
    OBVIOUS
  <2>2. new.size = taken.size /\ new.num = taken.num /\ new.full = TRUE
    BY <2>1 DEF Taken
  <2>3. AddArgSize(taken, a, most) = new
    BY <1>3, <1>8, <2>1 DEF AddArgSize
  <2>4. IsTaken(new, n + 1, sums, most)
    <3>1. PICK k \in 0 .. n : k = taken.num
      BY <1>1
    <3>2. k \in 0 .. n + 1 /\ k < n + 1
      OBVIOUS
    <3>3. new.num = k /\ new.size = MessageHeader + sums[k] /\ Padded(new.size, MsgAlignment) <= most
      BY <1>1, <2>2, <3>1
    <3>4. Padded(MessageHeader + sums[k + 1], MsgAlignment) > most
      BY <1>1, <1>8, <3>1
    <3> QED BY Zenon, <2>2, <3>2, <3>3, <3>4 DEF IsTaken
  <2> QED BY <2>3, <2>4
<1>9. CASE ~taken.full /\ ~(Padded(size, MsgAlignment) <= most)
  <2>1. PICK new : new = Taken(taken.size, taken.num, TRUE)
    OBVIOUS
  <2>2. new.size = taken.size /\ new.num = n /\ new.full = TRUE /\ taken.num = n
    BY <1>1, <1>9, <2>1 DEF Taken
  <2>3. AddArgSize(taken, a, most) = new
    BY <1>3, <1>9, <2>1 DEF AddArgSize
  <2>5. Padded(MessageHeader + sums[n + 1], MsgAlignment) > most
    BY <1>5, <1>6, <1>9
  <2>4. IsTaken(new, n + 1, sums, most)
    <3>1. n \in 0 .. n + 1 /\ n < n + 1
      OBVIOUS
    <3>2. new.size = MessageHeader + sums[n] /\ Padded(new.size, MsgAlignment) <= most
      BY <1>1, <2>2
    <3> QED BY Zenon, <2>2, <2>5, <3>1, <3>2 DEF IsTaken
  <2> QED BY <2>3, <2>4
<1> QED BY <1>1, <1>7, <1>8, <1>9

\* The sizes of arguments
ArgSizes(s) == [i \in DOMAIN s |-> ArgSize(s[i])]

\* They are numbers.
LEMMA ArgSizesAre ==
  ASSUME NEW s \in Seq(Elements)
  PROVE  /\ ArgSizes(s) \in Seq(Nat) /\ Len(ArgSizes(s)) = Len(s) /\ Len(s) \in Nat
         /\ \A i \in 1 .. Len(s) : s[i] \in Elements /\ ArgSizes(s)[i] = ArgSize(s[i])
<1>1. PICK n \in Nat : n = Len(s)
  OBVIOUS
<1>2. DOMAIN s = 1 .. n /\ \A i \in 1 .. n : s[i] \in Elements
  BY <1>1
<1>3. \A i \in 1 .. n : ArgSize(s[i]) \in Nat
  BY <1>2, ArgIsWritten
<1>4. PICK u : u = ArgSizes(s)
  OBVIOUS
<1>5. u \in [1 .. n -> Nat] /\ \A i \in 1 .. n : u[i] = ArgSize(s[i])
  BY <1>2, <1>3, <1>4 DEF ArgSizes
<1>6. u \in Seq(Nat) /\ Len(u) = n
  BY <1>5
<1> QED BY <1>1, <1>2, <1>4, <1>5, <1>6

\* What TakeFitting makes of the arguments, one after the other.
LEMMA TakeFittingIs ==
  ASSUME NEW s \in Seq(Elements), NEW sums, IsSums(sums, ArgSizes(s)),
         NEW most \in Nat, Padded(MessageHeader, MsgAlignment) <= most
  PROVE  \E taken : IsTaken(taken, Len(s), sums, most) /\ TakeFitting(s, most) = [size |-> taken.size, num |-> taken.num]
<1>1. PICK n \in Nat : n = Len(s)
  OBVIOUS
<1> DEFINE F(f) == f = [k \in 0 .. n |-> IF k = 0 THEN Taken(MessageHeader, 0, FALSE) ELSE AddArgSize(f[k - 1], s[k], most)]
           U == [size : Int, num : Nat, full : BOOLEAN]
<1>2. \A i \in 1 .. n : s[i] \in Elements /\ ArgSize(s[i]) \in Nat
  BY <1>1, ArgIsWritten
<1>3. Len(ArgSizes(s)) = n /\ \A i \in 1 .. n : ArgSizes(s)[i] = ArgSize(s[i])
  BY <1>1, ArgSizesAre
<1>4. sums \in [0 .. n -> Nat] /\ sums[0] = 0 /\ \A k \in 1 .. n : sums[k] = sums[k - 1] + ArgSize(s[k])
  BY <1>3 DEF IsSums
<1> DEFINE G == [x \in Nat \X U |-> IF x[1] \in 1 .. n THEN AddArgSize(x[2], s[x[1]], most) ELSE Taken(0, 0, FALSE)]
<1>5. G \in [Nat \X U -> U]
  <2>1. Taken(0, 0, FALSE) \in U
    BY DEF Taken
  <2>2. ASSUME NEW k \in 1 .. n, NEW t \in U PROVE AddArgSize(t, s[k], most) \in U
    <3>1. PICK size \in Int : size = t.size + ArgSize(s[k])
      BY <1>2
    <3>2. Taken(size, t.num + 1, FALSE) \in U /\ Taken(t.size, t.num, TRUE) \in U
      BY DEF Taken
    <3> QED BY <3>1, <3>2 DEF AddArgSize
  <2>3. \A x \in Nat \X U : x[1] \in Nat /\ x[2] \in U
    OBVIOUS
  <2> HIDE DEF U
  <2> QED BY <2>1, <2>2, <2>3
<1>6. Taken(MessageHeader, 0, FALSE) \in U
  BY DEF Taken, MessageHeader
<1>7. PICK f \in [0 .. n -> U] : Turns(f, G, Taken(MessageHeader, 0, FALSE), n)
  <2> HIDE DEF G, U
  <2> QED BY <1>5, <1>6, TurnsExist
<1> HIDE DEF U
<1>8. F(f)
  <2>1. ASSUME NEW k \in 0 .. n PROVE f[k] = IF k = 0 THEN Taken(MessageHeader, 0, FALSE) ELSE AddArgSize(f[k - 1], s[k], most)
    <3>1. CASE k = 0
      BY <1>7, <3>1 DEF Turns
    <3>2. CASE k # 0
      <4>1. k \in 1 .. n /\ k - 1 \in 0 .. n /\ k \in Nat
        BY <3>2
      <4>2. f[k] = G[<<k, f[k - 1]>>] /\ f[k - 1] \in U
        BY <1>7, <4>1 DEF Turns
      <4> QED BY <3>2, <4>1, <4>2
    <3> QED BY <3>1, <3>2
  <2>2. f = [k \in 0 .. n |-> f[k]]
    BY <1>7
  <2> HIDE DEF G
  <2> QED BY Zenon, <2>1, <2>2
<1> DEFINE h == CHOOSE g : F(g)
<1>9. F(h)
  BY Zenon, <1>8
<1>10. TakeFitting(s, most) = [size |-> h[n].size, num |-> h[n].num]
  BY <1>1 DEF TakeFitting
<1> HIDE DEF h, G
<1>11. h[0] = Taken(MessageHeader, 0, FALSE) /\ \A k \in 1 .. n : h[k] = AddArgSize(h[k - 1], s[k], most)
  BY <1>9
<1> DEFINE T == {k \in 0 .. n : IsTaken(h[k], k, sums, most)}
<1>12. 0 \in T
  <2>1. h[0].size = MessageHeader /\ h[0].num = 0 /\ h[0].full = FALSE
    BY <1>11 DEF Taken
  <2>2. MessageHeader + sums[0] = MessageHeader
    BY <1>4 DEF MessageHeader
  <2>3. IsTaken(h[0], 0, sums, most)
    <3>1. 0 \in 0 .. 0
      OBVIOUS
    <3> QED BY Zenon, <2>1, <2>2, <3>1 DEF IsTaken
  <2> QED BY <2>3
<1>13. ASSUME NEW k \in 1 .. n, k - 1 \in T PROVE k \in T
  <2>1. PICK m \in Nat : m = k - 1
    OBVIOUS
  <2>2. m < n /\ k = m + 1 /\ IsTaken(h[m], m, sums, most)
    BY <1>13, <2>1
  <2>3. ArgSize(s[k]) \in Nat /\ sums[m + 1] = sums[m] + ArgSize(s[k])
    BY <1>2, <1>4, <2>1, <2>2
  <2>4. IsTaken(AddArgSize(h[m], s[k], most), m + 1, sums, most)
    BY <1>4, <2>2, <2>3, OneMoreTaken
  <2>5. h[k] = AddArgSize(h[m], s[k], most)
    BY <1>11, <2>1
  <2> QED BY <2>2, <2>4, <2>5
<1>14. T \in SUBSET (0 .. n)
  OBVIOUS
<1> HIDE DEF T
<1>15. T = 0 .. n
  BY <1>12, <1>13, <1>14, UpTo
<1>16. n \in T
  BY <1>15
<1>17. IsTaken(h[n], n, sums, most)
  BY <1>16 DEF T
<1> QED BY <1>1, <1>10, <1>17

\* The first arguments are written as long as was computed.
LEMMA ArgsAreWritten ==
  ASSUME NEW s \in Seq(Elements), NEW sums, IsSums(sums, ArgSizes(s)), NEW j \in 0 .. Len(s)
  PROVE  Word * Len(WriteArgs(s, j)) = sums[j] /\ sums[j] \in Nat
<1>1. PICK n \in Nat : n = Len(s)
  OBVIOUS
<1>2. ArgSizes(s) \in Seq(Nat) /\ Len(ArgSizes(s)) = n /\ \A i \in 1 .. n : s[i] \in Elements /\ ArgSizes(s)[i] = ArgSize(s[i])
  BY <1>1, ArgSizesAre
<1>3. j \in Nat /\ j <= n
  BY <1>1
<1>4. PICK R : R = Seq(MessageWords)
  OBVIOUS
<1>5. PICK ss : ss = [i \in 1 .. j |-> WriteArg(s[i])]
  OBVIOUS
<1>6. \A i \in 1 .. j : s[i] \in Elements /\ WriteArg(s[i]) \in R /\ Word * Len(WriteArg(s[i])) = ArgSize(s[i]) /\ ArgSize(s[i]) \in Nat
  <2>1. ASSUME NEW i \in 1 .. j PROVE s[i] \in Elements
    BY <1>2, <1>3
  <2> QED BY <1>4, <2>1, ArgIsWritten
<1>7. ss \in [1 .. j -> R] /\ \A i \in 1 .. j : ss[i] = WriteArg(s[i])
  BY <1>5, <1>6
<1>8. ss \in Seq(R) /\ Len(ss) = j
  BY <1>3, <1>7
<1>9. PICK v : v = [i \in 1 .. j |-> ArgSize(s[i])]
  OBVIOUS
<1>10. v \in [1 .. j -> Nat] /\ \A i \in 1 .. j : v[i] = ArgSize(s[i])
  BY <1>6, <1>9
<1>11. v \in Seq(Nat) /\ Len(v) = j
  BY <1>3, <1>10
<1>12. \A i \in 1 .. j : v[i] = Word * Len(ss[i])
  BY <1>6, <1>7, <1>10
<1>13. Word * Len(FlattenSeq(ss)) = Sum(v)
  <2>1. ss \in Seq(Seq(MessageWords))
    BY <1>4, <1>8
  <2>2. Word \in Nat
    BY DEF Word
  <2> QED BY <1>8, <1>11, <1>12, <2>1, <2>2, FlattenLen, SMTT(60)
<1>14. Sum(v) = sums[j]
  <2>1. \A i \in 1 .. j : v[i] = ArgSizes(s)[i]
    BY <1>2, <1>3, <1>10
  <2>2. j \in 0 .. Len(ArgSizes(s))
    BY <1>2, <1>3
  <2> QED BY <1>2, <1>11, <2>1, <2>2, SumOfFirst
<1>15. WriteArgs(s, j) = FlattenSeq(ss)
  BY <1>5 DEF WriteArgs
<1>16. sums[j] \in Nat
  BY <1>2, <1>3 DEF IsSums
<1> QED BY <1>13, <1>14, <1>15, <1>16

\* The sizes computed from types.
SizesOfTypes(s) == [i \in DOMAIN s |-> ArgSizeOfType(s[i].type)]

\* A message fits, and the argument that would be next does not.
LEMMA ComputedFits ==
  ASSUME NEW s \in Seq(Elements), NEW most \in Nat, Padded(MessageHeader, MsgAlignment) <= most,
         NEW r, r = ComputeSize(s, most)
  PROVE  /\ Padded(r.size, MsgAlignment) <= most /\ r.num \in 0 .. Len(s)
         /\ r.num < Len(s) => Padded(MessageHeader + Word * Len(WriteArgs(s, r.num + 1)), MsgAlignment) > most
<1>1. PICK n \in Nat : n = Len(s)
  OBVIOUS
<1>2. PICK size : size = MessageHeader + Sum(SizesOfTypes(s))
  OBVIOUS
<1>3. CASE (\A i \in DOMAIN s : SizeKnown[s[i].type]) /\ Padded(size, MsgAlignment) <= most
  <2>1. r = [size |-> size, num |-> Len(s)]
    BY <1>2, <1>3 DEF ComputeSize, SizesOfTypes
  <2>2. r.size = size /\ r.num = n
    BY <1>1, <2>1
  <2> QED BY <1>1, <1>3, <2>2
<1>4. CASE ~((\A i \in DOMAIN s : SizeKnown[s[i].type]) /\ Padded(size, MsgAlignment) <= most)
  <2>1. r = TakeFitting(s, most)
    BY <1>2, <1>4 DEF ComputeSize, SizesOfTypes
  <2>2. PICK sums : IsSums(sums, ArgSizes(s))
    BY ArgSizesAre, SumIs
  <2>3. PICK taken : IsTaken(taken, n, sums, most) /\ r = [size |-> taken.size, num |-> taken.num]
    BY <1>1, <2>1, <2>2, TakeFittingIs
  <2>4. r.size = taken.size /\ r.num = taken.num /\ r.num \in 0 .. n /\ Padded(r.size, MsgAlignment) <= most
    BY <2>3 DEF IsTaken
  <2>5. ASSUME r.num < n PROVE Padded(MessageHeader + Word * Len(WriteArgs(s, r.num + 1)), MsgAlignment) > most
    <3>1. Padded(MessageHeader + sums[r.num + 1], MsgAlignment) > most
      BY <2>3, <2>4, <2>5 DEF IsTaken
    <3>2. r.num + 1 \in 0 .. n
      BY <2>4, <2>5
    <3>3. PICK j \in 0 .. n : j = r.num + 1
      BY <3>2
    <3>4. Word * Len(WriteArgs(s, j)) = sums[j]
      BY <1>1, <2>2, ArgsAreWritten
    <3> QED BY Zenon, <3>1, <3>3, <3>4
  <2> QED BY <1>1, <2>4, <2>5
<1> QED BY <1>3, <1>4

\* The size that is computed is what is written.
LEMMA ComputedIsWritten ==
  ASSUME NEW s \in Seq(Elements), NEW most \in Nat, Padded(MessageHeader, MsgAlignment) <= most,
         NEW r, r = ComputeSize(s, most),
         (\A i \in DOMAIN s : SizeKnown[s[i].type]) => \A i \in DOMAIN s : Shallow[s[i].type]
  PROVE  MessageHeader + Word * Len(WriteArgs(s, r.num)) = r.size
<1>1. PICK n \in Nat : n = Len(s)
  OBVIOUS
<1>2. PICK size : size = MessageHeader + Sum(SizesOfTypes(s))
  OBVIOUS
<1>5. PICK sums : IsSums(sums, ArgSizes(s)) /\ Sum(ArgSizes(s)) = sums[Len(ArgSizes(s))]
  BY ArgSizesAre, SumIs
<1>3. CASE (\A i \in DOMAIN s : SizeKnown[s[i].type]) /\ Padded(size, MsgAlignment) <= most
  <2>1. r = [size |-> size, num |-> Len(s)]
    BY <1>2, <1>3 DEF ComputeSize, SizesOfTypes
  <2>2. r.size = size /\ r.num = n
    BY <1>1, <2>1
  <2>3. ASSUME NEW i \in DOMAIN s PROVE ArgSizeOfType(s[i].type) = ArgSize(s[i])
    <3>1. s[i] \in Elements
      OBVIOUS
    <3>2. s[i].type \in KnownTypes /\ Shallow[s[i].type]
      BY <1>3, <3>1, ElementIs DEF KnownTypes, ElementOver
    <3>3. CounterOverheadOfType[s[i].type] = CounterOverhead[s[i]] /\ PayloadSizeOfType[s[i].type] = PayloadSize[s[i]]
      BY Zenon, <3>1, <3>2, TypeSizeIsSize
    <3> QED BY <3>3 DEF ArgSizeOfType, ArgSize
  <2>4. SizesOfTypes(s) = ArgSizes(s)
    BY <2>3 DEF SizesOfTypes, ArgSizes
  <2>5. Len(ArgSizes(s)) = n
    BY <1>1, ArgSizesAre
  <2>6. size = MessageHeader + sums[n]
    BY <1>2, <1>5, <2>4, <2>5
  <2>7. n \in 0 .. n
    OBVIOUS
  <2>8. Word * Len(WriteArgs(s, n)) = sums[n]
    BY <1>1, <1>5, <2>7, ArgsAreWritten
  <2> QED BY <2>2, <2>6, <2>8
<1>4. CASE ~((\A i \in DOMAIN s : SizeKnown[s[i].type]) /\ Padded(size, MsgAlignment) <= most)
  <2>1. r = TakeFitting(s, most)
    BY <1>2, <1>4 DEF ComputeSize, SizesOfTypes
  <2>3. PICK taken : IsTaken(taken, n, sums, most) /\ r = [size |-> taken.size, num |-> taken.num]
    BY <1>1, <1>5, <2>1, TakeFittingIs
  <2>4. r.size = MessageHeader + sums[r.num] /\ r.num \in 0 .. n
    BY <2>3 DEF IsTaken
  <2>5. PICK j \in 0 .. n : j = r.num
    BY <2>4
  <2>6. Word * Len(WriteArgs(s, j)) = sums[j]
    BY <1>1, <1>5, ArgsAreWritten
  <2> QED BY Zenon, <2>4, <2>5, <2>6
<1> QED BY <1>3, <1>4

-----------------------------------------------------------------------------
\* What a call has computed and written so far.
MessageI ==
  /\ phase \in {"idle", "called", "sized", "written", "formatted"}
  /\ args \in Seq(Elements)
  /\ phase # "idle" => max \in Nat /\ Padded(MessageHeader, MsgAlignment) <= max
  /\ phase \in {"sized", "written", "formatted"} => reserved = ComputeSize(args, max)
  /\ phase \in {"written", "formatted"} => words = WriteArgs(args, reserved.num)

\* Simple arguments are elements.
LEMMA SimpleElements == ASSUME NEW a \in [type : SimpleTypes, value : Nat], IsArg(a) PROVE a \in Elements
<1>1. 0 \in 0 .. MaxNesting
  BY LogArgsAssumption
<1>2. ElementsTo[0] = ElementsOn(0, ElementsTo[0 - 1])
  BY <1>1, ElementsToIs
<1>3. a \in ElementsTo[0]
  BY <1>2 DEF ElementsOn
<1> QED BY <1>1, <1>3, ElementsGrow

\* What the flags add are elements.
LEMMA MetaArgIs == \A name \in {"Logger", "Thread", "File", "Line", "Function"} : MetaArg(name) \in Elements
<1>1. ASSUME NEW a, a = Arg(Simple("Smallstring", 0, 32), 1) PROVE a \in Elements
  <2>1. PICK t : t = Simple("Smallstring", 0, 32)
    OBVIOUS
  <2>2. t \in DataTypes /\ t.class = "Smallstring"
    BY <2>1 DEF Simple, DataTypes
  <2>3. a \in [type : SimpleTypes, value : Nat] /\ a.type = t
    BY <1>1, <2>1, <2>2 DEF Arg, SimpleTypes
  <2>4. IsArg(a)
    BY <2>2, <2>3 DEF IsArg
  <2> QED BY <2>3, <2>4, SimpleElements
<1>2. ASSUME NEW a, a = Arg(Simple("Integral", 1, 4), 1) PROVE a \in Elements
  <2>1. PICK t : t = Simple("Integral", 1, 4)
    OBVIOUS
  <2>2. t \in DataTypes /\ t.class = "Integral"
    BY <2>1 DEF Simple, DataTypes
  <2>3. a \in [type : SimpleTypes, value : Nat] /\ a.type = t
    BY <1>2, <2>1, <2>2 DEF Arg, SimpleTypes
  <2>4. IsArg(a)
    BY <2>2, <2>3 DEF IsArg
  <2> QED BY <2>3, <2>4, SimpleElements
<1>3. ASSUME NEW a, a = Arg(Literal(0, 1, 6), 5) PROVE a \in Elements
  <2>1. PICK t : t = Literal(0, 1, 6)
    OBVIOUS
  <2>2. t \in LiteralTypes /\ t.class = "Literal" /\ t.chars = 6
    BY <2>1 DEF Literal, LiteralTypes
  <2>3. a \in [type : SimpleTypes, value : Nat] /\ a.type = t /\ a.value = 5
    BY <1>3, <2>1, <2>2 DEF Arg, SimpleTypes
  <2>4. IsArg(a)
    BY <2>2, <2>3 DEF IsArg
  <2> QED BY <2>3, <2>4, SimpleElements
<1>4. /\ MetaArg("Logger") = Arg(Simple("Smallstring", 0, 32), 1) /\ MetaArg("Thread") = Arg(Simple("Smallstring", 0, 32), 1)
      /\ MetaArg("File") = Arg(Literal(0, 1, 6), 5) /\ MetaArg("Function") = Arg(Literal(0, 1, 6), 5)
      /\ MetaArg("Line") = Arg(Simple("Integral", 1, 4), 1)
  BY DEF MetaArg
<1> QED BY <1>1, <1>2, <1>3, <1>4

\* The call.
LEMMA LogIs == ASSUME MessageI, NEW c \in Calls, NEW size \in MaxSizes, Log(c, size) PROVE MessageI'
<1>1. c.text \in Elements /\ c.args \in Seq(Elements) /\ size \in Nat /\ Padded(MessageHeader, MsgAlignment) <= size
  BY LogMessageAssumption
<1> DEFINE Added(name) == IF name \in c.flags THEN <<MetaArg(name)>> ELSE <<>>
<1>2. \A name \in {"Logger", "Thread", "File", "Line", "Function"} : Added(name) \in Seq(Elements)
  BY MetaArgIs
<1>3. <<c.text>> \in Seq(Elements)
  BY <1>1
<1>4. args' = Added("Logger") \o Added("Thread") \o Added("File") \o Added("Line") \o Added("Function") \o <<c.text>> \o c.args
  BY DEF Log
<1> HIDE DEF Added
<1>5. args' \in Seq(Elements)
  <2>1. Added("Logger") \o Added("Thread") \in Seq(Elements)
    BY <1>2, ConcatIn
  <2>2. Added("Logger") \o Added("Thread") \o Added("File") \in Seq(Elements)
    BY <1>2, <2>1, ConcatIn
  <2>3. Added("Logger") \o Added("Thread") \o Added("File") \o Added("Line") \in Seq(Elements)
    BY <1>2, <2>2, ConcatIn
  <2>4. Added("Logger") \o Added("Thread") \o Added("File") \o Added("Line") \o Added("Function") \in Seq(Elements)
    BY <1>2, <2>3, ConcatIn
  <2>5. Added("Logger") \o Added("Thread") \o Added("File") \o Added("Line") \o Added("Function") \o <<c.text>> \in Seq(Elements)
    BY <1>3, <2>4, ConcatIn
  <2> QED BY <1>1, <1>4, <2>5, ConcatIn
<1>6. phase' = "called" /\ max' = size
  BY DEF Log
<1> QED BY <1>1, <1>5, <1>6 DEF MessageI

\* No call has been made.
LEMMA MessageInitI == ASSUME MessageInit PROVE MessageI
BY DEF MessageInit, MessageI

\* Every step of a call.
LEMMA MessageNextI == ASSUME MessageI, [MessageNext]_messageVars PROVE MessageI'
<1>1. ASSUME NEW c \in Calls, NEW size \in MaxSizes, Log(c, size) PROVE MessageI'
  BY <1>1, LogIs
<1>2. CASE ComputeMsgSize
  BY <1>2 DEF ComputeMsgSize, MessageI
<1>3. CASE WriteMessage
  BY <1>3 DEF WriteMessage, MessageI
<1>4. CASE ReadMessage
  BY <1>4 DEF ReadMessage, MessageI
<1>5. CASE UNCHANGED messageVars
  BY <1>5 DEF messageVars, MessageI
<1> QED BY <1>1, <1>2, <1>3, <1>4, <1>5 DEF MessageNext

\* What write_message() writes is as long as the room that was reserved for it,
\* whatever the arguments are, except where an array has elements with counters
\* inside them and the size of every argument is taken from its type.
THEOREM MessageIsAsLongAsReserved == MessageSpec => [](ArgsAreShallow => SizeIsWritten)
<1>1. ASSUME MessageI PROVE ArgsAreShallow => SizeIsWritten
  <2>1. SUFFICES ASSUME ArgsAreShallow, phase \in {"written", "formatted"}
                 PROVE  MessageHeader + Word * Len(words) = reserved.size
    BY DEF SizeIsWritten
  <2>2. /\ args \in Seq(Elements) /\ max \in Nat /\ Padded(MessageHeader, MsgAlignment) <= max
        /\ reserved = ComputeSize(args, max) /\ words = WriteArgs(args, reserved.num)
    BY <1>1, <2>1 DEF MessageI
  <2>3. (\A i \in DOMAIN args : SizeKnown[args[i].type]) => \A i \in DOMAIN args : Shallow[args[i].type]
    BY <2>1 DEF ArgsAreShallow
  <2>4. MessageHeader + Word * Len(WriteArgs(args, reserved.num)) = reserved.size
    BY <2>2, <2>3, ComputedIsWritten
  <2> QED BY <2>2, <2>4
<1> QED BY <1>1, MessageInitI, MessageNextI, PTL DEF MessageSpec

\* A message fits into the ring, and arguments are left out by compute_msg_size()
\* only where the next one would not have fitted.
THEOREM NothingIsLeftOutThatFits == MessageSpec => []CroppedOnlyIfTooLong
<1>1. ASSUME MessageI PROVE CroppedOnlyIfTooLong
  <2>1. SUFFICES ASSUME phase \in {"sized", "written", "formatted"}
                 PROVE  /\ Padded(reserved.size, MsgAlignment) <= max
                        /\ Cropped => Padded(MessageHeader + Word * Len(WriteArgs(args, reserved.num + 1)), MsgAlignment) > max
    BY DEF CroppedOnlyIfTooLong
  <2>2. /\ args \in Seq(Elements) /\ max \in Nat /\ Padded(MessageHeader, MsgAlignment) <= max
        /\ reserved = ComputeSize(args, max)
    BY <1>1, <2>1 DEF MessageI
  <2> QED BY <2>2, ComputedFits DEF Cropped
<1> QED BY <1>1, MessageInitI, MessageNextI, PTL DEF MessageSpec
=============================================================================
