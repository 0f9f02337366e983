---------------------------- MODULE TextProofs -----------------------------
(***************************************************************************)
(* Texts written into the line, for every text, broken or not, in every    *)
(* encoding, every format and every room: decoding is right, nothing that  *)
(* cannot be printed is written, no character is swallowed, what is cut is *)
(* told, and a field is as wide as its format says.  And specifications:   *)
(* a text is accepted if and only if it is one, and its parts are read.    *)
(*                                                                         *)
(* A conversion into little room is compared with a loop that has always   *)
(* room (IsPure): it stops where that loop is at some turn, and short of   *)
(* its end only with an error.  What either writes is a text (IsSafeText): *)
(* characters that are safe, one after the other, so that it can be cut    *)
(* and counted where no byte continues a character.                        *)
(*                                                                         *)
(* The specifications are a product of sets of texts, one for each part    *)
(* (SpecTexts).  No part begins like one that may follow it, so that what  *)
(* is skipped is that part.                                                *)
(***************************************************************************)
EXTENDS TextField, FormatSpec, FiniteSetTheorems, WellFoundedInduction, TLAPS

\* f[n] are the first n of the sequences ss, joined.
IsFlat(ss, f, n) == \A i \in 1 .. n : f[i] = IF i = 1 THEN ss[i] ELSE f[i - 1] \o ss[i]

\* A set of naturals that is not empty has a least element.
LEMMA LeastOf ==
  ASSUME NEW T \in SUBSET Nat, T # {}
  PROVE  \E n \in T : \A m \in T : n <= m
<1> DEFINE R == OpToRel(<, Nat)
<1>1. IsWellFoundedOn(R, Nat)
  BY NatLessThanWellFounded
<1>2. \A m, n \in Nat : m < n => <<m, n>> \in R
  BY DEF OpToRel
<1> HIDE DEF R
<1>3. PICK n \in T : \A m \in T : ~(<<m, n>> \in R)
  BY <1>1, WFMin
<1>4. \A m \in T : m \in Nat /\ n \in Nat /\ ~(m < n)
  BY <1>2, <1>3
<1>5. \A m \in T : n <= m
  BY <1>4
<1> QED  BY <1>5

\* Sequences joined are a sequence.
LEMMA ConcatIn == ASSUME NEW S, NEW s \in Seq(S), NEW t \in Seq(S) PROVE s \o t \in Seq(S)
OBVIOUS

\* An element behind a sequence, place by place.
LEMMA AppendIs ==
  ASSUME NEW S, NEW s \in Seq(S), NEW x \in S
  PROVE  /\ Append(s, x) \in Seq(S) /\ Append(s, x) # <<>> /\ Len(Append(s, x)) = Len(s) + 1
         /\ \A i \in 1 .. Len(s) : Append(s, x)[i] = s[i]
         /\ Append(s, x)[Len(s) + 1] = x
OBVIOUS

\* An element behind two sequences is behind the second.
LEMMA AppendAfter ==
  ASSUME NEW S, NEW s \in Seq(S), NEW t \in Seq(S), NEW x \in S
  PROVE  s \o Append(t, x) = Append(s \o t, x)
<1>1. s \o t \in Seq(S) /\ Append(t, x) \in Seq(S)
  OBVIOUS
<1> QED BY <1>1

\* A sequence is the function of its places.
LEMMA SeqIsFunction ==
  ASSUME NEW S, NEW s \in Seq(S), NEW k \in Nat, DOMAIN s = 1 .. k
  PROVE  s = [n \in 1 .. k |-> s[n]]
OBVIOUS

\* There is a function that joins one sequence after the other, and one only.
LEMMA FlatExists ==
  ASSUME NEW S, NEW ss \in Seq(Seq(S)), NEW n \in 0 .. Len(ss)
  PROVE  \E f \in [1 .. n -> Seq(S)] : IsFlat(ss, f, n)
<1> DEFINE P(k) == \E f \in [1 .. k -> Seq(S)] : IsFlat(ss, f, k)
           T == {k \in 0 .. Len(ss) : ~P(k)}
<1>1. SUFFICES ASSUME T # {} PROVE FALSE
  OBVIOUS
<1>2. Len(ss) \in Nat /\ T \in SUBSET Nat
  OBVIOUS
<1>3. PICK k \in T : \A m \in T : k <= m
  BY <1>1, <1>2, LeastOf
<1>4. k \in Nat /\ k <= Len(ss) /\ ~P(k)
  BY <1>2, <1>3
<1>5. CASE k = 0
  <2>1. <<>> \in [1 .. 0 -> Seq(S)] /\ IsFlat(ss, <<>>, 0)
    BY DEF IsFlat
  <2> QED BY <1>4, <1>5, <2>1
<1>6. CASE k # 0
  <2>1. k - 1 \in 0 .. Len(ss) /\ ~(k <= k - 1)
    BY <1>2, <1>4, <1>6
  <2>2. P(k - 1)
    BY <1>3, <2>1
  <2>3. PICK f \in [1 .. k - 1 -> Seq(S)] : IsFlat(ss, f, k - 1)
    BY <2>2
  <2>4. ss[k] \in Seq(S)
    BY <1>4, <1>6
  <2> DEFINE g == [i \in 1 .. k |-> IF i = k THEN IF k = 1 THEN ss[k] ELSE f[k - 1] \o ss[k] ELSE f[i]]
  <2>5. ASSUME NEW i \in 1 .. k
        PROVE  g[i] \in Seq(S) /\ g[i] = IF i = 1 THEN ss[i] ELSE g[i - 1] \o ss[i]
    <3>1. CASE i = k /\ k = 1
      BY <2>4, <3>1
    <3>2. CASE i = k /\ k # 1
      <4>1. k - 1 \in 1 .. k - 1 /\ k - 1 \in 1 .. k /\ k - 1 # k
        BY <1>4, <1>6, <3>2
      <4>2. f[k - 1] \in Seq(S)
        BY <2>3, <4>1
      <4>3. g[i] = f[k - 1] \o ss[k] /\ g[i - 1] = f[k - 1]
        BY <3>2, <4>1
      <4> HIDE DEF g
      <4>4. f[k - 1] \o ss[k] \in Seq(S)
        BY <2>4, <4>2, ConcatIn
      <4>5. g[i] \in Seq(S)
        BY <4>3, <4>4
      <4>6. i # 1 /\ ss[i] = ss[k]
        BY <3>2
      <4>7. g[i] = g[i - 1] \o ss[i]
        BY <4>3, <4>6
      <4> QED BY <4>5, <4>6, <4>7
    <3>3. CASE i # k
      <4>1. i \in 1 .. k - 1 /\ (i # 1 => i - 1 \in 1 .. k - 1 /\ i - 1 \in 1 .. k /\ i - 1 # k)
        BY <1>4, <1>6, <3>3
      <4>2. g[i] = f[i] /\ f[i] \in Seq(S) /\ (i # 1 => g[i - 1] = f[i - 1])
        BY <2>3, <3>3, <4>1
      <4>3. f[i] = IF i = 1 THEN ss[i] ELSE f[i - 1] \o ss[i]
        BY <2>3, <4>1 DEF IsFlat
      <4> HIDE DEF g
      <4> QED BY <4>2, <4>3
    <3> QED BY <3>1, <3>2, <3>3
  <2>6. g \in [1 .. k -> Seq(S)]
    BY <2>5
  <2>7. IsFlat(ss, g, k)
    BY <2>5 DEF IsFlat
  <2> HIDE DEF g
  <2> QED BY <1>4, <2>6, <2>7
<1> QED BY <1>5, <1>6

\* Sequences that are the same give the same, joined.
LEMMA FlatUnique ==
  ASSUME NEW ss, NEW tt, NEW f, NEW g, NEW n \in Nat, IsFlat(ss, f, n), IsFlat(tt, g, n),
         \A i \in 1 .. n : ss[i] = tt[i]
  PROVE  \A i \in 1 .. n : f[i] = g[i]
<1> DEFINE T == {i \in 1 .. n : f[i] # g[i]}
<1>1. SUFFICES ASSUME T # {} PROVE FALSE
  OBVIOUS
<1>2. T \in SUBSET Nat
  OBVIOUS
<1>3. PICK k \in T : \A m \in T : k <= m
  BY <1>1, <1>2, LeastOf
<1>4. k \in 1 .. n /\ f[k] # g[k] /\ k \in Nat
  BY <1>3
<1>5. CASE k = 1
  BY <1>4, <1>5 DEF IsFlat
<1>6. CASE k # 1
  <2>1. k - 1 \in 1 .. n /\ ~(k <= k - 1)
    BY <1>4, <1>6
  <2>2. f[k - 1] = g[k - 1]
    BY <1>3, <2>1
  <2> QED BY <1>4, <1>6, <2>2 DEF IsFlat
<1> QED BY <1>5, <1>6

\* Flattening is what a function that joins one sequence after the other ends with.
LEMMA FlattenIs ==
  ASSUME NEW S, NEW ss \in Seq(Seq(S)), ss # <<>>
  PROVE  \E f \in [1 .. Len(ss) -> Seq(S)] : IsFlat(ss, f, Len(ss)) /\ FlattenSeq(ss) = f[Len(ss)]
<1> DEFINE F(f) == f = [i \in 1 .. Len(ss) |-> IF i = 1 THEN ss[i] ELSE f[i - 1] \o ss[i]]
           h == CHOOSE f : F(f)
<1>1. Len(ss) \in Nat /\ Len(ss) # 0 /\ Len(ss) \in 0 .. Len(ss)
  OBVIOUS
<1>2. PICK f \in [1 .. Len(ss) -> Seq(S)] : IsFlat(ss, f, Len(ss))
  BY <1>1, FlatExists
<1>3. F(f)
  BY <1>2 DEF IsFlat
<1>4. F(h)
  BY <1>3
<1>5. FlattenSeq(ss) = h[Len(ss)]
  BY <1>1 DEF FlattenSeq
<1> HIDE DEF h
<1>6. IsFlat(ss, h, Len(ss))
  BY <1>4 DEF IsFlat
<1>7. \A i \in 1 .. Len(ss) : h[i] = f[i]
  BY <1>1, <1>2, <1>6, FlatUnique
<1>8. Len(ss) \in 1 .. Len(ss)
  BY <1>1
<1> QED BY <1>2, <1>5, <1>7, <1>8

\* Flattening one sequence more.
LEMMA FlattenAppend ==
  ASSUME NEW S, NEW ss \in Seq(Seq(S)), NEW x \in Seq(S)
  PROVE  FlattenSeq(ss) \in Seq(S) /\ FlattenSeq(Append(ss, x)) = FlattenSeq(ss) \o x
<1> DEFINE tt == Append(ss, x)
<1>1. /\ tt \in Seq(Seq(S)) /\ tt # <<>> /\ Len(ss) \in Nat /\ Len(tt) = Len(ss) + 1
      /\ \A i \in 1 .. Len(ss) : tt[i] = ss[i]
      /\ tt[Len(ss) + 1] = x
  <2>1. PICK R : R = Seq(S)
    OBVIOUS
  <2>2. ss \in Seq(R) /\ x \in R
    BY <2>1
  <2>3. Len(ss) \in Nat
    BY <2>2
  <2> QED BY <2>1, <2>2, <2>3, AppendIs
<1> HIDE DEF tt
<1>2. PICK g \in [1 .. Len(tt) -> Seq(S)] : IsFlat(tt, g, Len(tt)) /\ FlattenSeq(tt) = g[Len(tt)]
  BY <1>1, FlattenIs
<1>3. CASE ss = <<>>
  <2>1. FlattenSeq(ss) = <<>>
    BY <1>3 DEF FlattenSeq
  <2>2. Len(tt) = 1 /\ 1 \in 1 .. Len(tt) /\ tt[1] = x
    BY <1>1, <1>3
  <2>3. g[1] = x
    BY <1>2, <2>2 DEF IsFlat
  <2> QED BY <1>2, <2>1, <2>2, <2>3 DEF tt
<1>4. CASE ss # <<>>
  <2>1. PICK f \in [1 .. Len(ss) -> Seq(S)] : IsFlat(ss, f, Len(ss)) /\ FlattenSeq(ss) = f[Len(ss)]
    BY <1>4, FlattenIs
  <2>2. Len(ss) # 0
    BY <1>4
  <2>3. PICK n \in Nat : n = Len(ss)
    BY <1>1
  <2>4. n # 0 /\ Len(tt) = n + 1 /\ n \in 1 .. n /\ n + 1 \in 1 .. Len(tt) /\ n + 1 # 1 /\ (n + 1) - 1 = n
    BY <1>1, <2>2, <2>3
  <2>5. IsFlat(tt, g, n) /\ IsFlat(ss, f, n)
    <3>1. \A i \in 1 .. n : i \in 1 .. Len(tt)
      BY <2>4
    <3> QED BY <1>2, <2>1, <2>3, <3>1 DEF IsFlat
  <2>6. f[n] = g[n]
    <3>1. \A i \in 1 .. n : ss[i] = tt[i]
      BY <1>1, <2>3
    <3>2. \A i \in 1 .. n : f[i] = g[i]
      BY <2>5, <3>1, FlatUnique
    <3> QED BY <2>4, <3>2
  <2>7. g[n + 1] = g[n] \o x
    BY <1>1, <1>2, <2>3, <2>4 DEF IsFlat
  <2> QED BY <1>2, <2>1, <2>3, <2>4, <2>6, <2>7 DEF tt
<1> QED BY <1>3, <1>4

\* The least of some positions of a text.
LEMMA LeastIsThere ==
  ASSUME NEW n \in 1 .. 4, NEW S \in SUBSET (2 .. n), S # {}
  PROVE  Min(S) \in S /\ \A j \in S : Min(S) <= j
<1>1. S \subseteq 2 .. 4
  OBVIOUS
<1>2. \E i \in S : \A j \in S : i <= j
  <2>1. CASE 2 \in S
    BY <1>1, <2>1
  <2>2. CASE 2 \notin S /\ 3 \in S
    BY <1>1, <2>2
  <2>3. CASE 2 \notin S /\ 3 \notin S
    <3>1. \A j \in S : j = 4
      BY <1>1, <2>3
    <3>2. PICK i : i \in S
      OBVIOUS
    <3>3. \A j \in S : i <= j
      BY <1>1, <3>1, <3>2
    <3> QED
      BY <3>2, <3>3
  <2> QED
    BY <2>1, <2>2, <2>3
<1> QED
  BY <1>2 DEF Min

\* A first byte tells a length, or that it is none.
LEMMA LengthOfLead == ASSUME NEW b \in Bytes PROVE LeadLength(b) \in 0 .. 4
BY DEF LeadLength

\* decode_utf8_char() consumes at least one byte and no more than there are, and
\* every byte behind the first that it consumes continues a character: it never
\* takes the beginning of the next one.
THEOREM NothingButContinuations ==
  ASSUME NEW in \in Seq(Bytes), in # <<>>
  PROVE  LET used == DecodeUtf8(in).used
         IN  used \in 1 .. Len(in) /\ \A i \in 2 .. used : Continues(in[i])
<1> DEFINE n == LeadLength(in[1])
           broken == {i \in 2 .. n : ~Continues(in[i])}
<1>1. in[1] \in Bytes /\ Len(in) \in Nat /\ Len(in) >= 1
  OBVIOUS
<1>2. n \in 0 .. 4
  BY <1>1, LengthOfLead
<1>3. DecodeUtf8(in) =
        CASE n = 1                               -> Decoded(in[1], 1)
          [] n = 0 \/ n > Len(in)                -> Decoded(ReplacementChar, 1)
          [] n \in 2 .. Len(in) /\ broken # {}   -> Decoded(ReplacementChar, Min(broken) - 1)
          [] n \in 2 .. Len(in) /\ broken = {}   ->
               Decoded(IF InForm(Value(in, n), n) THEN Value(in, n) ELSE ReplacementChar, n)
  BY DEF DecodeUtf8
<1>4. broken \subseteq 2 .. n /\ \A i \in 2 .. n : i \notin broken => Continues(in[i])
  OBVIOUS
<1>5. \A code, used : Decoded(code, used).used = used
  BY DEF Decoded
<1> HIDE DEF n, broken
<1>6. CASE n \in 0 .. 1 \/ n > Len(in)
  <2>1. DecodeUtf8(in).used = 1
    BY <1>1, <1>2, <1>3, <1>5, <1>6
  <2> QED
    BY <1>1, <2>1
<1>7. CASE n \in 2 .. Len(in) /\ broken # {}
  <2> DEFINE first == Min(broken)
  <2>1. first \in broken /\ \A j \in broken : first <= j
    BY <1>2, <1>4, <1>7, LeastIsThere
  <2>2. DecodeUtf8(in).used = first - 1
    BY <1>1, <1>2, <1>3, <1>5, <1>7
  <2> HIDE DEF first
  <2>3. first \in 2 .. n
    BY <1>4, <2>1
  <2>4. \A i \in 2 .. first - 1 : Continues(in[i])
    <3> TAKE i \in 2 .. first - 1
    <3>1. i \in 2 .. n /\ i \notin broken
      BY <1>2, <2>1, <2>3
    <3> QED
      BY <1>4, <3>1
  <2> QED
    BY <1>1, <1>2, <1>7, <2>2, <2>3, <2>4
<1>8. CASE n \in 2 .. Len(in) /\ broken = {}
  <2>1. DecodeUtf8(in).used = n
    BY <1>1, <1>2, <1>3, <1>5, <1>8
  <2> QED
    BY <1>1, <1>2, <1>4, <1>8, <2>1
<1> QED
  BY <1>1, <1>2, <1>6, <1>7, <1>8

\* The data in a lead byte and in a continuation.
LEMMA LeadOfTwo ==
  ASSUME NEW d \in 2 .. 31 PROVE 192 + d \in Bytes /\ LeadLength(192 + d) = 2 /\ (192 + d) % 32 = d
BY DEF Bytes, LeadLength

\* The first byte of three.
LEMMA LeadOfThree ==
  ASSUME NEW d \in 0 .. 15 PROVE 224 + d \in Bytes /\ LeadLength(224 + d) = 3 /\ (224 + d) % 16 = d
BY DEF Bytes, LeadLength

\* The first byte of four.
LEMMA LeadOfFour ==
  ASSUME NEW d \in 0 .. 4 PROVE 240 + d \in Bytes /\ LeadLength(240 + d) = 4 /\ (240 + d) % 8 = d
BY DEF Bytes, LeadLength

\* A byte that continues a character.
LEMMA Continuation ==
  ASSUME NEW d \in 0 .. 63 PROVE 128 + d \in Bytes /\ Continues(128 + d) /\ (128 + d) % 64 = d
BY DEF Bytes, Continues

\* What encode_safe_utf8_char() writes is one sequence: a lead that announces as
\* many bytes as follow, and continuations.
LEMMA EncodedIsSequence ==
  ASSUME NEW cp \in CodePoints
  PROVE  /\ Encode(cp) \in Seq(Bytes) /\ Len(Encode(cp)) \in 1 .. 4
         /\ LeadLength(Encode(cp)[1]) = Len(Encode(cp))
         /\ \A i \in 2 .. Len(Encode(cp)) : Continues(Encode(cp)[i])
         /\ Len(Encode(cp)) = 1 => Encode(cp)[1] = cp
         /\ Len(Encode(cp)) > 1 =>
              Value(Encode(cp), Len(Encode(cp))) = cp /\ InForm(cp, Len(Encode(cp)))
<1> DEFINE high   == cp \div 262144
           middle == (cp \div 4096) % 64
           low    == (cp \div 64) % 64
           last   == cp % 64
<1>1. cp \in Nat /\ cp <= 1114111 /\ (cp < 55296 \/ cp > 57343)
  BY SMT DEF CodePoints, ValidCodePoint, MaxCodePoint, SurrogateStart, SurrogateEnd
<1>2. CASE cp < 128
  <2>1. Encode(cp) = <<cp>>
    BY SMT, <1>1, <1>2 DEF Encode
  <2> QED
    BY SMT, <1>1, <1>2, <2>1 DEF LeadLength, Bytes
<1>3. CASE cp >= 128 /\ cp < 2048
  <2>1. Encode(cp) = <<192 + cp \div 64, 128 + last>>
    BY SMT, <1>1, <1>3 DEF Encode
  <2>2. cp \div 64 \in 2 .. 31 /\ last \in 0 .. 63 /\ cp = (cp \div 64) * 64 + last
    BY SMT, <1>1, <1>3
  <2> HIDE DEF last
  <2>3. Encode(cp) \in Seq(Bytes) /\ Len(Encode(cp)) = 2
    BY <2>1, <2>2, LeadOfTwo, Continuation
  <2>4. LeadLength(Encode(cp)[1]) = 2 /\ Continues(Encode(cp)[2])
    BY <2>1, <2>2, LeadOfTwo, Continuation
  <2>5. Value(Encode(cp), 2) = cp
    BY SMT, <1>1, <2>1, <2>2, LeadOfTwo, Continuation DEF Value
  <2>6. InForm(cp, 2)
    BY <1>3 DEF InForm
  <2> QED
    BY <2>3, <2>4, <2>5, <2>6
<1>4. CASE cp >= 2048 /\ cp < 65536
  <2>1. Encode(cp) = <<224 + cp \div 4096, 128 + low, 128 + last>>
    BY SMT, <1>1, <1>4 DEF Encode
  <2>2. cp \div 4096 \in 0 .. 15 /\ low \in 0 .. 63 /\ last \in 0 .. 63
        /\ cp = (cp \div 4096) * 4096 + low * 64 + last
    BY SMT, <1>1, <1>4
  <2> HIDE DEF low, last
  <2>3. Encode(cp) \in Seq(Bytes) /\ Len(Encode(cp)) = 3
    BY <2>1, <2>2, LeadOfThree, Continuation
  <2>4. LeadLength(Encode(cp)[1]) = 3 /\ Continues(Encode(cp)[2]) /\ Continues(Encode(cp)[3])
    BY <2>1, <2>2, LeadOfThree, Continuation
  <2>5. Value(Encode(cp), 3) = cp
    <3> DEFINE lead == cp \div 4096
    <3>1. Encode(cp)[1] = 224 + lead /\ Encode(cp)[2] = 128 + low /\ Encode(cp)[3] = 128 + last
      BY <2>1
    <3>2. (224 + lead) % 16 = lead
      BY <2>2, LeadOfThree
    <3>3. (128 + low) % 64 = low /\ (128 + last) % 64 = last
      BY <2>2, Continuation
    <3>4. Value(Encode(cp), 3) = lead * 4096 + low * 64 + last
      BY SMT, <3>1, <3>2, <3>3 DEF Value
    <3> QED
      BY <2>2, <3>4
  <2>6. InForm(cp, 3)
    BY SMT, <1>1, <1>4 DEF InForm, SurrogateStart, SurrogateEnd
  <2> QED
    BY <2>3, <2>4, <2>5, <2>6
<1>5. CASE cp >= 65536
  <2>1. Encode(cp) = <<240 + high, 128 + middle, 128 + low, 128 + last>>
    BY SMT, <1>1, <1>5 DEF Encode
  <2>2. high \in 0 .. 4 /\ middle \in 0 .. 63 /\ low \in 0 .. 63 /\ last \in 0 .. 63
        /\ cp = high * 262144 + middle * 4096 + low * 64 + last
    BY SMT, <1>1, <1>5
  <2> HIDE DEF high, middle, low, last
  <2>3. Encode(cp) \in Seq(Bytes) /\ Len(Encode(cp)) = 4
    BY <2>1, <2>2, LeadOfFour, Continuation
  <2>4. LeadLength(Encode(cp)[1]) = 4 /\ Continues(Encode(cp)[2]) /\ Continues(Encode(cp)[3])
        /\ Continues(Encode(cp)[4])
    BY <2>1, <2>2, LeadOfFour, Continuation
  <2>5. Value(Encode(cp), 4) = cp
    BY SMT, <1>1, <2>1, <2>2, LeadOfFour, Continuation DEF Value
  <2>6. InForm(cp, 4)
    BY SMT, <1>1, <1>5 DEF InForm, MaxCodePoint
  <2> QED
    BY <2>3, <2>4, <2>5, <2>6
<1> QED
  BY SMT, <1>1, <1>2, <1>3, <1>4, <1>5

\* What is written for a character is read as that character, whatever follows
\* it: utf8_str_trim() finds the characters that encode_safe_utf8_char() wrote.
THEOREM EncodedIsDecoded ==
  ASSUME NEW cp \in CodePoints, NEW rest \in Seq(Bytes)
  PROVE  DecodeUtf8(Encode(cp) \o rest) = Decoded(cp, Len(Encode(cp)))
<1> DEFINE bytes == Encode(cp)
           in    == bytes \o rest
           n     == LeadLength(in[1])
           broken == {i \in 2 .. n : ~Continues(in[i])}
<1>1. /\ bytes \in Seq(Bytes) /\ Len(bytes) \in 1 .. 4 /\ LeadLength(bytes[1]) = Len(bytes)
      /\ \A i \in 2 .. Len(bytes) : Continues(bytes[i])
      /\ Len(bytes) = 1 => bytes[1] = cp
      /\ Len(bytes) > 1 => Value(bytes, Len(bytes)) = cp /\ InForm(cp, Len(bytes))
  BY EncodedIsSequence
<1> HIDE DEF bytes
<1>2. /\ in \in Seq(Bytes) /\ Len(in) \in Nat /\ Len(in) >= Len(bytes)
      /\ \A i \in 1 .. Len(bytes) : in[i] = bytes[i]
  BY <1>1
<1>3. n = Len(bytes)
  BY <1>1, <1>2
<1>4. broken = {}
  BY <1>1, <1>2, <1>3
<1>5. DecodeUtf8(in) =
        CASE n = 1                               -> Decoded(in[1], 1)
          [] n = 0 \/ n > Len(in)                -> Decoded(ReplacementChar, 1)
          [] n \in 2 .. Len(in) /\ broken # {}   -> Decoded(ReplacementChar, Min(broken) - 1)
          [] n \in 2 .. Len(in) /\ broken = {}   ->
               Decoded(IF InForm(Value(in, n), n) THEN Value(in, n) ELSE ReplacementChar, n)
  BY DEF DecodeUtf8
<1>6. Len(bytes) > 1 => Value(in, Len(bytes)) = Value(bytes, Len(bytes))
  <2>1. CASE Len(bytes) = 2
    <3>1. in[1] = bytes[1] /\ in[2] = bytes[2]
      BY <1>2, <2>1
    <3> HIDE DEF in
    <3> QED
      BY SMT, <2>1, <3>1 DEF Value
  <2>2. CASE Len(bytes) = 3
    <3>1. in[1] = bytes[1] /\ in[2] = bytes[2] /\ in[3] = bytes[3]
      BY <1>2, <2>2
    <3> HIDE DEF in
    <3> QED
      BY SMT, <2>2, <3>1 DEF Value
  <2>3. CASE Len(bytes) = 4
    <3>1. in[1] = bytes[1] /\ in[2] = bytes[2] /\ in[3] = bytes[3] /\ in[4] = bytes[4]
      BY <1>2, <2>3
    <3> HIDE DEF in
    <3> QED
      BY SMT, <2>3, <3>1 DEF Value
  <2> QED
    BY <1>1, <2>1, <2>2, <2>3
<1> HIDE DEF in, n, broken
<1>7. DecodeUtf8(in) = Decoded(cp, Len(bytes))
  BY <1>1, <1>2, <1>3, <1>4, <1>5, <1>6
<1> QED
  BY <1>7 DEF in, bytes

-----------------------------------------------------------------------------
(* Decoding is right, in UTF-16 and UTF-32. *)

\* e stands in a text, beginning at unit i.
StandsAt(units, i, e) == i + Len(e) - 1 <= Len(units) /\ \A j \in 1 .. Len(e) : units[i + j - 1] = e[j]

\* The same, with the piece of the text that it is.
LEMMA StandsIs ==
  ASSUME NEW S, NEW units \in Seq(S), NEW e \in Seq(S), NEW i \in 1 .. Len(units) + 1
  PROVE  StandsAt(units, i, e) <=> i + Len(e) - 1 <= Len(units) /\ SubSeq(units, i, i + Len(e) - 1) = e
<1>1. PICK n \in Nat : n = Len(e)
  OBVIOUS
<1>2. PICK l \in Nat : l = Len(units)
  OBVIOUS
<1>3. ASSUME i + n - 1 <= l
      PROVE  SubSeq(units, i, i + n - 1) = e <=> \A j \in 1 .. n : units[i + j - 1] = e[j]
  <2> DEFINE w == SubSeq(units, i, i + n - 1)
  <2>1. w \in Seq(S) /\ Len(w) = n /\ \A j \in 1 .. n : w[j] = units[i + j - 1]
    BY <1>2, <1>3
  <2> HIDE DEF w
  <2>2. w = e => \A j \in 1 .. n : units[i + j - 1] = e[j]
    BY <2>1
  <2>3. ASSUME \A j \in 1 .. n : units[i + j - 1] = e[j] PROVE w = e
    BY <1>1, <2>1, <2>3
  <2> QED BY <2>2, <2>3 DEF w
<1> QED BY <1>1, <1>2, <1>3 DEF StandsAt

\* What is left of a text after p units.
LEMMA RestIs ==
  ASSUME NEW S, NEW units \in Seq(S), NEW p \in 0 .. Len(units)
  PROVE  /\ SubSeq(units, p + 1, Len(units)) \in Seq(S)
         /\ Len(SubSeq(units, p + 1, Len(units))) = Len(units) - p
         /\ \A j \in 1 .. Len(units) - p : SubSeq(units, p + 1, Len(units))[j] = units[p + j]
OBVIOUS

\* A bit of a text is where it is in what is left.
LEMMA StandsInRest ==
  ASSUME NEW S, NEW units \in Seq(S), NEW p \in 0 .. Len(units), NEW e \in Seq(S), NEW j \in 1 .. Len(units) - p
  PROVE  StandsAt(SubSeq(units, p + 1, Len(units)), j, e) <=> StandsAt(units, p + j, e)
<1>1. PICK n \in Nat : n = Len(e)
  OBVIOUS
<1>2. PICK l \in Nat : l = Len(units)
  OBVIOUS
<1>3. PICK w : w = SubSeq(units, p + 1, Len(units))
  OBVIOUS
<1>4. Len(w) = l - p /\ \A k \in 1 .. l - p : w[k] = units[p + k]
  BY <1>2, <1>3, RestIs
<1>5. (j + n - 1 <= l - p) <=> (p + j + n - 1 <= l)
  BY <1>1, <1>2
<1>6. ASSUME j + n - 1 <= l - p, NEW k \in 1 .. n PROVE w[j + k - 1] = units[p + j + k - 1]
  <2>1. j + k - 1 \in 1 .. l - p /\ p + (j + k - 1) = p + j + k - 1
    BY <1>1, <1>2, <1>6
  <2> QED BY <1>4, <2>1
<1> QED BY <1>1, <1>2, <1>3, <1>4, <1>5, <1>6 DEF StandsAt

\* The code points, as bounds.
LEMMA CodePointIs ==
  ASSUME NEW cp \in CodePoints
  PROVE  cp \in Nat /\ cp <= 1114111 /\ (cp < 55296 \/ cp > 57343)
BY SMT DEF CodePoints, ValidCodePoint, MaxCodePoint, SurrogateStart, SurrogateEnd

\* What is within the bounds is a code point.
LEMMA IsCodePoint ==
  ASSUME NEW cp \in Nat, cp <= 1114111, cp < 55296 \/ cp > 57343
  PROVE  cp \in CodePoints /\ ValidCodePoint(cp)
BY SMT DEF CodePoints, ValidCodePoint, MaxCodePoint, SurrogateStart, SurrogateEnd

\* Ranges this wide are told by their ends.
LEMMA UnitIs == \A u : u \in Units <=> u \in Nat /\ u <= 65535
<1>1. PICK n \in Nat : n = 65535
  BY SMT
<1>2. \A u : u \in 0 .. n <=> u \in Nat /\ u <= n
  BY SMT
<1>3. Units = 0 .. n
  BY SMT, <1>1 DEF Units
<1>4. \A u : u \in Units <=> u \in Nat /\ u <= n
  BY SMT, <1>2, <1>3
<1> QED BY SMT, <1>1, <1>4

\* The replacement is a character.
LEMMA ReplacementIs == ReplacementChar \in CodePoints /\ ReplacementChar = 65533
BY SMT, IsCodePoint DEF ReplacementChar

-----------------------------------------------------------------------------
\* What is decoded is a character, and what stood there, unless it is the
\* replacement of what is broken.
Right(bits, in, d) ==
  /\ d.code \in CodePoints /\ d.used \in 1 .. Len(in)
  /\ d.code # ReplacementChar => StandsAt(in, 1, EncodeIn(bits, d.code)) /\ d.used = Len(EncodeIn(bits, d.code))
  /\ \A cp \in CodePoints : StandsAt(in, 1, EncodeIn(bits, cp)) => d.code = cp /\ d.used = Len(EncodeIn(bits, cp))
  /\ \A i \in 2 .. d.used : \A cp \in CodePoints : in[i] # EncodeIn(bits, cp)[1]

\* The ten low bits and what is above them.
LEMMA TenBits ==
  ASSUME NEW q \in Nat, q <= 1048575
  PROVE  \E h \in Nat, l \in Nat :
           /\ h <= 1023 /\ l <= 1023 /\ q = 1024 * h + l
           /\ q \div 1024 = h /\ q % 1024 = l /\ (q + 65536) % 1024 = l
<1>1. q \div 1024 \in Nat /\ q % 1024 \in Nat /\ q % 1024 <= 1023
  BY SMT
<1>2. q = 1024 * (q \div 1024) + (q % 1024)
  BY SMT
<1>3. q \div 1024 <= 1023
  BY SMT
<1>4. (q + 65536) % 1024 = q % 1024
  BY SMT
<1> QED BY SMT, <1>1, <1>2, <1>3, <1>4

\* There is one way to be a pair.
LEMMA TenBitsUnique ==
  ASSUME NEW g \in Nat, NEW k \in Nat, NEW h \in Nat, NEW l \in Nat, k <= 1023, l <= 1023,
         65536 + 1024 * g + k = 65536 + 1024 * h + l
  PROVE  g = h /\ k = l
BY SMT

\* Two units that are the character.
IsPair(cp, two) ==
  \E h \in Nat, l \in Nat :
    h <= 1023 /\ l <= 1023 /\ cp = 65536 + 1024 * h + l /\ two = <<55296 + h, 56320 + l>>

\* A character in UTF-16 is one unit or a pair.
LEMMA EncodeUtf16Is ==
  ASSUME NEW cp \in CodePoints
  PROVE  \/ cp < 65536 /\ EncodeUtf16(cp) = <<cp>> /\ cp \in Units
         \/ cp >= 65536 /\ IsPair(cp, EncodeUtf16(cp))
<1>1. cp \in Nat /\ cp <= 1114111 /\ (cp < 55296 \/ cp > 57343)
  BY SMT, CodePointIs
<1>2. CASE cp < 65536
  BY SMT, <1>1, <1>2, UnitIs DEF EncodeUtf16
<1>3. CASE cp >= 65536
  <2>1. PICK q \in Nat : q = cp - 65536
    BY SMT, <1>1, <1>3
  <2>2. q <= 1048575
    BY SMT, <1>1, <2>1
  <2>3. PICK h \in Nat, l \in Nat :
             /\ h <= 1023 /\ l <= 1023 /\ q = 1024 * h + l
             /\ q \div 1024 = h /\ q % 1024 = l /\ (q + 65536) % 1024 = l
    BY SMT, <2>2, TenBits
  <2>4. cp - 65536 = q /\ q + 65536 = cp /\ ~(cp < 65536)
    BY SMT, <1>1, <1>3, <2>1
  <2>5. EncodeUtf16(cp) = <<55296 + h, 56320 + l>>
    BY SMT, <2>3, <2>4 DEF EncodeUtf16
  <2>6. cp = 65536 + 1024 * h + l
    BY SMT, <1>1, <2>3, <2>4
  <2>7. IsPair(cp, EncodeUtf16(cp))
    BY SMT, <2>3, <2>5, <2>6 DEF IsPair
  <2> QED BY <1>3, <2>7
<1> QED BY SMT, <1>1, <1>2, <1>3

\* decode_utf16_char()
LEMMA Utf16Right ==
  ASSUME NEW in \in Seq(Units), in # <<>>
  PROVE  Right(16, in, DecodeUtf16(in))
<1>1. PICK n \in Nat : n = Len(in) /\ n >= 1
  OBVIOUS
<1>2. PICK a \in Nat : a = in[1] /\ a <= 65535
  BY SMT, <1>1, UnitIs
<1>3. PICK b : b = in[2] /\ (n >= 2 => b \in Nat /\ b <= 65535)
  BY SMT, <1>1, UnitIs
<1>4. PICK d : d = DecodeUtf16(in)
  OBVIOUS
<1>5. \A c, u : Decoded(c, u).code = c /\ Decoded(c, u).used = u
  BY SMT DEF Decoded
<1>6. \A cp : EncodeIn(16, cp) = EncodeUtf16(cp)
  BY SMT DEF EncodeIn
<1>7. \A cp \in CodePoints : cp \in Nat /\ (cp < 55296 \/ cp > 57343)
  BY SMT, CodePointIs
<1>8. ASSUME NEW e, NEW x, NEW y, e = <<x, y>>
      PROVE  Len(e) = 2 /\ e[1] = x /\ e[2] = y /\ (StandsAt(in, 1, e) <=> n >= 2 /\ a = x /\ b = y)
  <2>1. Len(e) = 2 /\ e[1] = x /\ e[2] = y
    BY SMT, <1>8
  <2> QED BY SMT, <1>1, <1>2, <1>3, <2>1 DEF StandsAt
<1>9. ASSUME NEW e, NEW x, e = <<x>>
      PROVE  Len(e) = 1 /\ e[1] = x /\ (StandsAt(in, 1, e) <=> a = x)
  <2>1. Len(e) = 1 /\ e[1] = x
    BY SMT, <1>9
  <2> QED BY SMT, <1>1, <1>2, <2>1 DEF StandsAt
<1>10. ASSUME NEW cp \in CodePoints
       PROVE  \/ /\ cp < 65536 /\ (cp < 55296 \/ cp > 57343) /\ Len(EncodeIn(16, cp)) = 1 /\ EncodeIn(16, cp)[1] = cp
                 /\ StandsAt(in, 1, EncodeIn(16, cp)) <=> a = cp
              \/ /\ cp >= 65536 /\ Len(EncodeIn(16, cp)) = 2
                 /\ \E h \in Nat, l \in Nat :
                      /\ h <= 1023 /\ l <= 1023 /\ cp = 65536 + 1024 * h + l /\ EncodeIn(16, cp)[1] = 55296 + h
                      /\ StandsAt(in, 1, EncodeIn(16, cp)) <=> n >= 2 /\ a = 55296 + h /\ b = 56320 + l
  <2>1. CASE cp < 65536
    <3>1. EncodeIn(16, cp) = <<cp>>
      BY SMT, <1>6, <1>7, <2>1, EncodeUtf16Is
    <3> QED BY SMT, <1>7, <1>9, <2>1, <3>1
  <2>2. CASE cp >= 65536
    <3> IsPair(cp, EncodeUtf16(cp))
      BY SMT, <1>7, <2>2, EncodeUtf16Is
    <3>1. PICK h \in Nat, l \in Nat :
                 h <= 1023 /\ l <= 1023 /\ cp = 65536 + 1024 * h + l /\ EncodeUtf16(cp) = <<55296 + h, 56320 + l>>
      BY SMT DEF IsPair
    <3>2. EncodeIn(16, cp) = <<55296 + h, 56320 + l>>
      BY SMT, <1>6, <3>1
    <3> QED BY SMT, <1>8, <2>2, <3>1, <3>2
  <2> QED BY SMT, <1>7, <2>1, <2>2
<1>11. CASE a < 55296 \/ a > 57343
  <2>1. d = Decoded(a, 1)
    BY SMT, <1>2, <1>4, <1>11 DEF DecodeUtf16, SurrogateStart, SurrogateEnd
  <2>2. a \in CodePoints
    BY SMT, <1>2, <1>11, IsCodePoint
  <2>3. d.code = a /\ d.used = 1
    BY SMT, <1>5, <2>1
  <2>4. \A cp \in CodePoints : StandsAt(in, 1, EncodeIn(16, cp)) => cp = a /\ Len(EncodeIn(16, cp)) = 1
    BY SMT, <1>2, <1>10, <1>11
  <2>5. StandsAt(in, 1, EncodeIn(16, a)) /\ Len(EncodeIn(16, a)) = 1
    BY SMT, <1>2, <1>10, <2>2
  <2>6. Right(16, in, d)
    BY SMT, <1>1, <2>2, <2>3, <2>4, <2>5 DEF Right
  <2> QED BY SMT, <1>4, <2>6
<1>12. CASE a >= 55296 /\ a <= 56319 /\ n >= 2 /\ b >= 56320 /\ b <= 57343
  <2>1. d = Decoded((b % 1024) + (a % 1024) * 1024 + 65536, 2)
    BY SMT, <1>1, <1>2, <1>3, <1>4, <1>12 DEF DecodeUtf16, SurrogateStart, SurrogateEnd, MaxHighSurrogate
  <2>2. PICK h \in Nat : h <= 1023 /\ a = 55296 + h
    <3>1. a - 55296 \in Nat /\ a - 55296 <= 1023 /\ a = 55296 + (a - 55296)
      BY SMT, <1>2, <1>12
    <3> QED BY SMT, <3>1
  <2>3. PICK l \in Nat : l <= 1023 /\ b = 56320 + l
    <3>1. b - 56320 \in Nat /\ b - 56320 <= 1023 /\ b = 56320 + (b - 56320)
      BY SMT, <1>3, <1>12
    <3> QED BY SMT, <3>1
  <2>4. a % 1024 = h /\ b % 1024 = l
    BY SMT, <2>2, <2>3
  <2>5. PICK c \in Nat : c = 65536 + 1024 * h + l
    OBVIOUS
  <2>6. d.code = c /\ d.used = 2
    <3>1. (b % 1024) + (a % 1024) * 1024 + 65536 = c
      BY SMT, <2>4, <2>5
    <3> QED BY SMT, <1>5, <2>1, <3>1
  <2>7. c \in CodePoints
    <3>1. c >= 65536 /\ c <= 1114111
      BY SMT, <2>2, <2>3, <2>5
    <3> QED BY SMT, <3>1, IsCodePoint
  <2>8. \A cp \in CodePoints : StandsAt(in, 1, EncodeIn(16, cp)) => cp = c /\ Len(EncodeIn(16, cp)) = 2
    BY SMT, <1>2, <1>10, <1>12, <2>2, <2>3, <2>5
  <2>9. StandsAt(in, 1, EncodeIn(16, c)) /\ Len(EncodeIn(16, c)) = 2
    <3>1. c >= 65536
      BY SMT, <2>2, <2>3, <2>5
    <3>2. PICK g \in Nat, k \in Nat :
            /\ g <= 1023 /\ k <= 1023 /\ c = 65536 + 1024 * g + k /\ Len(EncodeIn(16, c)) = 2
            /\ StandsAt(in, 1, EncodeIn(16, c)) <=> n >= 2 /\ a = 55296 + g /\ b = 56320 + k
      BY SMT, <1>10, <2>7, <3>1
    <3>3. g = h /\ k = l
      BY SMT, <2>2, <2>3, <2>5, <3>2, TenBitsUnique
    <3> QED BY SMT, <1>12, <2>2, <2>3, <3>2, <3>3
  <2>10. ASSUME NEW cp \in CodePoints PROVE b # EncodeIn(16, cp)[1]
    <3>1. CASE cp < 65536
      BY SMT, <1>3, <1>10, <1>12, <3>1
    <3>2. CASE cp >= 65536
      <4>1. PICK g \in Nat : g <= 1023 /\ EncodeIn(16, cp)[1] = 55296 + g
        BY SMT, <1>7, <1>10, <3>2
      <4> QED BY SMT, <1>3, <1>12, <4>1
    <3> QED BY SMT, <1>7, <3>1, <3>2
  <2>11. Right(16, in, d)
    BY SMT, <1>1, <1>3, <1>12, <2>6, <2>7, <2>8, <2>9, <2>10 DEF Right
  <2> QED BY SMT, <1>4, <2>11
<1>13. CASE a >= 55296 /\ a <= 57343 /\ ~(a <= 56319 /\ n >= 2 /\ b >= 56320 /\ b <= 57343)
  <2>1. d = Decoded(ReplacementChar, 1)
    BY SMT, <1>1, <1>2, <1>3, <1>4, <1>13 DEF DecodeUtf16, SurrogateStart, SurrogateEnd, MaxHighSurrogate
  <2>2. d.code = ReplacementChar /\ d.used = 1
    BY SMT, <1>5, <2>1
  <2>3. \A cp \in CodePoints : ~StandsAt(in, 1, EncodeIn(16, cp))
    BY SMT, <1>2, <1>10, <1>13
  <2>4. Right(16, in, d)
    BY SMT, <1>1, <2>2, <2>3, ReplacementIs DEF Right
  <2> QED BY SMT, <1>4, <2>4
<1> QED BY SMT, <1>2, <1>11, <1>12, <1>13

\* What utf32_to_utf8() takes for a character
LEMMA Utf32Right ==
  ASSUME NEW in \in Seq(Nat), in # <<>>
  PROVE  Right(32, in, DecodeUtf32(in))
<1>1. PICK n \in Nat : n = Len(in) /\ n >= 1
  OBVIOUS
<1>2. PICK a \in Nat : a = in[1]
  BY SMT, <1>1
<1>3. \A cp : EncodeIn(32, cp) = <<cp>>
  BY SMT DEF EncodeIn
<1>4. \A cp : Len(EncodeIn(32, cp)) = 1 /\ (StandsAt(in, 1, EncodeIn(32, cp)) <=> a = cp)
  <2>1. \A cp : Len(<<cp>>) = 1 /\ <<cp>>[1] = cp
    OBVIOUS
  <2> QED BY SMT, <1>1, <1>2, <1>3, <2>1 DEF StandsAt
<1>5. a \in CodePoints <=> ValidCodePoint(a)
  BY SMT DEF CodePoints
<1>6. PICK d : d = DecodeUtf32(in)
  OBVIOUS
<1>7. d.used = 1 /\ d.code = IF ValidCodePoint(a) THEN a ELSE ReplacementChar
  BY SMT, <1>2, <1>6 DEF DecodeUtf32, Decoded
<1>8. Right(32, in, d)
  BY SMT, <1>1, <1>4, <1>5, <1>7, ReplacementIs DEF Right
<1> QED BY SMT, <1>6, <1>8

-----------------------------------------------------------------------------
(* Decoding is right, in UTF-8. *)

\* What the first byte of a character tells, and a byte that continues one.
LEMMA LeadIs ==
  ASSUME NEW b \in Bytes
  PROVE  /\ LeadLength(b) = 1 => b < 128
         /\ LeadLength(b) = 2 => \E a \in Nat : a <= 31 /\ b = 192 + a /\ b % 32 = a
         /\ LeadLength(b) = 3 => \E a \in Nat : a <= 15 /\ b = 224 + a /\ b % 16 = a
         /\ LeadLength(b) = 4 => \E a \in Nat : a <= 7 /\ b = 240 + a /\ b % 8 = a
         /\ Continues(b) => LeadLength(b) = 0 /\ \E a \in Nat : a <= 63 /\ b = 128 + a /\ b % 64 = a
<1>1. b \in Nat /\ b <= 255
  BY SMT DEF Bytes
<1>2. LeadLength(b) = 1 => b < 128
  BY SMT, <1>1 DEF LeadLength
<1>3. ASSUME LeadLength(b) = 2 PROVE \E a \in Nat : a <= 31 /\ b = 192 + a /\ b % 32 = a
  <2>1. b \div 32 = 6
    BY SMT, <1>1, <1>3 DEF LeadLength
  <2>2. PICK a : a = b - 192
    OBVIOUS
  <2>3. a \in Nat /\ a <= 31 /\ b = 192 + a /\ b % 32 = a
    BY SMT, <1>1, <2>1, <2>2
  <2> QED BY <2>3
<1>4. ASSUME LeadLength(b) = 3 PROVE \E a \in Nat : a <= 15 /\ b = 224 + a /\ b % 16 = a
  <2>1. b \div 16 = 14
    BY SMT, <1>1, <1>4 DEF LeadLength
  <2>2. PICK a : a = b - 224
    OBVIOUS
  <2>3. a \in Nat /\ a <= 15 /\ b = 224 + a /\ b % 16 = a
    BY SMT, <1>1, <2>1, <2>2
  <2> QED BY <2>3
<1>5. ASSUME LeadLength(b) = 4 PROVE \E a \in Nat : a <= 7 /\ b = 240 + a /\ b % 8 = a
  <2>1. b \div 8 = 30
    BY SMT, <1>1, <1>5 DEF LeadLength
  <2>2. PICK a : a = b - 240
    OBVIOUS
  <2>3. a \in Nat /\ a <= 7 /\ b = 240 + a /\ b % 8 = a
    BY SMT, <1>1, <2>1, <2>2
  <2> QED BY <2>3
<1>6. ASSUME Continues(b) PROVE LeadLength(b) = 0 /\ \E a \in Nat : a <= 63 /\ b = 128 + a /\ b % 64 = a
  <2>1. b \div 64 = 2
    BY SMT, <1>6 DEF Continues
  <2>2. PICK a : a = b - 128
    OBVIOUS
  <2>4. a \in Nat /\ a <= 63 /\ b = 128 + a /\ b % 64 = a
    BY SMT, <1>1, <2>1, <2>2
  <2>3. LeadLength(b) = 0
    BY SMT, <1>1, <2>1 DEF LeadLength
  <2> QED BY <2>3, <2>4
<1> QED BY <1>2, <1>3, <1>4, <1>5, <1>6

\* A number by the bits of the bytes of its sequence.
IsTwo(cp, a, z)         == cp = a * 64 + z
IsThree(cp, a, y, z)    == cp = a * 4096 + y * 64 + z
IsFour(cp, a, x, y, z)  == cp = a * 262144 + x * 4096 + y * 64 + z

\* The digits of two bytes, in base 64.
LEMMA DigitsOfTwo ==
  ASSUME NEW a \in Nat, a <= 31, NEW z \in Nat, z <= 63, NEW cp \in Nat, IsTwo(cp, a, z)
  PROVE  cp \in Nat /\ cp < 2048 /\ cp \div 64 = a /\ cp % 64 = z
BY SMT DEF IsTwo

\* The digits of three bytes.
LEMMA DigitsOfThree ==
  ASSUME NEW a \in Nat, a <= 15, NEW y \in Nat, y <= 63, NEW z \in Nat, z <= 63, NEW cp \in Nat, IsThree(cp, a, y, z)
  PROVE  cp \in Nat /\ cp < 65536 /\ cp \div 4096 = a /\ (cp \div 64) % 64 = y /\ cp % 64 = z
<1>1. cp \in Nat /\ cp < 65536 /\ cp \div 4096 = a /\ cp % 64 = z
  BY SMT DEF IsThree
<1>2. cp \div 64 = a * 64 + y
  BY SMT DEF IsThree
<1>3. (a * 64 + y) % 64 = y
  BY SMT DEF IsThree
<1> QED BY SMT, <1>1, <1>2, <1>3

\* The digits of four bytes.
LEMMA DigitsOfFour ==
  ASSUME NEW a \in Nat, a <= 7, NEW x \in Nat, x <= 63, NEW y \in Nat, y <= 63, NEW z \in Nat, z <= 63, NEW cp \in Nat,
         IsFour(cp, a, x, y, z)
  PROVE  /\ cp \in Nat /\ cp \div 262144 = a
         /\ (cp \div 4096) % 64 = x /\ (cp \div 64) % 64 = y /\ cp % 64 = z
<1>1. cp \in Nat /\ cp % 64 = z
  BY SMT DEF IsFour
<1>2. cp \div 262144 = a
  BY SMT DEF IsFour
<1>3. cp \div 64 = a * 4096 + x * 64 + y
  BY SMT DEF IsFour
<1>4. (a * 4096 + x * 64 + y) % 64 = y
  BY SMT DEF IsFour
<1>5. cp \div 4096 = a * 64 + x
  BY SMT DEF IsFour
<1>6. (a * 64 + x) % 64 = x
  BY SMT DEF IsFour
<1> QED BY SMT, <1>1, <1>2, <1>3, <1>4, <1>5, <1>6

\* A character of one byte.
LEMMA EncodeOne ==
  ASSUME NEW cp \in Nat, cp < 128
  PROVE  cp \in CodePoints /\ Len(Encode(cp)) = 1 /\ Encode(cp)[1] = cp
<1>1. cp \in CodePoints
  BY SMT, IsCodePoint
<1>2. Encode(cp) = <<cp>>
  BY SMT DEF Encode
<1> QED BY SMT, <1>1, <1>2

\* A character of two bytes.
LEMMA EncodeTwo ==
  ASSUME NEW a \in Nat, a <= 31, NEW z \in Nat, z <= 63, NEW cp \in Nat, IsTwo(cp, a, z), cp >= 128
  PROVE  /\ cp \in CodePoints /\ Len(Encode(cp)) = 2
         /\ Encode(cp)[1] = 192 + a /\ Encode(cp)[2] = 128 + z
<1>1. cp < 2048 /\ cp \div 64 = a /\ cp % 64 = z
  BY SMT, DigitsOfTwo
<1>2. cp \in CodePoints
  BY SMT, <1>1, IsCodePoint
<1>3. Encode(cp) = <<192 + a, 128 + z>>
  BY SMT, <1>1 DEF Encode
<1> QED BY SMT, <1>2, <1>3

\* A character of three bytes.
LEMMA EncodeThree ==
  ASSUME NEW a \in Nat, a <= 15, NEW y \in Nat, y <= 63, NEW z \in Nat, z <= 63, NEW cp \in Nat,
         IsThree(cp, a, y, z), cp >= 2048, cp < 55296 \/ cp > 57343
  PROVE  /\ cp \in CodePoints /\ Len(Encode(cp)) = 3
         /\ Encode(cp)[1] = 224 + a /\ Encode(cp)[2] = 128 + y /\ Encode(cp)[3] = 128 + z
<1>1. cp < 65536 /\ cp \div 4096 = a /\ (cp \div 64) % 64 = y /\ cp % 64 = z
  BY SMT, DigitsOfThree
<1>2. cp \in CodePoints
  BY SMT, <1>1, IsCodePoint
<1>3. Encode(cp) = <<224 + a, 128 + y, 128 + z>>
  BY SMT, <1>1 DEF Encode
<1> QED BY SMT, <1>2, <1>3

\* The four bytes of a character.
EncodedFour(cp, a, x, y, z) ==
  /\ cp \in CodePoints /\ Len(Encode(cp)) = 4
  /\ Encode(cp)[1] = 240 + a /\ Encode(cp)[2] = 128 + x
  /\ Encode(cp)[3] = 128 + y /\ Encode(cp)[4] = 128 + z

\* A character of four bytes.
LEMMA EncodeFour ==
  ASSUME NEW a \in Nat, a <= 7, NEW x \in Nat, x <= 63, NEW y \in Nat, y <= 63, NEW z \in Nat, z <= 63, NEW cp \in Nat,
         IsFour(cp, a, x, y, z), InForm(cp, 4)
  PROVE  EncodedFour(cp, a, x, y, z)
<1>0. cp >= 65536 /\ cp <= 1114111
  BY SMT DEF InForm, MaxCodePoint
<1>1. cp \div 262144 = a /\ (cp \div 4096) % 64 = x /\ (cp \div 64) % 64 = y /\ cp % 64 = z
  BY SMT, DigitsOfFour
<1>2. cp \in CodePoints
  BY SMT, <1>0, IsCodePoint
<1>3. Encode(cp) = <<240 + a, 128 + x, 128 + y, 128 + z>>
  BY SMT, <1>0, <1>1 DEF Encode
<1> QED BY SMT, <1>2, <1>3 DEF EncodedFour

\* A sequence of n bytes that is not broken, and the character it is.
IsForm(in, n, cp) ==
  /\ n <= Len(in) /\ LeadLength(in[1]) = n /\ \A i \in 2 .. n : Continues(in[i])
  /\ cp = IF n = 1 THEN in[1] ELSE Value(in, n)
  /\ n > 1 => InForm(cp, n)

\* The value of some bytes has the digits they are.
LEMMA ValueIs ==
  ASSUME NEW in, NEW a, NEW x, NEW y, NEW z
  PROVE  /\ in[1] % 32 = a /\ in[2] % 64 = z => IsTwo(Value(in, 2), a, z)
         /\ in[1] % 16 = a /\ in[2] % 64 = y /\ in[3] % 64 = z => IsThree(Value(in, 3), a, y, z)
         /\ in[1] % 8 = a /\ in[2] % 64 = x /\ in[3] % 64 = y /\ in[4] % 64 = z =>
              IsFour(Value(in, 4), a, x, y, z)
BY SMT DEF Value, IsTwo, IsThree, IsFour

\* What the shortest form of a character means for its code point.
LEMMA InFormIs ==
  ASSUME NEW cp
  PROVE  /\ InForm(cp, 2) => cp >= 128
         /\ InForm(cp, 3) => cp >= 2048 /\ (cp < 55296 \/ cp > 57343)
         /\ InForm(cp, 4) => cp >= 65536 /\ cp <= 1114111
BY SMT DEF InForm, SurrogateStart, SurrogateEnd, MaxCodePoint

\* Bytes in the form of a character are those it is encoded as.
LEMMA DecodedIsEncoded ==
  ASSUME NEW in \in Seq(Bytes), NEW n \in 1 .. 4, NEW cp, IsForm(in, n, cp)
  PROVE  cp \in CodePoints /\ StandsAt(in, 1, Encode(cp)) /\ Len(Encode(cp)) = n
<1>0. n <= Len(in) /\ LeadLength(in[1]) = n
  BY Zenon DEF IsForm
<1>1. in[1] \in Bytes /\ \A i \in 2 .. n : in[i] \in Bytes
  BY SMT, <1>0
<1>2. \A i \in 2 .. n : \E d \in Nat : d <= 63 /\ in[i] = 128 + d /\ in[i] % 64 = d
  BY <1>1, LeadIs DEF IsForm
<1>3. CASE n = 1
  <2>1. PICK b : b = in[1]
    OBVIOUS
  <2>2. b \in Bytes /\ LeadLength(b) = 1
    BY <1>0, <1>1, <1>3, <2>1
  <2>3. b \in Nat /\ b < 128
    <3>1. b < 128
      BY <2>2, LeadIs
    <3> QED BY SMT, <2>2, <3>1 DEF Bytes
  <2>4. cp = b
    BY Zenon, <1>3, <2>1 DEF IsForm
  <2>5. cp \in CodePoints /\ Len(Encode(cp)) = 1 /\ Encode(cp)[1] = cp
    BY SMT, <2>3, <2>4, EncodeOne
  <2> QED BY SMT, <1>0, <1>3, <2>1, <2>4, <2>5 DEF StandsAt
<1>4. CASE n = 2
  <2>1. PICK a \in Nat : a <= 31 /\ in[1] = 192 + a /\ in[1] % 32 = a
    BY <1>0, <1>1, <1>4, LeadIs
  <2>2. PICK z \in Nat : z <= 63 /\ in[2] = 128 + z /\ in[2] % 64 = z
    BY SMT, <1>2, <1>4
  <2>3. PICK v \in Nat : v = a * 64 + z
    BY SMT
  <2>4. Value(in, 2) = v
    <3>1. IsTwo(Value(in, 2), a, z)
      BY Zenon, <2>1, <2>2, ValueIs
    <3> QED BY SMT, <2>3, <3>1 DEF IsTwo
  <2>5. InForm(v, 2) /\ cp = v
    <3>1. n # 1 /\ n > 1
      BY SMT, <1>4
    <3>2. cp = Value(in, n) /\ InForm(cp, n)
      BY Zenon, <3>1 DEF IsForm
    <3> QED BY Zenon, <1>4, <2>4, <3>2
  <2>6. v >= 128
    BY SMT, <2>5, InFormIs
  <2>7. IsTwo(v, a, z)
    BY <2>3 DEF IsTwo
  <2>8. /\ v \in CodePoints /\ Len(Encode(v)) = 2 /\ Encode(v)[1] = 192 + a
         /\ Encode(v)[2] = 128 + z
    BY SMT, <2>1, <2>2, <2>6, <2>7, EncodeTwo
  <2>9. \A j \in 1 .. 2 : in[1 + j - 1] = Encode(v)[j]
    BY SMT, <2>1, <2>2, <2>8
  <2>10. v \in CodePoints /\ StandsAt(in, 1, Encode(v)) /\ Len(Encode(v)) = n
    BY SMT, <1>0, <1>4, <2>8, <2>9 DEF StandsAt
  <2> QED BY Zenon, <2>5, <2>10
<1>5. CASE n = 3
  <2>1. PICK a \in Nat : a <= 15 /\ in[1] = 224 + a /\ in[1] % 16 = a
    BY <1>0, <1>1, <1>5, LeadIs
  <2>2. PICK y \in Nat : y <= 63 /\ in[2] = 128 + y /\ in[2] % 64 = y
    BY SMT, <1>2, <1>5
  <2>3. PICK z \in Nat : z <= 63 /\ in[3] = 128 + z /\ in[3] % 64 = z
    BY SMT, <1>2, <1>5
  <2>4. PICK v \in Nat : v = a * 4096 + y * 64 + z
    BY SMT
  <2>5. Value(in, 3) = v
    <3>1. IsThree(Value(in, 3), a, y, z)
      BY Zenon, <2>1, <2>2, <2>3, ValueIs
    <3> QED BY SMT, <2>4, <3>1 DEF IsThree
  <2>6. InForm(v, 3) /\ cp = v
    <3>1. n # 1 /\ n > 1
      BY SMT, <1>5
    <3>2. cp = Value(in, n) /\ InForm(cp, n)
      BY Zenon, <3>1 DEF IsForm
    <3> QED BY Zenon, <1>5, <2>5, <3>2
  <2>7. v >= 2048 /\ (v < 55296 \/ v > 57343)
    BY SMT, <2>6, InFormIs
  <2>8. IsThree(v, a, y, z)
    BY <2>4 DEF IsThree
  <2>9. /\ v \in CodePoints /\ Len(Encode(v)) = 3 /\ Encode(v)[1] = 224 + a
         /\ Encode(v)[2] = 128 + y /\ Encode(v)[3] = 128 + z
    BY SMTT(40), <2>1, <2>2, <2>3, <2>7, <2>8, EncodeThree
  <2>10. \A j \in 1 .. 3 : in[1 + j - 1] = Encode(v)[j]
    BY SMT, <2>1, <2>2, <2>3, <2>9
  <2>11. v \in CodePoints /\ StandsAt(in, 1, Encode(v)) /\ Len(Encode(v)) = n
    BY SMT, <1>0, <1>5, <2>9, <2>10 DEF StandsAt
  <2> QED BY Zenon, <2>6, <2>11
<1>6. CASE n = 4
  <2>1. PICK a \in Nat : a <= 7 /\ in[1] = 240 + a /\ in[1] % 8 = a
    BY <1>0, <1>1, <1>6, LeadIs
  <2>2. PICK x \in Nat : x <= 63 /\ in[2] = 128 + x /\ in[2] % 64 = x
    BY SMT, <1>2, <1>6
  <2>3. PICK y \in Nat : y <= 63 /\ in[3] = 128 + y /\ in[3] % 64 = y
    BY SMT, <1>2, <1>6
  <2>4. PICK z \in Nat : z <= 63 /\ in[4] = 128 + z /\ in[4] % 64 = z
    BY SMT, <1>2, <1>6
  <2>5. PICK v \in Nat : IsFour(v, a, x, y, z)
    BY SMT DEF IsFour
  <2>6. Value(in, 4) = v
    <3>1. IsFour(Value(in, 4), a, x, y, z)
      BY Zenon, <2>1, <2>2, <2>3, <2>4, ValueIs
    <3> QED BY SMT, <2>5, <3>1 DEF IsFour
  <2>7. InForm(v, 4) /\ cp = v
    <3>1. n # 1 /\ n > 1
      BY SMT, <1>6
    <3>2. cp = Value(in, n) /\ InForm(cp, n)
      BY Zenon, <3>1 DEF IsForm
    <3> QED BY Zenon, <1>6, <2>6, <3>2
  <2>8. v >= 65536 /\ v <= 1114111
    BY SMT, <2>7, InFormIs
  <2>10. /\ v \in CodePoints /\ Len(Encode(v)) = 4 /\ Encode(v)[1] = 240 + a
         /\ Encode(v)[2] = 128 + x /\ Encode(v)[3] = 128 + y /\ Encode(v)[4] = 128 + z
    <3>1. EncodedFour(v, a, x, y, z)
      BY Zenon, <2>1, <2>2, <2>3, <2>4, <2>5, <2>7, EncodeFour
    <3> QED BY SMT, <3>1 DEF EncodedFour
  <2>11. \A j \in 1 .. 4 : in[1 + j - 1] = Encode(v)[j]
    BY SMT, <2>1, <2>2, <2>3, <2>4, <2>10
  <2>12. v \in CodePoints /\ StandsAt(in, 1, Encode(v)) /\ Len(Encode(v)) = n
    BY SMT, <1>0, <1>6, <2>10, <2>11 DEF StandsAt
  <2> QED BY Zenon, <2>7, <2>12
<1> QED BY <1>3, <1>4, <1>5, <1>6

\* What stands at the beginning is followed by the rest.
LEMMA StandsThenRest ==
  ASSUME NEW S, NEW in \in Seq(S), NEW e \in Seq(S), StandsAt(in, 1, e)
  PROVE  \E rest \in Seq(S) : in = e \o rest
<1>1. PICK n \in Nat : n = Len(e)
  OBVIOUS
<1>2. PICK l \in Nat : l = Len(in)
  OBVIOUS
<1>3. n <= l /\ \A j \in 1 .. n : in[j] = e[j]
  BY <1>1, <1>2 DEF StandsAt
<1>4. PICK rest : rest = SubSeq(in, n + 1, l)
  OBVIOUS
<1>5. rest \in Seq(S) /\ Len(rest) = l - n /\ \A j \in 1 .. l - n : rest[j] = in[n + j]
  BY <1>1, <1>2, <1>3, <1>4, RestIs
<1>6. PICK w : w = e \o rest
  OBVIOUS
<1>7. w \in Seq(S) /\ Len(w) = l /\ (\A j \in 1 .. n : w[j] = in[j]) /\ \A j \in n + 1 .. l : w[j] = in[j]
  <2>1. w \in Seq(S) /\ Len(w) = l
    BY <1>1, <1>2, <1>3, <1>5, <1>6
  <2>2. \A j \in 1 .. n : w[j] = in[j]
    BY <1>1, <1>3, <1>5, <1>6
  <2>3. ASSUME NEW j \in n + 1 .. l PROVE w[j] = in[j]
    <3>1. j - n \in 1 .. l - n /\ n + (j - n) = j
      BY <1>1, <1>2, <2>3
    <3>2. w[j] = rest[j - n]
      BY <1>1, <1>5, <1>6, <3>1
    <3> QED BY <1>5, <3>1, <3>2
  <2> QED BY <2>1, <2>2, <2>3
<1>8. w = in
  BY <1>1, <1>2, <1>3, <1>7
<1> QED BY <1>5, <1>6, <1>8

\* decode_utf8_char()
LEMMA Utf8Right ==
  ASSUME NEW in \in Seq(Bytes), in # <<>>
  PROVE  Right(8, in, DecodeUtf8(in))
<1>1. \A cp : EncodeIn(8, cp) = Encode(cp)
  BY SMT DEF EncodeIn
<1>2. in[1] \in Bytes
  BY SMT
<1>3. PICK n \in 0 .. 4 : n = LeadLength(in[1])
  BY <1>2, LengthOfLead
<1>4. PICK broken : broken = {i \in 2 .. n : ~Continues(in[i])}
  OBVIOUS
<1>5. PICK d : d = DecodeUtf8(in)
  OBVIOUS
<1>6. \A c, u : Decoded(c, u).code = c /\ Decoded(c, u).used = u
  BY SMT DEF Decoded
<1>7. d.used \in 1 .. Len(in) /\ \A i \in 2 .. d.used : Continues(in[i])
  BY <1>5, NothingButContinuations
<1>8. ASSUME NEW cp \in CodePoints, StandsAt(in, 1, Encode(cp))
      PROVE  d.code = cp /\ d.used = Len(Encode(cp))
  <2>1. Encode(cp) \in Seq(Bytes)
    BY EncodedIsSequence
  <2>2. PICK rest \in Seq(Bytes) : in = Encode(cp) \o rest
    BY <1>8, <2>1, StandsThenRest
  <2>3. d = Decoded(cp, Len(Encode(cp)))
    BY <1>5, <2>2, EncodedIsDecoded
  <2> QED BY <1>6, <2>3
<1>9. ASSUME NEW i \in 2 .. d.used, NEW cp \in CodePoints PROVE in[i] # Encode(cp)[1]
  <2>1. in[i] \in Bytes /\ Continues(in[i])
    BY <1>7
  <2>2. LeadLength(in[i]) = 0
    BY <2>1, LeadIs
  <2>3. LeadLength(Encode(cp)[1]) # 0
    BY SMT, EncodedIsSequence
  <2> QED BY <2>2, <2>3
<1>10. d.code # ReplacementChar \/ n = 1 => n \in 1 .. 4 /\ d.used = n /\ IsForm(in, n, d.code)
  <2>0. d = CASE n = 1                               -> Decoded(in[1], 1)
               [] n = 0 \/ n > Len(in)                -> Decoded(ReplacementChar, 1)
               [] n \in 2 .. Len(in) /\ broken # {}   -> Decoded(ReplacementChar, Min(broken) - 1)
               [] n \in 2 .. Len(in) /\ broken = {}   ->
                    Decoded(IF InForm(Value(in, n), n) THEN Value(in, n) ELSE ReplacementChar, n)
    BY Zenon, <1>3, <1>4, <1>5 DEF DecodeUtf8
  <2>1. PICK l \in Nat : l = Len(in) /\ l >= 1
    BY SMT
  <2>2. CASE n = 1
    BY SMT, <1>3, <1>6, <2>0, <2>1, <2>2 DEF IsForm
  <2>3. CASE n = 0 \/ n > Len(in)
    BY SMT, <1>6, <2>0, <2>1, <2>3
  <2>4. CASE n \in 2 .. Len(in) /\ broken # {}
    BY SMT, <1>6, <2>0, <2>1, <2>4
  <2>5. CASE n \in 2 .. Len(in) /\ broken = {}
    <3>1. \A i \in 2 .. n : Continues(in[i])
      BY <1>4, <2>5
    <3>2. d = Decoded(IF InForm(Value(in, n), n) THEN Value(in, n) ELSE ReplacementChar, n)
      BY SMT, <2>0, <2>1, <2>5
    <3>3. CASE InForm(Value(in, n), n)
      <4>1. d.code = Value(in, n) /\ d.used = n
        BY Zenon, <1>6, <3>2, <3>3
      <4> QED BY SMT, <1>3, <2>1, <2>5, <3>1, <3>3, <4>1 DEF IsForm
    <3>4. CASE ~InForm(Value(in, n), n)
      <4>1. d.code = ReplacementChar
        BY Zenon, <1>6, <3>2, <3>4
      <4> QED BY SMT, <2>5, <4>1
    <3> QED BY <3>3, <3>4
  <2> QED BY SMT, <2>1, <2>2, <2>3, <2>4, <2>5
<1>11. CASE d.code # ReplacementChar
  <2>0. n \in 1 .. 4 /\ d.used = n /\ IsForm(in, n, d.code)
    BY <1>10, <1>11
  <2>1. d.code \in CodePoints /\ StandsAt(in, 1, Encode(d.code)) /\ Len(Encode(d.code)) = n
    BY <2>0, DecodedIsEncoded
  <2> QED BY SMT, <1>1, <1>5, <1>7, <1>8, <1>9, <1>11, <2>0, <2>1 DEF Right
<1>12. CASE d.code = ReplacementChar
  BY SMT, <1>1, <1>5, <1>7, <1>8, <1>9, <1>12, ReplacementIs DEF Right
<1> QED BY <1>11, <1>12

-----------------------------------------------------------------------------
(* Loops, and what is written of a character. *)

\* A loop of a number of turns, each from what the one before it left.
Turns(f, G, a, n) == f[0] = a /\ \A k \in 1 .. n : f[k] = G[<<k, f[k - 1]>>]

\* Joined, sequences are as long as both.
LEMMA ConcatLen == ASSUME NEW S, NEW s \in Seq(S), NEW t \in Seq(S) PROVE Len(s \o t) = Len(s) + Len(t)
OBVIOUS

\* Joined, sequences are there one after the other.
LEMMA ConcatIs ==
  ASSUME NEW S, NEW s \in Seq(S), NEW t \in Seq(S)
  PROVE  /\ s \o t \in Seq(S) /\ Len(s \o t) = Len(s) + Len(t)
         /\ \A i \in 1 .. Len(s) : (s \o t)[i] = s[i]
         /\ \A i \in 1 .. Len(t) : (s \o t)[Len(s) + i] = t[i]
OBVIOUS

\* Induction over the turns of a loop.
LEMMA UpTo ==
  ASSUME NEW n \in Nat, NEW T \in SUBSET (0 .. n), 0 \in T, \A k \in 1 .. n : k - 1 \in T => k \in T
  PROVE  T = 0 .. n
<1> DEFINE Rest == {k \in 0 .. n : k \notin T}
<1>1. ASSUME Rest # {} PROVE FALSE
  <2>1. Rest \in SUBSET Nat
    OBVIOUS
  <2>2. PICK k \in Rest : \A m \in Rest : k <= m
    BY <1>1, <2>1, LeastOf
  <2>3. k \in 1 .. n
    BY <2>2
  <2>4. k - 1 \in T
    BY <2>2, <2>3
  <2> QED BY <2>2, <2>3, <2>4
<1> QED BY <1>1

\* A loop has turns.
LEMMA TurnsExist ==
  ASSUME NEW S, NEW a \in S, NEW n \in Nat, NEW G \in [Nat \X S -> S]
  PROVE  \E f \in [0 .. n -> S] : Turns(f, G, a, n)
<1> DEFINE T == {m \in 0 .. n : \E f \in [0 .. m -> S] : Turns(f, G, a, m)}
<1>1. 0 \in T
  <2>1. PICK f : f = [k \in 0 .. 0 |-> a]
    OBVIOUS
  <2>2. f \in [0 .. 0 -> S] /\ f[0] = a
    BY <2>1
  <2>3. Turns(f, G, a, 0)
    BY <2>2 DEF Turns
  <2> QED BY <2>2, <2>3
<1>2. ASSUME NEW m \in 1 .. n, m - 1 \in T PROVE m \in T
  <2>1. PICK f \in [0 .. m - 1 -> S] : Turns(f, G, a, m - 1)
    BY <1>2
  <2>2. PICK x : x = G[<<m, f[m - 1]>>]
    OBVIOUS
  <2>3. m - 1 \in 0 .. m - 1 /\ m \in Nat
    OBVIOUS
  <2>4. f[m - 1] \in S
    BY <2>1, <2>3
  <2>5. x \in S
    BY <2>2, <2>3, <2>4
  <2>6. PICK g : g = [k \in 0 .. m |-> IF k = m THEN x ELSE f[k]]
    OBVIOUS
  <2>7. g[m] = x /\ \A k \in 0 .. m - 1 : g[k] = f[k]
    BY <2>6
  <2>8. g \in [0 .. m -> S]
    BY <2>1, <2>5, <2>6
  <2>9. Turns(g, G, a, m)
    <3>1. g[0] = a
      BY <2>1, <2>7 DEF Turns
    <3>2. ASSUME NEW k \in 1 .. m PROVE g[k] = G[<<k, g[k - 1]>>]
      <4>1. CASE k = m
        BY <2>2, <2>3, <2>7, <4>1
      <4>2. CASE k # m
        <5>1. k \in 1 .. m - 1 /\ k - 1 \in 0 .. m - 1 /\ k \in 0 .. m - 1
          BY <4>2
        <5>2. f[k] = G[<<k, f[k - 1]>>]
          BY <2>1, <5>1 DEF Turns
        <5> QED BY <2>7, <5>1, <5>2
      <4> QED BY <4>1, <4>2
    <3> QED BY <3>1, <3>2 DEF Turns
  <2> QED BY <2>8, <2>9
<1> HIDE DEF T
<1>3. T = 0 .. n
  <2>1. T \in SUBSET (0 .. n)
    BY DEF T
  <2> QED BY <1>1, <1>2, <2>1, UpTo
<1>4. n \in T
  BY <1>3
<1> QED BY <1>4 DEF T

\* The same loop as a recursive function.
LEMMA TurnsAre ==
  ASSUME NEW S, NEW a \in S, NEW n \in Nat, NEW G \in [Nat \X S -> S],
         NEW f, f \in [0 .. n -> S], Turns(f, G, a, n)
  PROVE  f = [k \in 0 .. n |-> IF k = 0 THEN a ELSE G[<<k, f[k - 1]>>]]
<1>1. ASSUME NEW k \in 0 .. n PROVE f[k] = IF k = 0 THEN a ELSE G[<<k, f[k - 1]>>]
  BY DEF Turns
<1> QED BY <1>1

\* A loop has only one way to go.
LEMMA TurnsUnique ==
  ASSUME NEW S, NEW a \in S, NEW n \in Nat, NEW G \in [Nat \X S -> S], NEW f, NEW g,
         Turns(f, G, a, n), Turns(g, G, a, n)
  PROVE  \A k \in 0 .. n : f[k] = g[k]
<1> DEFINE T == {k \in 0 .. n : f[k] = g[k]}
<1>1. 0 \in T
  <2>1. f[0] = g[0]
    BY Zenon DEF Turns
  <2> QED BY <2>1
<1>2. ASSUME NEW k \in 1 .. n, k - 1 \in T PROVE k \in T
  <2>1. f[k - 1] = g[k - 1] /\ k \in 0 .. n
    BY <1>2
  <2>2. f[k] = G[<<k, f[k - 1]>>] /\ g[k] = G[<<k, g[k - 1]>>]
    BY Zenon DEF Turns
  <2> QED BY <2>1, <2>2
<1> HIDE DEF T
<1>3. T = 0 .. n
  <2>1. T \in SUBSET (0 .. n)
    BY DEF T
  <2> QED BY <1>1, <1>2, <2>1, UpTo
<1> QED BY <1>3 DEF T

-----------------------------------------------------------------------------
\* What a conversion is at any of its turns.
Conversions(bits) ==
  [rest : Seq(UnitSet(bits)), out : Seq(Bytes), room : Int, left : Nat, chars : Nat, error : {"none", "buff_full"}]

\* Every decoder is right.
LEMMA DecodeRight ==
  ASSUME NEW bits \in {8, 16, 32}, NEW in \in Seq(UnitSet(bits)), in # <<>>
  PROVE  Right(bits, in, DecodeIn(bits, in))
<1>1. CASE bits = 8
  <2>1. DecodeIn(bits, in) = DecodeUtf8(in) /\ UnitSet(bits) = Bytes
    BY SMT, <1>1 DEF DecodeIn, UnitSet
  <2> QED BY <1>1, <2>1, Utf8Right
<1>2. CASE bits = 16
  <2>1. DecodeIn(bits, in) = DecodeUtf16(in) /\ UnitSet(bits) = Units
    BY SMT, <1>2 DEF DecodeIn, UnitSet
  <2> QED BY <1>2, <2>1, Utf16Right
<1>3. CASE bits = 32
  <2>1. DecodeIn(bits, in) = DecodeUtf32(in) /\ UnitSet(bits) = Nat
    BY SMT, <1>3 DEF DecodeIn, UnitSet
  <2> QED BY <1>3, <2>1, Utf32Right
<1> QED BY <1>1, <1>2, <1>3

\* encode_escaped() and encode_safe_utf8_char()
LEMMA HexDigitIs ==
  ASSUME NEW cp \in Nat, NEW weight \in Nat \ {0}
  PROVE  HexDigit(cp, weight) \in Nat /\ HexDigit(cp, weight) >= 48 /\ HexDigit(cp, weight) <= 70
<1>1. PICK q \in Nat : q = cp \div weight
  BY SMT
<1>2. PICK d : d = q % 16
  OBVIOUS
<1>3. d \in Nat /\ d <= 15
  BY SMT, <1>2
<1>4. HexDigit(cp, weight) = IF d < 10 THEN 48 + d ELSE 55 + d
  BY Zenon, <1>1, <1>2 DEF HexDigit
<1> QED BY SMT, <1>3, <1>4

\* Printable ASCII
Printables == {b \in Bytes : b >= 32 /\ b <= 126}

\* The printable bytes, as bounds.
LEMMA PrintableIs ==
  /\ \A b : b \in Printables => b \in Bytes /\ b \in Nat /\ b >= 32 /\ b <= 126
  /\ \A b \in Nat : b >= 32 /\ b <= 126 => b \in Printables
BY SMT DEF Printables, Bytes

\* An escape is printable, short or long.
LEMMA EscapedIs ==
  ASSUME NEW cp \in CodePoints
  PROVE  Escaped(cp) \in Seq(Printables) /\ Len(Escaped(cp)) \in {6, 10}
<1>1. cp \in Nat
  BY SMT, CodePointIs
<1>2. ASSUME NEW i \in 1 .. 6 PROVE HexWeights[i] \in Nat \ {0}
  BY SMT DEF HexWeights
<1>3. ASSUME NEW i \in 1 .. 6 PROVE HexDigit(cp, HexWeights[i]) \in Printables
  <2>1. PICK w \in Nat \ {0} : w = HexWeights[i]
    BY <1>2
  <2>2. PICK d : d = HexDigit(cp, w)
    OBVIOUS
  <2>3. d \in Nat /\ d >= 48 /\ d <= 70
    BY <1>1, <2>2, HexDigitIs
  <2>4. d \in Printables
    BY SMT, <2>3, PrintableIs
  <2> QED BY Zenon, <2>1, <2>2, <2>4
<1>4. CASE cp <= 65535
  <2>1. PICK s : s = [i \in 1 .. 4 |-> HexDigit(cp, HexWeights[i + 2])]
    OBVIOUS
  <2>2. ASSUME NEW i \in 1 .. 4 PROVE s[i] \in Printables
    <3>1. i + 2 \in 1 .. 6
      BY SMT
    <3> QED BY SMT, <1>3, <2>1, <3>1
  <2>3. s \in Seq(Printables) /\ Len(s) = 4
    BY SMT, <2>1, <2>2
  <2>4. PICK t : t = <<92, 117>>
    OBVIOUS
  <2>5. t \in Seq(Printables) /\ Len(t) = 2
    BY SMT, <2>4, PrintableIs
  <2>6. Escaped(cp) = t \o s
    <3>1. ShortEscape(cp) = t \o s
      BY Zenon, <2>1, <2>4 DEF ShortEscape
    <3> QED BY SMT, <1>4, <3>1 DEF Escaped
  <2>7. t \o s \in Seq(Printables)
    BY <2>3, <2>5, ConcatIn
  <2>8. Len(t \o s) = 6
    <3>1. Len(t \o s) = Len(t) + Len(s)
      BY <2>3, <2>5, ConcatLen
    <3> QED BY SMT, <2>3, <2>5, <3>1
  <2> QED BY <2>6, <2>7, <2>8
<1>5. CASE ~(cp <= 65535)
  <2>1. PICK s : s = [i \in 1 .. 6 |-> HexDigit(cp, HexWeights[i])]
    OBVIOUS
  <2>2. \A i \in 1 .. 6 : s[i] \in Printables
    BY SMT, <1>3, <2>1
  <2>3. s \in Seq(Printables) /\ Len(s) = 6
    BY SMT, <2>1, <2>2
  <2>4. PICK t : t = <<92, 85, 48, 48>>
    OBVIOUS
  <2>5. t \in Seq(Printables) /\ Len(t) = 4
    BY SMT, <2>4, PrintableIs
  <2>6. Escaped(cp) = t \o s
    <3>1. LongEscape(cp) = t \o s
      BY Zenon, <2>1, <2>4 DEF LongEscape
    <3> QED BY SMT, <1>5, <3>1 DEF Escaped
  <2>7. t \o s \in Seq(Printables)
    BY <2>3, <2>5, ConcatIn
  <2>8. Len(t \o s) = 10
    <3>1. Len(t \o s) = Len(t) + Len(s)
      BY <2>3, <2>5, ConcatLen
    <3> QED BY SMT, <2>3, <2>5, <3>1
  <2> QED BY <2>6, <2>7, <2>8
<1> QED BY <1>4, <1>5

\* What is written of a character, and what it counts.
LEMMA EncodeSafeIs ==
  ASSUME NEW cp \in CodePoints
  PROVE  /\ EncodeSafe(cp).bytes \in Seq(Bytes) /\ Len(EncodeSafe(cp).bytes) \in Nat
         /\ Len(EncodeSafe(cp).bytes) >= 1 /\ Len(EncodeSafe(cp).bytes) <= 10
         /\ EncodeSafe(cp).chars \in Nat
         /\ Safe(cp) => EncodeSafe(cp).bytes = Encode(cp) /\ EncodeSafe(cp).chars = 1
         /\ ~Safe(cp) => EncodeSafe(cp).bytes = Escaped(cp) /\ EncodeSafe(cp).chars = Len(Escaped(cp))
<1>1. CASE Safe(cp)
  <2>1. Encode(cp) \in Seq(Bytes) /\ Len(Encode(cp)) \in 1 .. 4
    BY EncodedIsSequence
  <2>2. EncodeSafe(cp).bytes = Encode(cp) /\ EncodeSafe(cp).chars = 1
    BY Zenon, <1>1 DEF EncodeSafe
  <2>3. Len(Encode(cp)) \in Nat /\ Len(Encode(cp)) >= 1 /\ Len(Encode(cp)) <= 10
    <3>1. PICK n \in 1 .. 4 : n = Len(Encode(cp))
      BY Zenon, <2>1
    <3>2. n \in Nat /\ n >= 1 /\ n <= 10
      OBVIOUS
    <3> QED BY Zenon, <3>1, <3>2
  <2>4. 1 \in Nat
    OBVIOUS
  <2> QED BY Zenon, <1>1, <2>1, <2>2, <2>3, <2>4
<1>2. CASE ~Safe(cp)
  <2>1. Escaped(cp) \in Seq(Bytes) /\ Len(Escaped(cp)) \in {6, 10}
    <3>1. PICK e : e = Escaped(cp)
      OBVIOUS
    <3>2. e \in Seq(Printables) /\ Len(e) \in {6, 10}
      BY <3>1, EscapedIs
    <3>3. e \in Seq(Bytes)
      BY SMT, <3>2, PrintableIs
    <3> QED BY <3>1, <3>2, <3>3
  <2>2. EncodeSafe(cp).bytes = Escaped(cp) /\ EncodeSafe(cp).chars = Len(Escaped(cp))
    BY Zenon, <1>2 DEF EncodeSafe
  <2>3. Len(Escaped(cp)) \in Nat /\ Len(Escaped(cp)) >= 1 /\ Len(Escaped(cp)) <= 10
    <3>1. PICK n \in {6, 10} : n = Len(Escaped(cp))
      BY Zenon, <2>1
    <3>2. n \in Nat /\ n >= 1 /\ n <= 10
      OBVIOUS
    <3> QED BY Zenon, <3>1, <3>2
  <2> QED BY Zenon, <1>2, <2>1, <2>2, <2>3
<1> QED BY <1>1, <1>2

\* What is safe is no control character, and printable ASCII is safe.
LEMMA SafeIs ==
  ASSUME NEW cp \in Nat
  PROVE  /\ Safe(cp) => cp >= 32 /\ ~(cp >= 127 /\ cp <= 160) /\ cp # ReplacementChar
         /\ cp >= 32 /\ cp <= 126 => Safe(cp)
BY SMT DEF Safe, SafeRanges, ReplacementChar

-----------------------------------------------------------------------------
(* A turn of a conversion, and the loop that has always room. *)

\* What a step does to a conversion.
LEMMA StepIs ==
  ASSUME NEW bits, NEW c \in Conversions(bits), NEW used \in 0 .. Len(c.rest), NEW bytes \in Seq(Bytes),
         NEW chars \in Nat, c.left > 0
  PROVE  /\ Step(c, used, bytes, chars) \in Conversions(bits)
         /\ Step(c, used, bytes, chars).rest = SubSeq(c.rest, used + 1, Len(c.rest))
         /\ Step(c, used, bytes, chars).out = c.out \o bytes
         /\ Step(c, used, bytes, chars).room = c.room - Len(bytes)
         /\ Step(c, used, bytes, chars).left = c.left - 1
         /\ Step(c, used, bytes, chars).chars = c.chars + chars
         /\ Step(c, used, bytes, chars).error = c.error
<1>1. PICK S : S = UnitSet(bits)
  OBVIOUS
<1>2. c = [rest |-> c.rest, out |-> c.out, room |-> c.room, left |-> c.left, chars |-> c.chars, error |-> c.error]
  BY DEF Conversions
<1>3. /\ c.rest \in Seq(S) /\ c.out \in Seq(Bytes) /\ c.room \in Int /\ c.left \in Nat /\ c.chars \in Nat
      /\ c.error \in {"none", "buff_full"}
  BY <1>1 DEF Conversions
<1>4. PICK s : s = Step(c, used, bytes, chars)
  OBVIOUS
<1>5. s = [rest |-> SubSeq(c.rest, used + 1, Len(c.rest)), out |-> c.out \o bytes, room |-> c.room - Len(bytes),
           left |-> c.left - 1, chars |-> c.chars + chars, error |-> c.error]
  BY <1>2, <1>4 DEF Step
<1>6. PICK r : r = SubSeq(c.rest, used + 1, Len(c.rest))
  OBVIOUS
<1>7. PICK o : o = c.out \o bytes
  OBVIOUS
<1>8. r \in Seq(S) /\ o \in Seq(Bytes) /\ Len(bytes) \in Nat
  BY <1>3, <1>6, <1>7, RestIs, ConcatIn
<1>9. s = [rest |-> r, out |-> o, room |-> c.room - Len(bytes),
           left |-> c.left - 1, chars |-> c.chars + chars, error |-> c.error]
  BY <1>5, <1>6, <1>7
<1>10. s \in Conversions(bits)
  BY SMTT(40), <1>1, <1>3, <1>8, <1>9 DEF Conversions
<1>11. /\ s.rest = r /\ s.out = o /\ s.room = c.room - Len(bytes)
       /\ s.left = c.left - 1 /\ s.chars = c.chars + chars /\ s.error = c.error
  BY <1>9
<1> QED BY Zenon, <1>4, <1>6, <1>7, <1>10, <1>11

\* The parts of a conversion.
LEMMA ConversionIs ==
  ASSUME NEW bits, NEW c \in Conversions(bits)
  PROVE  /\ c.rest \in Seq(UnitSet(bits)) /\ c.out \in Seq(Bytes) /\ c.room \in Int /\ c.left \in Nat /\ c.chars \in Nat
         /\ c.error \in {"none", "buff_full"}
BY DEF Conversions

\* What is full is so and stays as it was.
LEMMA FullIs ==
  ASSUME NEW bits, NEW c \in Conversions(bits)
  PROVE  /\ [c EXCEPT !.error = "buff_full"] \in Conversions(bits)
         /\ [c EXCEPT !.error = "buff_full"].rest = c.rest
         /\ [c EXCEPT !.error = "buff_full"].out = c.out
         /\ [c EXCEPT !.error = "buff_full"].room = c.room
         /\ [c EXCEPT !.error = "buff_full"].left = c.left
         /\ [c EXCEPT !.error = "buff_full"].chars = c.chars
         /\ [c EXCEPT !.error = "buff_full"].error = "buff_full"
BY DEF Conversions

\* A sequence is empty or has a first element.
LEMMA RestOfNone ==
  ASSUME NEW S, NEW s \in Seq(S)
  PROVE  (s # <<>> <=> Len(s) > 0) /\ (s = <<>> <=> Len(s) = 0) /\ (s # <<>> => s[1] \in S)
OBVIOUS

\* c after the character d.
OneChar(c, d) == Step(c, d.used, EncodeSafe(d.code).bytes, EncodeSafe(d.code).chars)

\* s is c after one character of used units, written as the bytes b that count as n.
IsOneChar(bits, c, s, used, b, n) ==
  /\ s \in Conversions(bits) /\ s.rest = SubSeq(c.rest, used + 1, Len(c.rest)) /\ Len(s.rest) = Len(c.rest) - used
  /\ s.out = c.out \o b /\ Len(s.out) = Len(c.out) + Len(b)
  /\ s.room = c.room - Len(b) /\ s.left = c.left - 1 /\ s.chars = c.chars + n /\ s.error = c.error

\* What one more character does to a conversion.
LEMMA OneCharIs ==
  ASSUME NEW bits, NEW c \in Conversions(bits), c.left > 0, NEW d,
         d.code \in CodePoints, d.used \in 1 .. Len(c.rest)
  PROVE  IsOneChar(bits, c, OneChar(c, d), d.used, EncodeSafe(d.code).bytes, EncodeSafe(d.code).chars)
<1>1. PICK b : b = EncodeSafe(d.code).bytes
  OBVIOUS
<1>2. PICK n : n = EncodeSafe(d.code).chars
  OBVIOUS
<1>3. PICK u : u = d.used
  OBVIOUS
<1>4. b \in Seq(Bytes) /\ n \in Nat
  BY <1>1, <1>2, EncodeSafeIs
<1>5. PICK S : S = UnitSet(bits)
  OBVIOUS
<1>6. c.rest \in Seq(S) /\ c.out \in Seq(Bytes)
  BY <1>5, ConversionIs
<1>7. u \in 0 .. Len(c.rest)
  <2>1. Len(c.rest) \in Nat
    BY <1>6
  <2> QED BY <1>3, <2>1
<1>8. PICK s : s = Step(c, u, b, n)
  OBVIOUS
<1>9. /\ s \in Conversions(bits) /\ s.rest = SubSeq(c.rest, u + 1, Len(c.rest)) /\ s.out = c.out \o b
      /\ s.room = c.room - Len(b) /\ s.left = c.left - 1 /\ s.chars = c.chars + n /\ s.error = c.error
  BY ZenonT(40), <1>4, <1>7, <1>8, StepIs
<1>10. Len(s.rest) = Len(c.rest) - u
  BY <1>6, <1>7, <1>9, RestIs
<1>11. Len(s.out) = Len(c.out) + Len(b)
  BY <1>4, <1>6, <1>9, ConcatLen
<1>12. OneChar(c, d) = s
  BY Zenon, <1>1, <1>2, <1>3, <1>8 DEF OneChar
<1>13. IsOneChar(bits, c, s, u, b, n)
  BY Zenon, <1>9, <1>10, <1>11 DEF IsOneChar
<1> QED BY Zenon, <1>1, <1>2, <1>3, <1>12, <1>13

\* A character, copied or not, is written as what it is encoded to.
LEMMA ConvertCharIs ==
  ASSUME NEW bits \in {8, 16, 32}, NEW c \in Conversions(bits), c.rest # <<>>, NEW d, d = DecodeIn(bits, c.rest)
  PROVE  /\ Right(bits, c.rest, d)
         /\ ConvertChar(bits, c) = OneChar(c, d)
<1>1. PICK in : in = c.rest
  OBVIOUS
<1>2. in \in Seq(UnitSet(bits)) /\ in # <<>>
  BY <1>1, ConversionIs
<1>3. Right(bits, in, d)
  BY <1>1, <1>2, DecodeRight
<1>4. PICK cp : cp = d.code
  OBVIOUS
<1>5. cp \in CodePoints /\ cp \in Nat
  BY SMT, <1>3, <1>4, CodePointIs DEF Right
<1>6. PICK e : e = EncodeSafe(cp)
  OBVIOUS
<1>7. ConvertChar(bits, c) =
        Step(c, d.used, IF bits = 8 /\ Safe(cp) THEN SubSeq(in, 1, Len(Encode(cp))) ELSE e.bytes, e.chars)
  BY Zenon, <1>1, <1>4, <1>6 DEF ConvertChar
<1>8. ASSUME bits = 8, Safe(cp) PROVE SubSeq(in, 1, Len(Encode(cp))) = e.bytes
  <2>1. e.bytes = Encode(cp)
    BY <1>5, <1>6, <1>8, EncodeSafeIs
  <2>2. cp # ReplacementChar
    BY <1>5, <1>8, SafeIs
  <2>3. EncodeIn(8, cp) = Encode(cp) /\ UnitSet(8) = Bytes
    BY SMT DEF EncodeIn, UnitSet
  <2>4. StandsAt(in, 1, Encode(cp))
    BY Zenon, <1>3, <1>4, <1>8, <2>2, <2>3 DEF Right
  <2>5. Encode(cp) \in Seq(Bytes) /\ in \in Seq(Bytes)
    BY <1>2, <1>5, <1>8, <2>3, EncodedIsSequence
  <2>6. 1 \in 1 .. Len(in) + 1 /\ 1 + Len(Encode(cp)) - 1 = Len(Encode(cp))
    BY SMT, <2>5
  <2>7. SubSeq(in, 1, Len(Encode(cp))) = Encode(cp)
    <3>1. SubSeq(in, 1, 1 + Len(Encode(cp)) - 1) = Encode(cp)
      BY <2>4, <2>5, <2>6, StandsIs
    <3> QED BY Zenon, <2>6, <3>1
  <2> QED BY <2>1, <2>7
<1>9. (IF bits = 8 /\ Safe(cp) THEN SubSeq(in, 1, Len(Encode(cp))) ELSE e.bytes) = e.bytes
  BY Zenon, <1>8
<1> QED BY Zenon, <1>1, <1>3, <1>4, <1>6, <1>7, <1>9 DEF OneChar

\* A turn of the conversion, and one of the copying.
LEMMA ConvertTurnIs ==
  ASSUME NEW bits \in {8, 16, 32}, NEW c \in Conversions(bits)
  PROVE  /\ ConvertTurn(bits, c) \in Conversions(bits)
         /\ c.rest = <<>> \/ c.left = 0 => ConvertTurn(bits, c) = c
         /\ c.rest # <<>> /\ c.left > 0 /\ c.room < EscapeRoom =>
              ConvertTurn(bits, c) = [c EXCEPT !.error = "buff_full"]
         /\ c.rest # <<>> /\ c.left > 0 /\ c.room >= EscapeRoom =>
              LET d == DecodeIn(bits, c.rest)
              IN  ConvertTurn(bits, c) = OneChar(c, d)
<1>1. c.room \in Int /\ c.left \in Nat
  BY ConversionIs
<1>2. CASE c.rest = <<>> \/ c.left = 0
  <2>1. ConvertTurn(bits, c) = c
    BY SMT, <1>1, <1>2 DEF ConvertTurn, EscapeRoom
  <2> QED BY SMT, <1>1, <1>2, <2>1
<1>3. CASE c.rest # <<>> /\ c.left > 0 /\ c.room < EscapeRoom
  <2>1. ConvertTurn(bits, c) = [c EXCEPT !.error = "buff_full"]
    BY SMT, <1>1, <1>3 DEF ConvertTurn, EscapeRoom
  <2>2. ConvertTurn(bits, c) \in Conversions(bits)
    BY <2>1, FullIs
  <2> QED BY SMT, <1>1, <1>3, <2>1, <2>2 DEF EscapeRoom
<1>4. CASE c.rest # <<>> /\ c.left > 0 /\ c.room >= EscapeRoom
  <2>1. ConvertTurn(bits, c) = ConvertChar(bits, c)
    BY SMT, <1>1, <1>4 DEF ConvertTurn, EscapeRoom
  <2>2. PICK d : d = DecodeIn(bits, c.rest)
    OBVIOUS
  <2>3. Right(bits, c.rest, d) /\ ConvertChar(bits, c) = OneChar(c, d)
    BY <1>4, <2>2, ConvertCharIs
  <2>4. d.code \in CodePoints /\ d.used \in 1 .. Len(c.rest)
    BY <2>3 DEF Right
  <2>7. ConvertTurn(bits, c) \in Conversions(bits)
    <3>1. IsOneChar(bits, c, OneChar(c, d), d.used, EncodeSafe(d.code).bytes, EncodeSafe(d.code).chars)
      BY Zenon, <1>4, <2>4, OneCharIs
    <3>2. OneChar(c, d) \in Conversions(bits)
      BY Zenon, <3>1 DEF IsOneChar
    <3> QED BY <2>1, <2>3, <3>2
  <2>8. ~(c.rest = <<>> \/ c.left = 0) /\ ~(c.room < EscapeRoom)
    BY SMT, <1>1, <1>4 DEF EscapeRoom
  <2> QED BY Zenon, <2>1, <2>2, <2>3, <2>7, <2>8
<1> QED BY SMT, <1>1, <1>2, <1>3, <1>4 DEF EscapeRoom

\* Printable ASCII, as bounds.
LEMMA AsciiIs == \A b : b \in 32 .. 126 => b \in Nat /\ b >= 32 /\ b <= 126
BY SMT

\* A turn that copies does what a conversion of the character would.
LEMMA CopyTurnIs ==
  ASSUME NEW c \in Conversions(8)
  PROVE  /\ CopyTurn(c) \in Conversions(8)
         /\ \/ CopyTurn(c) = c
            \/ /\ c.rest # <<>> /\ c.left > 0 /\ c.room > 0
               /\ LET d == DecodeIn(8, c.rest)
                  IN  /\ CopyTurn(c) = OneChar(c, d)
                      /\ Len(EncodeSafe(d.code).bytes) = 1
<1>1. CASE c.rest # <<>> /\ c.left > 0 /\ c.room > 0 /\ c.rest[1] \in 32 .. 126
  <2>1. PICK b \in Nat : b = c.rest[1] /\ b >= 32 /\ b <= 126
    BY <1>1, AsciiIs
  <2>2. CopyTurn(c) = Step(c, 1, <<b>>, 1)
    BY Zenon, <1>1, <2>1 DEF CopyTurn
  <2>3. DecodeIn(8, c.rest) = Decoded(b, 1)
    <3>1. DecodeIn(8, c.rest) = DecodeUtf8(c.rest)
      BY SMT DEF DecodeIn
    <3>2. LeadLength(b) = 1
      BY SMT, <2>1 DEF LeadLength
    <3>3. DecodeUtf8(c.rest) = Decoded(c.rest[1], 1)
      <4>1. PICK n : n = LeadLength(c.rest[1])
        OBVIOUS
      <4>2. PICK broken : broken = {i \in 2 .. n : ~Continues(c.rest[i])}
        OBVIOUS
      <4>3. DecodeUtf8(c.rest) =
              CASE n = 1                                  -> Decoded(c.rest[1], 1)
                [] n = 0 \/ n > Len(c.rest)               -> Decoded(ReplacementChar, 1)
                [] n \in 2 .. Len(c.rest) /\ broken # {}  -> Decoded(ReplacementChar, Min(broken) - 1)
                [] n \in 2 .. Len(c.rest) /\ broken = {}  ->
                     Decoded(IF InForm(Value(c.rest, n), n) THEN Value(c.rest, n) ELSE ReplacementChar, n)
        BY Zenon, <4>1, <4>2 DEF DecodeUtf8
      <4>4. n = 1
        BY Zenon, <2>1, <3>2, <4>1
      <4>5. Len(c.rest) \in Nat /\ Len(c.rest) > 0
        <5>1. c.rest \in Seq(UnitSet(8))
          BY ConversionIs
        <5> QED BY <1>1, <5>1
      <4> QED BY SMT, <4>3, <4>4, <4>5
    <3> QED BY Zenon, <2>1, <3>1, <3>3
  <2>4. Decoded(b, 1).code = b /\ Decoded(b, 1).used = 1
    BY DEF Decoded
  <2>5. b \in CodePoints
    BY SMT, <2>1, IsCodePoint
  <2>6. Safe(b)
    BY SMT, <2>1, SafeIs
  <2>7. Encode(b) = <<b>>
    BY SMT, <2>1 DEF Encode
  <2>8. EncodeSafe(b).bytes = <<b>> /\ EncodeSafe(b).chars = 1
    BY Zenon, <2>5, <2>6, <2>7, EncodeSafeIs
  <2>9. Len(<<b>>) = 1
    OBVIOUS
  <2>10. /\ CopyTurn(c) = OneChar(c, DecodeIn(8, c.rest))
         /\ Len(EncodeSafe(DecodeIn(8, c.rest).code).bytes) = 1
    BY Zenon, <2>2, <2>3, <2>4, <2>8, <2>9 DEF OneChar
  <2>11. <<b>> \in Seq(Bytes)
    BY SMT, <2>1 DEF Bytes
  <2>12. 1 \in 0 .. Len(c.rest)
    <3>1. c.rest \in Seq(UnitSet(8))
      BY ConversionIs
    <3>2. Len(c.rest) \in Nat /\ Len(c.rest) > 0
      BY <1>1, <3>1
    <3> QED BY <3>2
  <2>13. CopyTurn(c) \in Conversions(8)
    <3>1. PICK one : one = 1
      OBVIOUS
    <3>2. one \in 0 .. Len(c.rest) /\ one \in Nat /\ c.left > 0
      BY <1>1, <2>12, <3>1
    <3>3. Step(c, one, <<b>>, one) \in Conversions(8)
      BY Zenon, <2>11, <3>2, StepIs
    <3> QED BY Zenon, <2>2, <3>1, <3>3
  <2> QED BY Zenon, <1>1, <2>10, <2>13
<1>2. CASE ~(c.rest # <<>> /\ c.left > 0 /\ c.room > 0 /\ c.rest[1] \in 32 .. 126)
  BY Zenon, <1>2 DEF CopyTurn
<1> QED BY <1>1, <1>2

-----------------------------------------------------------------------------
\* What becomes of a text when there is always room: where it has been read to,
\* what has been written, characters left and characters written.
PureStates(units) == [pos : 0 .. Len(units), out : Seq(Bytes), left : Nat, chars : Nat]
PureStart(limit)    == [pos |-> 0, out |-> <<>>, left |-> limit, chars |-> 0]
Rest(units, p)    == SubSeq(units, p.pos + 1, Len(units))
Over(units, p)    == p.pos = Len(units) \/ p.left = 0
PureStep(p, d) ==
  [pos |-> p.pos + d.used, out |-> p.out \o EncodeSafe(d.code).bytes, left |-> p.left - 1,
   chars |-> p.chars + EncodeSafe(d.code).chars]
PureTurn(bits, units, p) == IF Over(units, p) THEN p ELSE PureStep(p, DecodeIn(bits, Rest(units, p)))

\* f are the turns of the loop without a room.
IsPure(f, bits, units, limit) ==
  /\ f \in [0 .. Len(units) -> PureStates(units)] /\ f[0] = PureStart(limit)
  /\ \A k \in 1 .. Len(units) : f[k] = PureTurn(bits, units, f[k - 1])

\* The parts of a state of the loop without a room.
LEMMA PureStateIs ==
  ASSUME NEW S, NEW units \in Seq(S), NEW p \in PureStates(units)
  PROVE  /\ p.pos \in Nat /\ p.pos <= Len(units) /\ p.out \in Seq(Bytes) /\ p.left \in Nat /\ p.chars \in Nat
         /\ p = [pos |-> p.pos, out |-> p.out, left |-> p.left, chars |-> p.chars]
BY DEF PureStates

\* What is left of the units in a state of that loop.
LEMMA PureRest ==
  ASSUME NEW S, NEW units \in Seq(S), NEW p \in PureStates(units)
  PROVE  /\ Rest(units, p) \in Seq(S) /\ Len(Rest(units, p)) = Len(units) - p.pos
         /\ Rest(units, p) # <<>> <=> p.pos # Len(units)
         /\ \A j \in 1 .. Len(units) - p.pos : Rest(units, p)[j] = units[p.pos + j]
<1>1. p.pos \in 0 .. Len(units)
  BY PureStateIs
<1>2. PICK n : n = p.pos
  OBVIOUS
<1>3. PICK r : r = SubSeq(units, n + 1, Len(units))
  OBVIOUS
<1>4. r \in Seq(S) /\ Len(r) = Len(units) - n /\ \A j \in 1 .. Len(units) - n : r[j] = units[n + j]
  BY <1>1, <1>2, <1>3, RestIs
<1>5. r # <<>> <=> n # Len(units)
  BY <1>1, <1>2, <1>4
<1> QED BY Zenon, <1>2, <1>3, <1>4, <1>5 DEF Rest

\* A turn of that loop.
LEMMA PureTurnIs ==
  ASSUME NEW bits \in {8, 16, 32}, NEW units \in Seq(UnitSet(bits)), NEW p \in PureStates(units)
  PROVE  /\ PureTurn(bits, units, p) \in PureStates(units)
         /\ Over(units, p) => PureTurn(bits, units, p) = p
         /\ ~Over(units, p) =>
              LET d == DecodeIn(bits, Rest(units, p))
              IN  PureTurn(bits, units, p) = PureStep(p, d) /\ Right(bits, Rest(units, p), d)
<1>1. CASE Over(units, p)
  BY Zenon, <1>1 DEF PureTurn
<1>2. CASE ~Over(units, p)
  <2>1. PICK d : d = DecodeIn(bits, Rest(units, p))
    OBVIOUS
  <2>2. PureTurn(bits, units, p) = PureStep(p, d)
    BY Zenon, <1>2, <2>1 DEF PureTurn
  <2>3. p.pos \in Nat /\ p.pos < Len(units) /\ p.out \in Seq(Bytes) /\ p.left \in Nat /\ p.left > 0 /\ p.chars \in Nat
    BY <1>2, PureStateIs DEF Over
  <2>4. Rest(units, p) \in Seq(UnitSet(bits)) /\ Rest(units, p) # <<>> /\ Len(Rest(units, p)) = Len(units) - p.pos
    BY <2>3, PureRest
  <2>5. Right(bits, Rest(units, p), d)
    BY <2>1, <2>4, DecodeRight
  <2>6. d.code \in CodePoints /\ d.used \in 1 .. Len(units) - p.pos
    BY <2>4, <2>5 DEF Right
  <2>7. EncodeSafe(d.code).bytes \in Seq(Bytes) /\ EncodeSafe(d.code).chars \in Nat
    BY <2>6, EncodeSafeIs
  <2>8. p.out \o EncodeSafe(d.code).bytes \in Seq(Bytes)
    BY <2>3, <2>7, ConcatIn
  <2>9. p.pos + d.used \in 0 .. Len(units) /\ p.left - 1 \in Nat /\ p.chars + EncodeSafe(d.code).chars \in Nat
    <3>1. PICK l \in Nat : l = Len(units)
      OBVIOUS
    <3>2. PICK m : m = p.pos
      OBVIOUS
    <3>3. m \in Nat /\ m < l /\ d.used \in Nat /\ d.used <= l - m
      BY <2>3, <2>6, <3>1, <3>2
    <3>4. m + d.used \in 0 .. l
      BY <3>3
    <3>5. p.left - 1 \in Nat /\ p.chars + EncodeSafe(d.code).chars \in Nat
      BY SMTT(40), <2>3, <2>7
    <3> QED BY Zenon, <3>1, <3>2, <3>4, <3>5
  <2>10. PureStep(p, d) \in PureStates(units)
    BY Zenon, <2>8, <2>9 DEF PureStep, PureStates
  <2> QED BY Zenon, <1>2, <2>1, <2>2, <2>5, <2>10
<1> QED BY <1>1, <1>2

\* That loop has turns.
LEMMA PureExists ==
  ASSUME NEW bits \in {8, 16, 32}, NEW units \in Seq(UnitSet(bits)), NEW limit \in Nat
  PROVE  \E f : IsPure(f, bits, units, limit)
<1>1. PICK n \in Nat : n = Len(units)
  OBVIOUS
<1>2. PICK S : S = PureStates(units)
  OBVIOUS
<1>3. PICK a : a = PureStart(limit)
  OBVIOUS
<1>4. a \in S
  BY <1>2, <1>3 DEF PureStart, PureStates
<1>5. PICK G : G = [x \in Nat \X S |-> PureTurn(bits, units, x[2])]
  OBVIOUS
<1>6. G \in [Nat \X S -> S]
  BY <1>2, <1>5, PureTurnIs
<1>7. PICK f \in [0 .. n -> S] : Turns(f, G, a, n)
  BY <1>4, <1>6, TurnsExist
<1>8. ASSUME NEW k \in 1 .. n PROVE f[k] = PureTurn(bits, units, f[k - 1])
  <2>1. k - 1 \in 0 .. n /\ k \in Nat
    OBVIOUS
  <2>2. f[k - 1] \in S
    BY <1>7, <2>1
  <2>3. f[k] = G[<<k, f[k - 1]>>]
    BY <1>7 DEF Turns
  <2> QED BY <1>5, <2>1, <2>2, <2>3
<1>9. f[0] = a
  BY <1>7 DEF Turns
<1> QED BY <1>1, <1>2, <1>3, <1>7, <1>8, <1>9 DEF IsPure

\* Every turn that is not over reads a unit.
LEMMA PureAdvances ==
  ASSUME NEW bits \in {8, 16, 32}, NEW units \in Seq(UnitSet(bits)), NEW limit \in Nat,
         NEW f, IsPure(f, bits, units, limit)
  PROVE  \A k \in 0 .. Len(units) : f[k] \in PureStates(units) /\ (Over(units, f[k]) \/ f[k].pos >= k)
<1>1. PICK n \in Nat : n = Len(units)
  OBVIOUS
<1> DEFINE T == {k \in 0 .. n : Over(units, f[k]) \/ f[k].pos >= k}
<1>2. \A k \in 0 .. n : f[k] \in PureStates(units)
  BY <1>1 DEF IsPure
<1>3. 0 \in T
  <2>1. f[0].pos = 0
    BY DEF IsPure, PureStart
  <2> QED BY <2>1
<1>4. ASSUME NEW k \in 1 .. n, k - 1 \in T PROVE k \in T
  <2>1. PICK p : p = f[k - 1]
    OBVIOUS
  <2>2. p \in PureStates(units)
    BY <1>2, <2>1
  <2>3. f[k] = PureTurn(bits, units, p)
    BY <1>1, <2>1 DEF IsPure
  <2>4. CASE Over(units, p)
    BY <2>2, <2>3, <2>4, PureTurnIs
  <2>5. CASE ~Over(units, p)
    <3>1. PICK d : d = DecodeIn(bits, Rest(units, p))
      OBVIOUS
    <3>2. f[k] = PureStep(p, d) /\ Right(bits, Rest(units, p), d)
      BY <2>2, <2>3, <2>5, <3>1, PureTurnIs
    <3>3. f[k].pos = p.pos + d.used
      BY <3>2 DEF PureStep
    <3>4. d.used \in Nat /\ d.used >= 1
      BY <3>2 DEF Right
    <3>5. p.pos \in Nat /\ p.pos >= k - 1
      BY <1>4, <2>1, <2>2, <2>5, PureStateIs
    <3>6. f[k].pos >= k
      BY <3>3, <3>4, <3>5
    <3> QED BY <3>6
  <2> QED BY <2>4, <2>5
<1> HIDE DEF T
<1>5. T = 0 .. n
  <2>1. T \in SUBSET (0 .. n)
    BY DEF T
  <2> QED BY <1>3, <1>4, <2>1, UpTo
<1> QED BY <1>1, <1>2, <1>5 DEF T

-----------------------------------------------------------------------------
(* A conversion follows that loop. *)

\* A conversion stands where the text has got to when there is always room.
Agree(c, p, units, room) ==
  /\ c.rest = Rest(units, p) /\ c.out = p.out /\ c.left = p.left /\ c.chars = p.chars
  /\ c.room = room - Len(p.out) /\ c.room >= 0

\* The conversion has got as far as turn j, and ends there if it is full.
At(c, f, j, units, room) ==
  /\ Agree(c, f[j], units, room)
  /\ c.error # "none" => ~Over(units, f[j]) /\ c.room < EscapeRoom

\* A conversion and the loop are over together.
LEMMA AgreeIsOver ==
  ASSUME NEW bits, NEW units \in Seq(UnitSet(bits)), NEW p \in PureStates(units), NEW room,
         NEW c \in Conversions(bits), Agree(c, p, units, room)
  PROVE  Over(units, p) <=> c.rest = <<>> \/ c.left = 0
BY PureRest, PureStateIs DEF Agree, Over

\* One more character.
LEMMA AgreeStep ==
  ASSUME NEW bits, NEW units \in Seq(UnitSet(bits)), NEW p \in PureStates(units), NEW room \in Nat,
         NEW c \in Conversions(bits), Agree(c, p, units, room), ~Over(units, p),
         NEW d, Right(bits, Rest(units, p), d),
         Len(EncodeSafe(d.code).bytes) <= c.room
  PROVE  /\ OneChar(c, d) \in Conversions(bits) /\ Agree(OneChar(c, d), PureStep(p, d), units, room)
         /\ OneChar(c, d).error = c.error /\ Len(OneChar(c, d).rest) < Len(c.rest)
<1>1. PICK e : e = EncodeSafe(d.code)
  OBVIOUS
<1>2. PICK s : s = OneChar(c, d)
  OBVIOUS
<1>3. PICK q : q = PureStep(p, d)
  OBVIOUS
<1>4. /\ c.rest = Rest(units, p) /\ c.out = p.out /\ c.left = p.left /\ c.chars = p.chars
      /\ c.room = room - Len(p.out) /\ c.room >= 0
  BY DEF Agree
<1>5. p.pos \in Nat /\ p.pos < Len(units) /\ p.left > 0 /\ p.out \in Seq(Bytes)
  BY PureStateIs DEF Over
<1>6. PICK r : r = Rest(units, p)
  OBVIOUS
<1>7. r \in Seq(UnitSet(bits)) /\ Len(r) = Len(units) - p.pos /\ \A j \in 1 .. Len(units) - p.pos : r[j] = units[p.pos + j]
  BY <1>6, PureRest
<1>8. d.code \in CodePoints /\ d.used \in 1 .. Len(r)
  BY <1>6 DEF Right
<1>9. e.bytes \in Seq(Bytes) /\ e.chars \in Nat
  BY <1>1, <1>8, EncodeSafeIs
<1>10. d.used \in 0 .. Len(c.rest) /\ c.left > 0
  BY <1>4, <1>5, <1>6, <1>7, <1>8
<1>20. d.used \in 1 .. Len(c.rest)
  BY Zenon, <1>4, <1>6, <1>8
<1>11. /\ s \in Conversions(bits) /\ Len(s.rest) = Len(c.rest) - d.used
       /\ s.rest = SubSeq(c.rest, d.used + 1, Len(c.rest)) /\ s.out = c.out \o e.bytes /\ s.room = c.room - Len(e.bytes)
       /\ s.left = c.left - 1 /\ s.chars = c.chars + e.chars /\ s.error = c.error
  <2>1. IsOneChar(bits, c, s, d.used, e.bytes, e.chars)
    BY Zenon, <1>1, <1>2, <1>8, <1>10, <1>20, OneCharIs
  <2> QED BY Zenon, <2>1 DEF IsOneChar
<1>12. q.pos = p.pos + d.used /\ q.out = p.out \o e.bytes /\ q.left = p.left - 1 /\ q.chars = p.chars + e.chars
  BY <1>1, <1>3 DEF PureStep
<1>13. Len(q.out) = Len(p.out) + Len(e.bytes)
  BY <1>5, <1>9, <1>12, ConcatLen
<1>14. s.rest = Rest(units, q)
  <2>1. PICK l \in Nat : l = Len(units)
    OBVIOUS
  <2>2. PICK n \in Nat : n = p.pos
    BY <1>5
  <2>3. PICK u \in Nat : u = d.used
    BY <1>8
  <2>4. n + u <= l /\ u <= l - n /\ u \in 0 .. l - n /\ n + u \in 0 .. l /\ Len(r) = l - n
    <3>1. Len(r) = l - n
      BY Zenon, <1>7, <2>1, <2>2
    <3>2. u \in 1 .. l - n
      BY Zenon, <1>8, <2>3, <3>1
    <3> QED BY SMTT(40), <3>1, <3>2
  <2>5. PICK x : x = SubSeq(r, u + 1, l - n)
    OBVIOUS
  <2>6. PICK y : y = SubSeq(units, n + u + 1, l)
    OBVIOUS
  <2>7. x \in Seq(UnitSet(bits)) /\ Len(x) = l - n - u /\ \A j \in 1 .. l - n - u : x[j] = r[u + j]
    <3>1. u \in 0 .. Len(r)
      BY <2>4
    <3>2. Len(r) - u = l - n - u /\ Len(r) = l - n
      BY <2>4
    <3> QED BY <1>7, <2>5, <3>1, <3>2, RestIs
  <2>8. y \in Seq(UnitSet(bits)) /\ Len(y) = l - n - u /\ \A j \in 1 .. l - n - u : y[j] = units[n + u + j]
    <3>1. n + u \in 0 .. Len(units)
      BY <2>1, <2>4
    <3>2. Len(units) - (n + u) = l - n - u
      BY <2>1, <2>4
    <3> QED BY <2>1, <2>6, <3>1, <3>2, RestIs
  <2>9. ASSUME NEW j \in 1 .. l - n - u PROVE x[j] = y[j]
    <3>1. u + j \in 1 .. l - n /\ n + (u + j) = n + u + j
      BY <2>4
    <3>2. r[u + j] = units[n + (u + j)]
      BY <1>7, <2>1, <2>2, <3>1
    <3> QED BY <2>7, <2>8, <3>1, <3>2
  <2>10. x = y
    BY <2>4, <2>7, <2>8, <2>9
  <2>11. s.rest = x
    BY Zenon, <1>4, <1>6, <1>11, <2>3, <2>4, <2>5
  <2>12. Rest(units, q) = y
    BY Zenon, <1>12, <2>1, <2>2, <2>3, <2>6 DEF Rest
  <2> QED BY <2>10, <2>11, <2>12
<1>15. s.room = room - Len(q.out) /\ s.room >= 0
  <2>1. Len(e.bytes) \in Nat /\ Len(p.out) \in Nat /\ Len(e.bytes) <= c.room
    <3>1. Len(e.bytes) <= c.room
      BY <1>1
    <3> QED BY <1>5, <1>9, <3>1
  <2>2. PICK m \in Nat : m = Len(e.bytes)
    BY <2>1
  <2>3. PICK n \in Nat : n = Len(p.out)
    BY <2>1
  <2>4. PICK k : k = c.room
    OBVIOUS
  <2>5. k = room - n /\ m <= k
    BY <1>4, <2>1, <2>2, <2>3, <2>4
  <2>6. s.room = k - m /\ Len(q.out) = n + m
    BY Zenon, <1>11, <1>13, <2>2, <2>3, <2>4
  <2>7. k - m = room - (n + m) /\ k - m >= 0
    BY <2>5
  <2> QED BY Zenon, <2>6, <2>7
<1>16. s.out = q.out /\ s.left = q.left /\ s.chars = q.chars
  BY <1>4, <1>11, <1>12
<1>17. Agree(s, q, units, room) /\ s.error = c.error
  BY <1>11, <1>14, <1>15, <1>16 DEF Agree
<1>18. Len(s.rest) < Len(c.rest)
  <2>1. Len(c.rest) \in Nat /\ d.used \in Nat /\ d.used >= 1
    BY <1>4, <1>6, <1>7, <1>8
  <2> QED BY <1>11, <2>1
<1> QED BY Zenon, <1>2, <1>3, <1>11, <1>17, <1>18

\* A turn leaves a conversion where it is, one turn on or full.
LEMMA TurnKeepsAt ==
  ASSUME NEW bits \in {8, 16, 32}, NEW units \in Seq(UnitSet(bits)), NEW limit \in Nat, NEW room \in Nat,
         NEW f, IsPure(f, bits, units, limit), NEW c \in Conversions(bits),
         NEW j \in 0 .. Len(units), At(c, f, j, units, room)
  PROVE  /\ c.rest = <<>> \/ c.left = 0 \/ c.error # "none" => ConvertTurn(bits, c) = c
         /\ \E k \in 0 .. Len(units) : At(ConvertTurn(bits, c), f, k, units, room)
         /\ c.rest # <<>> /\ c.left > 0 /\ c.error = "none" =>
              \/ ConvertTurn(bits, c).error # "none"
              \/ Len(ConvertTurn(bits, c).rest) < Len(c.rest)
<1>1. PICK p : p = f[j]
  OBVIOUS
<1>2. p \in PureStates(units) /\ (Over(units, p) \/ p.pos >= j)
  BY <1>1, PureAdvances
<1>3. Agree(c, p, units, room) /\ (c.error # "none" => ~Over(units, p) /\ c.room < EscapeRoom)
  BY Zenon, <1>1 DEF At
<1>4. Over(units, p) <=> c.rest = <<>> \/ c.left = 0
  BY <1>2, <1>3, AgreeIsOver
<1>5. c.room \in Int /\ c.left \in Nat /\ c.error \in {"none", "buff_full"} /\ EscapeRoom = 10
  BY ConversionIs DEF EscapeRoom
<1>6. CASE Over(units, p)
  <2>1. ConvertTurn(bits, c) = c
    BY <1>4, <1>6, ConvertTurnIs
  <2> QED BY SMT, <1>3, <1>4, <1>5, <1>6, <2>1
<1>7. CASE ~Over(units, p) /\ c.room < EscapeRoom
  <2>1. PICK s : s = ConvertTurn(bits, c)
    OBVIOUS
  <2>2. s = [c EXCEPT !.error = "buff_full"]
    BY SMT, <1>4, <1>5, <1>7, <2>1, ConvertTurnIs
  <2>3. s.rest = c.rest /\ s.out = c.out /\ s.room = c.room /\ s.left = c.left /\ s.chars = c.chars /\ s.error = "buff_full"
    BY <2>2, FullIs
  <2>4. At(s, f, j, units, room)
    BY Zenon, <1>1, <1>3, <1>7, <2>3 DEF At, Agree
  <2>5. ASSUME c.error # "none" PROVE s = c
    BY <1>5, <2>2, <2>5 DEF Conversions
  <2> QED BY SMT, <1>4, <1>5, <1>7, <2>1, <2>3, <2>4, <2>5
<1>8. CASE ~Over(units, p) /\ c.room >= EscapeRoom
  <2>1. PICK s : s = ConvertTurn(bits, c)
    OBVIOUS
  <2>2. PICK d : d = DecodeIn(bits, c.rest)
    OBVIOUS
  <2>3. c.rest # <<>> /\ c.left > 0
    BY <1>4, <1>5, <1>8
  <2>4. s = OneChar(c, d)
    BY Zenon, <1>8, <2>1, <2>2, <2>3, ConvertTurnIs
  <2>5. c.rest = Rest(units, p)
    BY <1>3 DEF Agree
  <2>6. PureTurn(bits, units, p) = PureStep(p, d) /\ Right(bits, Rest(units, p), d)
    <3>1. d = DecodeIn(bits, Rest(units, p))
      BY Zenon, <2>2, <2>5
    <3>2. p \in PureStates(units) /\ ~Over(units, p)
      BY Zenon, <1>2, <1>8
    <3>3. /\ PureTurn(bits, units, p) = PureStep(p, DecodeIn(bits, Rest(units, p)))
          /\ Right(bits, Rest(units, p), DecodeIn(bits, Rest(units, p)))
      BY ZenonT(40), <3>2, PureTurnIs
    <3> QED BY Zenon, <3>1, <3>3
  <2>7. d.code \in CodePoints /\ d.used \in 1 .. Len(c.rest)
    BY Zenon, <2>5, <2>6 DEF Right
  <2>8. Len(EncodeSafe(d.code).bytes) <= c.room
    <3>1. Len(EncodeSafe(d.code).bytes) \in Nat /\ Len(EncodeSafe(d.code).bytes) <= 10
      BY <2>7, EncodeSafeIs
    <3>2. PICK n : n = Len(EncodeSafe(d.code).bytes)
      OBVIOUS
    <3>3. n \in Nat /\ n <= 10
      BY Zenon, <3>1, <3>2
    <3>4. n <= c.room
      BY <1>5, <1>8, <3>3
    <3> QED BY <3>2, <3>4
  <2>9. Agree(s, PureStep(p, d), units, room) /\ s.error = c.error /\ Len(s.rest) < Len(c.rest)
    <3>1. Agree(c, p, units, room)
      BY <1>3
    <3>2. ~Over(units, p)
      BY <1>8
    <3>3. Right(bits, Rest(units, p), d)
      BY <2>6
    <3>4. /\ Agree(OneChar(c, d), PureStep(p, d), units, room)
          /\ OneChar(c, d).error = c.error /\ Len(OneChar(c, d).rest) < Len(c.rest)
      BY <1>2, <2>8, <3>1, <3>2, <3>3, AgreeStep
    <3> QED BY Zenon, <2>4, <3>4
  <2>10. j + 1 \in 0 .. Len(units) /\ j + 1 \in 1 .. Len(units) /\ (j + 1) - 1 = j
    BY <1>2, <1>8, PureStateIs DEF Over
  <2>11. f[j + 1] = PureStep(p, d)
    BY Zenon, <1>1, <2>6, <2>10 DEF IsPure
  <2>12. c.error = "none"
    BY <1>3, <1>5, <1>8
  <2>13. At(s, f, j + 1, units, room)
    BY Zenon, <2>9, <2>11, <2>12 DEF At
  <2> QED BY Zenon, <1>4, <1>8, <2>1, <2>9, <2>10, <2>12, <2>13
<1> QED BY <1>5, <1>6, <1>7, <1>8

\* The loop of a conversion gets as far as it can.
LEMMA ConvertIs ==
  ASSUME NEW bits \in {8, 16, 32}, NEW units \in Seq(UnitSet(bits)), NEW limit \in Nat, NEW room \in Nat,
         NEW f, IsPure(f, bits, units, limit), NEW c \in Conversions(bits), c.error = "none",
         NEW i \in 0 .. Len(units), At(c, f, i, units, room)
  PROVE  /\ Convert(bits, c) \in Conversions(bits)
         /\ \E j \in 0 .. Len(units) : At(Convert(bits, c), f, j, units, room)
         /\ Convert(bits, c).rest = <<>> \/ Convert(bits, c).left = 0 \/ Convert(bits, c).error # "none"
<1> DEFINE F(t) == t = [k \in 0 .. Len(c.rest) |-> IF k = 0 THEN c ELSE ConvertTurn(bits, t[k - 1])]
           turn == CHOOSE t : F(t)
<1>1. Convert(bits, c) = turn[Len(c.rest)]
  BY DEF Convert
<1>2. PICK n \in Nat : n = Len(c.rest)
  BY ConversionIs
<1>3. PICK S : S = Conversions(bits)
  OBVIOUS
<1>4. \E t : F(t)
  <2>1. PICK G : G = [x \in Nat \X S |-> ConvertTurn(bits, x[2])]
    OBVIOUS
  <2>2. \A x \in S : ConvertTurn(bits, x) \in S
    BY <1>3, ConvertTurnIs
  <2>3. G \in [Nat \X S -> S]
    BY <2>1, <2>2
  <2>4. PICK g \in [0 .. n -> S] : Turns(g, G, c, n)
    BY <1>3, <2>3, TurnsExist
  <2>5. ASSUME NEW k \in 0 .. n PROVE g[k] = IF k = 0 THEN c ELSE ConvertTurn(bits, g[k - 1])
    <3>1. CASE k = 0
      BY <2>4, <3>1 DEF Turns
    <3>2. CASE k # 0
      <4>1. k \in 1 .. n /\ k - 1 \in 0 .. n /\ k \in Nat
        BY <3>2
      <4>2. g[k] = G[<<k, g[k - 1]>>] /\ g[k - 1] \in S
        BY <2>4, <4>1 DEF Turns
      <4>3. G[<<k, g[k - 1]>>] = ConvertTurn(bits, g[k - 1])
        BY <2>1, <4>1, <4>2
      <4> QED BY <3>2, <4>2, <4>3
    <3> QED BY <3>1, <3>2
  <2>6. g = [k \in 0 .. n |-> IF k = 0 THEN c ELSE ConvertTurn(bits, g[k - 1])]
    BY <2>4, <2>5
  <2> QED BY <1>2, <2>6
<1>5. F(turn)
  BY <1>4
<1> HIDE DEF turn
<1>6. turn[0] = c /\ \A k \in 1 .. n : turn[k] = ConvertTurn(bits, turn[k - 1])
  <2>1. turn = [k \in 0 .. n |-> IF k = 0 THEN c ELSE ConvertTurn(bits, turn[k - 1])]
    BY Zenon, <1>2, <1>5
  <2>2. ASSUME NEW k \in 0 .. n PROVE turn[k] = IF k = 0 THEN c ELSE ConvertTurn(bits, turn[k - 1])
    BY Zenon, <2>1
  <2>3. 0 \in 0 .. n /\ \A k \in 1 .. n : k \in 0 .. n /\ k # 0
    OBVIOUS
  <2> QED BY Zenon, <2>2, <2>3
<1> DEFINE Ended(t) == t.rest = <<>> \/ t.left = 0 \/ t.error # "none"
           T == {k \in 0 .. n : /\ turn[k] \in S /\ \E j \in 0 .. Len(units) : At(turn[k], f, j, units, room)
                                /\ Ended(turn[k]) \/ Len(turn[k].rest) + k <= n}
<1>7. 0 \in T
  BY <1>2, <1>3, <1>6
<1>8. ASSUME NEW k \in 1 .. n, k - 1 \in T PROVE k \in T
  <2>1. PICK t : t = turn[k - 1]
    OBVIOUS
  <2>2. turn[k] = ConvertTurn(bits, t)
    BY <1>6, <2>1
  <2>3. t \in Conversions(bits) /\ (Ended(t) \/ Len(t.rest) + (k - 1) <= n)
    BY <1>3, <1>8, <2>1
  <2>4. PICK j \in 0 .. Len(units) : At(t, f, j, units, room)
    BY <1>8, <2>1
  <2>5. PICK s : s = ConvertTurn(bits, t)
    OBVIOUS
  <2>6. /\ t.rest = <<>> \/ t.left = 0 \/ t.error # "none" => s = t
        /\ \E m \in 0 .. Len(units) : At(s, f, m, units, room)
        /\ t.rest # <<>> /\ t.left > 0 /\ t.error = "none" => s.error # "none" \/ Len(s.rest) < Len(t.rest)
    BY SMTT(40), <2>3, <2>4, <2>5, TurnKeepsAt
  <2>7. s \in S
    BY <1>3, <2>3, <2>5, ConvertTurnIs
  <2>8. Ended(s) \/ Len(s.rest) + k <= n
    <3>1. CASE Ended(t)
      BY <2>6, <3>1
    <3>2. CASE ~Ended(t)
      <4>1. t.left \in Nat /\ Len(t.rest) \in Nat /\ Len(s.rest) \in Nat
        BY <1>3, <2>3, <2>7, ConversionIs
      <4>2. t.rest # <<>> /\ t.left > 0 /\ t.error = "none"
        BY <3>2, <4>1
      <4>3. s.error # "none" \/ Len(s.rest) < Len(t.rest)
        BY <2>6, <4>2
      <4>4. Len(s.rest) < Len(t.rest) => Len(s.rest) + k <= n
        BY <2>3, <3>2, <4>1
      <4> QED BY <4>3, <4>4
    <3> QED BY <3>1, <3>2
  <2>9. turn[k] = s /\ k \in 0 .. n
    BY <2>2, <2>5
  <2> QED BY <2>6, <2>7, <2>8, <2>9
<1> HIDE DEF T
<1>9. T = 0 .. n
  <2>1. T \in SUBSET (0 .. n)
    BY DEF T
  <2> QED BY <1>7, <1>8, <2>1, UpTo
<1>10. n \in T
  BY <1>9
<1>11. PICK r : r = turn[n]
  OBVIOUS
<1>12. r \in Conversions(bits) /\ (\E j \in 0 .. Len(units) : At(r, f, j, units, room)) /\ (Ended(r) \/ Len(r.rest) + n <= n)
  BY <1>3, <1>10, <1>11 DEF T
<1>13. Len(r.rest) + n <= n => r.rest = <<>>
  BY <1>12, ConversionIs, RestOfNone
<1>14. Convert(bits, c) = r
  BY <1>1, <1>2, <1>11
<1> QED BY <1>12, <1>13, <1>14

\* The loop that copies gets no further than a conversion would.
LEMMA CopyAsciiIs ==
  ASSUME NEW units \in Seq(UnitSet(8)), NEW limit \in Nat, NEW room \in Nat,
         NEW f, IsPure(f, 8, units, limit), NEW c \in Conversions(8), c.error = "none",
         NEW i \in 0 .. Len(units), At(c, f, i, units, room)
  PROVE  /\ CopyAscii(c) \in Conversions(8) /\ CopyAscii(c).error = "none"
         /\ \E j \in 0 .. Len(units) : At(CopyAscii(c), f, j, units, room)
<1> DEFINE F(t) == t = [k \in 0 .. Len(c.rest) |-> IF k = 0 THEN c ELSE CopyTurn(t[k - 1])]
           turn == CHOOSE t : F(t)
<1>1. CopyAscii(c) = turn[Len(c.rest)]
  BY DEF CopyAscii
<1>2. PICK n \in Nat : n = Len(c.rest)
  BY ConversionIs
<1>3. PICK S : S = Conversions(8)
  OBVIOUS
<1>4. \E t : F(t)
  <2>1. PICK G : G = [x \in Nat \X S |-> CopyTurn(x[2])]
    OBVIOUS
  <2>2. \A x \in S : CopyTurn(x) \in S
    BY <1>3, CopyTurnIs
  <2>3. G \in [Nat \X S -> S]
    BY <2>1, <2>2
  <2>4. PICK g \in [0 .. n -> S] : Turns(g, G, c, n)
    BY <1>3, <2>3, TurnsExist
  <2>5. ASSUME NEW k \in 0 .. n PROVE g[k] = IF k = 0 THEN c ELSE CopyTurn(g[k - 1])
    <3>1. CASE k = 0
      BY <2>4, <3>1 DEF Turns
    <3>2. CASE k # 0
      <4>1. k \in 1 .. n /\ k - 1 \in 0 .. n /\ k \in Nat
        BY <3>2
      <4>2. g[k] = G[<<k, g[k - 1]>>] /\ g[k - 1] \in S
        BY <2>4, <4>1 DEF Turns
      <4>3. G[<<k, g[k - 1]>>] = CopyTurn(g[k - 1])
        BY <2>1, <4>1, <4>2
      <4> QED BY <3>2, <4>2, <4>3
    <3> QED BY <3>1, <3>2
  <2>6. g = [k \in 0 .. n |-> IF k = 0 THEN c ELSE CopyTurn(g[k - 1])]
    BY <2>4, <2>5
  <2> QED BY <1>2, <2>6
<1>5. F(turn)
  BY <1>4
<1> HIDE DEF turn
<1>6. turn[0] = c /\ \A k \in 1 .. n : turn[k] = CopyTurn(turn[k - 1])
  <2>1. turn = [k \in 0 .. n |-> IF k = 0 THEN c ELSE CopyTurn(turn[k - 1])]
    BY Zenon, <1>2, <1>5
  <2>2. ASSUME NEW k \in 0 .. n PROVE turn[k] = IF k = 0 THEN c ELSE CopyTurn(turn[k - 1])
    BY Zenon, <2>1
  <2>3. 0 \in 0 .. n /\ \A k \in 1 .. n : k \in 0 .. n /\ k # 0
    OBVIOUS
  <2> QED BY Zenon, <2>2, <2>3
<1> DEFINE T == {k \in 0 .. n : /\ turn[k] \in S /\ turn[k].error = "none"
                                /\ \E j \in 0 .. Len(units) : At(turn[k], f, j, units, room)}
<1>7. 0 \in T
  BY <1>2, <1>3, <1>6
<1>8. ASSUME NEW k \in 1 .. n, k - 1 \in T PROVE k \in T
  <2>1. PICK t : t = turn[k - 1]
    OBVIOUS
  <2>2. turn[k] = CopyTurn(t)
    BY <1>6, <2>1
  <2>3. t \in Conversions(8) /\ t.error = "none"
    BY <1>3, <1>8, <2>1
  <2>4. PICK j \in 0 .. Len(units) : At(t, f, j, units, room)
    BY <1>8, <2>1
  <2>5. PICK s : s = CopyTurn(t)
    OBVIOUS
  <2>6. s \in S
    BY <1>3, <2>3, <2>5, CopyTurnIs
  <2>7. s.error = "none" /\ \E m \in 0 .. Len(units) : At(s, f, m, units, room)
    <3>1. CASE s = t
      BY <2>3, <2>4, <3>1
    <3>2. CASE s # t
      <4>1. PICK d : d = DecodeIn(8, t.rest)
        OBVIOUS
      <4>2. t.rest # <<>> /\ t.left > 0 /\ t.room > 0 /\ s = OneChar(t, d) /\ Len(EncodeSafe(d.code).bytes) = 1
        BY Zenon, <2>3, <2>5, <3>2, <4>1, CopyTurnIs
      <4>3. PICK p : p = f[j]
        OBVIOUS
      <4>4. p \in PureStates(units) /\ (Over(units, p) \/ p.pos >= j)
        BY <4>3, PureAdvances
      <4>5. Agree(t, p, units, room)
        BY <2>4, <4>3 DEF At
      <4>6. ~Over(units, p)
        <5>1. ~(t.rest = <<>> \/ t.left = 0)
          BY <4>2
        <5> QED BY <2>3, <4>4, <4>5, <5>1, AgreeIsOver
      <4>7. t.rest = Rest(units, p)
        BY <4>5 DEF Agree
      <4>8. d = DecodeIn(8, Rest(units, p))
        BY Zenon, <4>1, <4>7
      <4>9. PureTurn(8, units, p) = PureStep(p, d) /\ Right(8, Rest(units, p), d)
        BY Zenon, <4>4, <4>6, <4>8, PureTurnIs
      <4>10. Len(EncodeSafe(d.code).bytes) <= t.room
        <5>1. t.room \in Int /\ 1 <= t.room
          BY <2>3, <4>2, ConversionIs
        <5> QED BY <4>2, <5>1
      <4>11. Agree(OneChar(t, d), PureStep(p, d), units, room) /\ OneChar(t, d).error = t.error
        BY <2>3, <4>4, <4>5, <4>6, <4>9, <4>10, AgreeStep
      <4>12. j + 1 \in 0 .. Len(units) /\ j + 1 \in 1 .. Len(units) /\ (j + 1) - 1 = j
        BY <4>4, <4>6, PureStateIs DEF Over
      <4>13. f[j + 1] = PureStep(p, d)
        BY Zenon, <4>3, <4>9, <4>12 DEF IsPure
      <4>14. s.error = "none"
        BY <2>3, <4>2, <4>11
      <4>15. At(s, f, j + 1, units, room)
        BY Zenon, <4>2, <4>11, <4>13, <4>14 DEF At
      <4> QED BY <4>12, <4>14, <4>15
    <3> QED BY <3>1, <3>2
  <2>9. turn[k] = s /\ k \in 0 .. n
    BY <2>2, <2>5
  <2> QED BY <2>6, <2>7, <2>9
<1> HIDE DEF T
<1>9. T = 0 .. n
  <2>1. T \in SUBSET (0 .. n)
    BY DEF T
  <2> QED BY <1>7, <1>8, <2>1, UpTo
<1>10. n \in T
  BY <1>9
<1>11. CopyAscii(c) = turn[n]
  BY <1>1, <1>2
<1> QED BY <1>3, <1>10, <1>11 DEF T

\* utf8conv() writes what some turns with room write, and stops before the end
\* only with an error, for lack of room.
StopsAt(r, f, j, units, room) ==
  /\ r.out = f[j].out /\ r.chars = f[j].chars /\ Len(f[j].out) <= room
  /\ r.error \in {"none", "buff_full"}
  /\ r.error = "none" => Over(units, f[j])
  /\ r.error # "none" => ~Over(units, f[j]) /\ room - Len(f[j].out) < EscapeRoom

\* A conversion stops where the loop without a room is at some turn.
LEMMA Utf8ConvIs ==
  ASSUME NEW bits \in {8, 16, 32}, NEW units \in Seq(UnitSet(bits)), NEW limit \in Nat, NEW room \in Nat,
         NEW f, IsPure(f, bits, units, limit)
  PROVE  \E j \in 0 .. Len(units) : StopsAt(Utf8Conv(bits, units, room, limit), f, j, units, room)
<1>1. PICK c : c = Conversion(units, room, limit)
  OBVIOUS
<1>2. c \in Conversions(bits) /\ c.error = "none"
  <2>1. <<>> \in Seq(Bytes) /\ room \in Int /\ 0 \in Nat
    OBVIOUS
  <2> QED BY Zenon, <1>1, <2>1 DEF Conversion, Conversions
<1>3. 0 \in 0 .. Len(units) /\ At(c, f, 0, units, room)
  <2>1. PICK p : p = PureStart(limit)
    OBVIOUS
  <2>2. f[0] = p
    BY <2>1 DEF IsPure
  <2>3. p.pos = 0 /\ p.out = <<>> /\ p.left = limit /\ p.chars = 0
    BY <2>1 DEF PureStart
  <2>4. c.rest = units /\ c.out = <<>> /\ c.left = limit /\ c.chars = 0 /\ c.room = room
    BY <1>1 DEF Conversion
  <2>5. Rest(units, p) = units
    <3>1. SubSeq(units, 0 + 1, Len(units)) = units
      OBVIOUS
    <3> QED BY <2>3, <3>1 DEF Rest
  <2>6. room - Len(<<>>) = room /\ room >= 0
    OBVIOUS
  <2>7. Agree(c, p, units, room)
    BY <2>3, <2>4, <2>5, <2>6 DEF Agree
  <2> QED BY <1>2, <2>2, <2>7 DEF At
<1>4. PICK a : a = IF bits = 8 THEN CopyAscii(c) ELSE c
  OBVIOUS
<1>5. a \in Conversions(bits) /\ a.error = "none" /\ \E j \in 0 .. Len(units) : At(a, f, j, units, room)
  <2>1. CASE bits = 8
    <3>1. CopyAscii(c) \in Conversions(8) /\ CopyAscii(c).error = "none"
         /\ \E j \in 0 .. Len(units) : At(CopyAscii(c), f, j, units, room)
      BY <1>2, <1>3, <2>1, CopyAsciiIs
    <3> QED BY <1>4, <2>1, <3>1
  <2>2. CASE bits # 8
    BY <1>2, <1>3, <1>4, <2>2
  <2> QED BY <2>1, <2>2
<1>6. PICK r : r = Convert(bits, a)
  OBVIOUS
<1>7. PICK i \in 0 .. Len(units) : At(a, f, i, units, room)
  BY Zenon, <1>5
<1>8. /\ r \in Conversions(bits) /\ (r.rest = <<>> \/ r.left = 0 \/ r.error # "none")
       /\ \E j \in 0 .. Len(units) : At(r, f, j, units, room)
  BY ZenonT(40), <1>5, <1>6, <1>7, ConvertIs
<1>9. PICK j \in 0 .. Len(units) : At(r, f, j, units, room)
  BY Zenon, <1>8
<1>10. PICK p : p = f[j]
  OBVIOUS
<1>11. p \in PureStates(units)
  BY <1>10, PureAdvances
<1>12. Agree(r, p, units, room) /\ (r.error # "none" => ~Over(units, p) /\ r.room < EscapeRoom)
  BY <1>9, <1>10 DEF At
<1>13. Over(units, p) <=> r.rest = <<>> \/ r.left = 0
  BY <1>8, <1>11, <1>12, AgreeIsOver
<1>14. r.error \in {"none", "buff_full"} /\ r.room \in Int
  BY <1>8, ConversionIs
<1>15. r.out = p.out /\ r.chars = p.chars /\ r.room = room - Len(p.out) /\ r.room >= 0
  BY <1>12 DEF Agree
<1>16. Len(p.out) \in Nat
  BY <1>11, PureStateIs
<1>17. StopsAt(r, f, j, units, room)
  BY <1>8, <1>10, <1>12, <1>13, <1>14, <1>15, <1>16 DEF StopsAt
<1>18. Utf8Conv(bits, units, room, limit) = r
  BY Zenon, <1>1, <1>4, <1>6 DEF Utf8Conv
<1> QED BY <1>9, <1>17, <1>18

-----------------------------------------------------------------------------
(* What has been written before the end. *)

\* The beginning of a text.
Starts(a, b) == Len(a) <= Len(b) /\ \A i \in 1 .. Len(a) : b[i] = a[i]

\* To start a sequence is to be a prefix of it.
LEMMA StartsIsPrefix ==
  ASSUME NEW S, NEW a \in Seq(S), NEW b \in Seq(S), Starts(a, b)
  PROVE  IsPrefix(a, b)
<1>1. PICK n \in Nat : n = Len(a)
  OBVIOUS
<1>2. n <= Len(b) /\ \A i \in 1 .. n : b[i] = a[i]
  BY <1>1 DEF Starts
<1>3. SubSeq(b, 1, n) = SubSeq(a, 1, n)
  <2>1. PICK x : x = SubSeq(b, 1, n)
    OBVIOUS
  <2>2. PICK y : y = SubSeq(a, 1, n)
    OBVIOUS
  <2>3. x \in Seq(S) /\ Len(x) = n /\ \A i \in 1 .. n : x[i] = b[i]
    BY <1>2, <2>1
  <2>4. y \in Seq(S) /\ Len(y) = n /\ \A i \in 1 .. n : y[i] = a[i]
    BY <1>1, <2>2
  <2>5. x = y
    BY <1>2, <2>3, <2>4
  <2> QED BY <2>1, <2>2, <2>5
<1> QED BY <1>1, <1>2, <1>3 DEF IsPrefix

\* Once a turn is over, nothing more happens; before that more comes behind
\* what has been written.
EndsIn(p, q, units) ==
  /\ Starts(p.out, q.out) /\ (Over(units, p) => p = q)
  /\ ~Over(units, p) => Len(p.out) < Len(q.out)

\* The loop ends, and has written less before.
LEMMA PureEnds ==
  ASSUME NEW bits \in {8, 16, 32}, NEW units \in Seq(UnitSet(bits)), NEW limit \in Nat,
         NEW f, IsPure(f, bits, units, limit)
  PROVE  /\ Over(units, f[Len(units)])
         /\ \A k \in 0 .. Len(units) : EndsIn(f[k], f[Len(units)], units)
<1>1. PICK n \in Nat : n = Len(units)
  OBVIOUS
<1>2. PICK q : q = f[n]
  OBVIOUS
<1>3. \A k \in 0 .. n : f[k] \in PureStates(units)
  BY <1>1, PureAdvances
<1>4. q \in PureStates(units) /\ Over(units, q)
  <2>1. n \in 0 .. Len(units)
    BY <1>1
  <2>2. q \in PureStates(units) /\ (Over(units, q) \/ q.pos >= n)
    BY <1>2, <2>1, PureAdvances
  <2>3. q.pos >= n => q.pos = Len(units)
    BY <1>1, <2>2, PureStateIs
  <2> QED BY <2>2, <2>3 DEF Over
<1> DEFINE T == {k \in 0 .. n : EndsIn(f[n - k], q, units)}
<1>5. 0 \in T
  <2>1. q.out \in Seq(Bytes)
    BY <1>4, PureStateIs
  <2>2. Starts(q.out, q.out)
    BY <2>1 DEF Starts
  <2>3. EndsIn(q, q, units)
    BY <1>4, <2>2 DEF EndsIn
  <2>4. n - 0 = n
    OBVIOUS
  <2> QED BY <1>2, <2>3, <2>4
<1>6. ASSUME NEW k \in 1 .. n, k - 1 \in T PROVE k \in T
  <2>1. PICK j : j = n - k
    OBVIOUS
  <2>2. j \in 0 .. n /\ j + 1 \in 0 .. n /\ j + 1 \in 1 .. n /\ n - (k - 1) = j + 1 /\ (j + 1) - 1 = j
    BY <2>1
  <2>3. PICK p : p = f[j]
    OBVIOUS
  <2>4. PICK s : s = f[j + 1]
    OBVIOUS
  <2>5. EndsIn(s, q, units)
    BY <1>6, <2>2, <2>4
  <2>6. s = PureTurn(bits, units, p) /\ p \in PureStates(units) /\ s \in PureStates(units)
    BY <1>1, <1>3, <2>2, <2>3, <2>4 DEF IsPure
  <2>7. CASE Over(units, p)
    <3>1. s = p
      BY <2>6, <2>7, PureTurnIs
    <3> QED BY <2>1, <2>2, <2>3, <2>5, <3>1
  <2>8. CASE ~Over(units, p)
    <3>1. PICK d : d = DecodeIn(bits, Rest(units, p))
      OBVIOUS
    <3>2. s = PureStep(p, d) /\ Right(bits, Rest(units, p), d)
      BY ZenonT(40), <2>6, <2>8, <3>1, PureTurnIs
    <3>3. PICK b : b = EncodeSafe(d.code).bytes
      OBVIOUS
    <3>4. s.out = p.out \o b
      BY <3>2, <3>3 DEF PureStep
    <3>5. b \in Seq(Bytes) /\ Len(b) \in Nat /\ Len(b) >= 1
      BY <3>2, <3>3, EncodeSafeIs DEF Right
    <3>6. PICK x : x = p.out
      OBVIOUS
    <3>7. PICK y : y = s.out
      OBVIOUS
    <3>8. PICK z : z = q.out
      OBVIOUS
    <3>9. x \in Seq(Bytes) /\ y \in Seq(Bytes) /\ z \in Seq(Bytes) /\ y = x \o b
      BY <1>4, <2>6, <3>4, <3>6, <3>7, <3>8, PureStateIs
    <3>10. Len(x) < Len(y) /\ \A i \in 1 .. Len(x) : y[i] = x[i]
      <4>1. Len(y) = Len(x) + Len(b) /\ \A i \in 1 .. Len(x) : y[i] = x[i]
        BY <3>5, <3>9, ConcatIs
      <4>2. Len(x) \in Nat
        BY <3>9
      <4> QED BY <3>5, <4>1, <4>2
    <3>11. Len(y) <= Len(z) /\ \A i \in 1 .. Len(y) : z[i] = y[i]
      BY <2>5, <3>7, <3>8 DEF EndsIn, Starts
    <3>12. Len(x) \in Nat /\ Len(y) \in Nat /\ Len(z) \in Nat
      BY <3>9
    <3>13. Len(x) < Len(z) /\ \A i \in 1 .. Len(x) : z[i] = x[i]
      BY <3>10, <3>11, <3>12
    <3>14. Starts(p.out, q.out) /\ Len(p.out) < Len(q.out)
      BY <3>6, <3>8, <3>12, <3>13 DEF Starts
    <3>15. EndsIn(p, q, units)
      BY <2>8, <3>14 DEF EndsIn
    <3> QED BY <2>1, <2>2, <2>3, <3>15
  <2> QED BY <2>7, <2>8
<1> HIDE DEF T
<1>7. T = 0 .. n
  <2>1. T \in SUBSET (0 .. n)
    BY DEF T
  <2> QED BY <1>5, <1>6, <2>1, UpTo
<1>8. ASSUME NEW k \in 0 .. n PROVE EndsIn(f[k], q, units)
  <2>1. n - k \in 0 .. n /\ n - (n - k) = k
    OBVIOUS
  <2>2. n - k \in T
    BY <1>7, <2>1
  <2>3. EndsIn(f[n - (n - k)], q, units)
    BY <2>2 DEF T
  <2> QED BY <2>1, <2>3
<1> QED BY <1>1, <1>2, <1>4, <1>8

\* What is written takes no more than the longest escapes would.
LEMMA PureRoom ==
  ASSUME NEW bits \in {8, 16, 32}, NEW units \in Seq(UnitSet(bits)), NEW limit \in Nat,
         NEW f, IsPure(f, bits, units, limit)
  PROVE  \A k \in 0 .. Len(units) : Len(f[k].out) <= EscapeRoom * f[k].pos
<1>1. PICK n \in Nat : n = Len(units)
  OBVIOUS
<1>2. EscapeRoom = 10
  BY DEF EscapeRoom
<1>3. \A k \in 0 .. n : f[k] \in PureStates(units)
  BY <1>1, PureAdvances
<1> DEFINE T == {k \in 0 .. n : Len(f[k].out) <= 10 * f[k].pos}
<1>4. 0 \in T
  <2>1. f[0].out = <<>> /\ f[0].pos = 0
    BY DEF IsPure, PureStart
  <2>2. Len(<<>>) <= 10 * 0
    OBVIOUS
  <2> QED BY <2>1, <2>2
<1>5. ASSUME NEW k \in 1 .. n, k - 1 \in T PROVE k \in T
  <2>1. PICK p : p = f[k - 1]
    OBVIOUS
  <2>2. PICK s : s = f[k]
    OBVIOUS
  <2>3. k - 1 \in 0 .. n
    OBVIOUS
  <2>4. s = PureTurn(bits, units, p) /\ p \in PureStates(units)
    BY <1>1, <1>3, <2>1, <2>2, <2>3 DEF IsPure
  <2>5. Len(p.out) <= 10 * p.pos
    BY <1>5, <2>1
  <2>6. Len(s.out) <= 10 * s.pos
    <3>1. CASE Over(units, p)
      <4>1. s = p
        BY <2>4, <3>1, PureTurnIs
      <4> QED BY <2>5, <4>1
    <3>2. CASE ~Over(units, p)
      <4>1. PICK d : d = DecodeIn(bits, Rest(units, p))
        OBVIOUS
      <4>2. s = PureStep(p, d) /\ Right(bits, Rest(units, p), d)
        BY Zenon, <2>4, <3>2, <4>1, PureTurnIs
      <4>3. PICK b : b = EncodeSafe(d.code).bytes
        OBVIOUS
      <4>4. s.out = p.out \o b /\ s.pos = p.pos + d.used
        BY <4>2, <4>3 DEF PureStep
      <4>5. b \in Seq(Bytes) /\ Len(b) \in Nat /\ Len(b) <= 10 /\ d.used \in Nat /\ d.used >= 1
        BY <4>2, <4>3, EncodeSafeIs DEF Right
      <4>6. Len(s.out) = Len(p.out) + Len(b)
        BY <2>4, <4>4, <4>5, PureStateIs, ConcatLen
      <4>7. PICK x \in Nat : x = Len(p.out)
        BY <2>4, PureStateIs
      <4>8. PICK y \in Nat : y = p.pos
        BY <2>4, PureStateIs
      <4>9. PICK u \in Nat : u = d.used
        BY <4>5
      <4>10. PICK m \in Nat : m = Len(b) /\ m <= 10
        BY <4>5
      <4>11. x <= 10 * y /\ m <= 10 /\ u >= 1
        BY <2>5, <4>5, <4>7, <4>8, <4>9, <4>10
      <4>12. x + m <= 10 * (y + u)
        BY <4>11
      <4>13. Len(s.out) = x + m /\ s.pos = y + u
        BY Zenon, <4>4, <4>6, <4>7, <4>8, <4>9, <4>10
      <4> QED BY <4>12, <4>13
    <3> QED BY <3>1, <3>2
  <2> QED BY <2>2, <2>6
<1> HIDE DEF T
<1>6. T = 0 .. n
  <2>1. T \in SUBSET (0 .. n)
    BY DEF T
  <2> QED BY <1>4, <1>5, <2>1, UpTo
<1> QED BY <1>1, <1>2, <1>6 DEF T

\* With room for the longest escape of every unit there is always room.
LEMMA AmpleIsWhole ==
  ASSUME NEW bits \in {8, 16, 32}, NEW units \in Seq(UnitSet(bits)), NEW limit \in Nat,
         NEW f, IsPure(f, bits, units, limit)
  PROVE  /\ Utf8Conv(bits, units, EscapeRoom * Len(units), limit).out = f[Len(units)].out
         /\ Utf8Conv(bits, units, EscapeRoom * Len(units), limit).error = "none"
<1>1. PICK n \in Nat : n = Len(units)
  OBVIOUS
<1>2. PICK room : room = EscapeRoom * n
  OBVIOUS
<1>3. room \in Nat /\ EscapeRoom = 10 /\ room = 10 * n
  BY <1>2 DEF EscapeRoom
<1>4. PICK r : r = Utf8Conv(bits, units, room, limit)
  OBVIOUS
<1>5. PICK j \in 0 .. Len(units) : StopsAt(r, f, j, units, room)
  BY <1>3, <1>4, Utf8ConvIs
<1>6. PICK p : p = f[j]
  OBVIOUS
<1>7. p \in PureStates(units) /\ Len(p.out) <= EscapeRoom * p.pos /\ EndsIn(p, f[Len(units)], units)
  BY <1>6, PureAdvances, PureRoom, PureEnds
<1>8. Over(units, p)
  <2>1. ASSUME ~Over(units, p) PROVE FALSE
    <3>1. PICK x \in Nat : x = Len(p.out)
      BY <1>7, PureStateIs
    <3>2. PICK y \in Nat : y = p.pos
      BY <1>7, PureStateIs
    <3>3. y < n
      BY <1>1, <1>7, <2>1, <3>2, PureStateIs DEF Over
    <3>4. x <= 10 * y
      BY <1>3, <1>7, <3>1, <3>2
    <3>5. ~(room - x < 10)
      BY <1>3, <3>3, <3>4
    <3>6. r.error # "none" /\ room - x < 10
      BY <1>3, <1>5, <1>6, <2>1, <3>1 DEF StopsAt
    <3> QED BY <3>5, <3>6
  <2> QED BY <2>1
<1>9. p = f[Len(units)] /\ r.error = "none" /\ r.out = p.out
  BY <1>5, <1>6, <1>7, <1>8 DEF EndsIn, StopsAt
<1> QED BY <1>1, <1>2, <1>4, <1>9

-----------------------------------------------------------------------------
(* Filling to a width. *)

\* What the parts of a format are.
LEMMA FormatIs ==
  ASSUME NEW format, IsFormat(format)
  PROVE  /\ format.width \in Nat /\ format.precision \in Nat
         /\ format.fill \in Seq(Bytes) /\ Len(format.fill) \in 1 .. 4
         /\ \E cp \in CodePoints : Safe(cp) /\ format.fill = Encode(cp)
<1>1. NoPrecision \in Nat
  BY DEF NoPrecision
<1>2. format.width \in Nat /\ format.precision \in Nat
  <2>1. format.width \in 0 .. NoPrecision /\ format.precision \in 0 .. NoPrecision
    BY DEF IsFormat
  <2> QED BY <1>1, <2>1
<1>3. PICK fill : fill = format.fill
  OBVIOUS
<1>4. PICK cp : cp = DecodeUtf8(fill).code
  OBVIOUS
<1>5. fill \in Seq(Bytes) /\ fill # <<>> /\ Safe(cp) /\ fill = Encode(cp)
  BY <1>3, <1>4 DEF IsFormat, IsFillChar
<1>6. cp \in CodePoints
  BY <1>4, <1>5, Utf8Right DEF Right
<1>7. Len(Encode(cp)) \in 1 .. 4
  BY <1>6, EncodedIsSequence
<1> QED BY Zenon, <1>2, <1>3, <1>5, <1>6, <1>7

\* One more character of a fill stands behind the others.
LEMMA FillSucc ==
  ASSUME NEW fill \in Seq(Bytes), NEW n \in Nat
  PROVE  /\ Fill(fill, 0) = <<>> /\ Fill(fill, n) \in Seq(Bytes)
         /\ Fill(fill, n + 1) = Fill(fill, n) \o fill
<1>1. PICK R : R = Seq(Bytes)
  OBVIOUS
<1>2. PICK s : s = [i \in 1 .. n |-> fill]
  OBVIOUS
<1>3. s \in Seq(R) /\ Len(s) = n /\ fill \in R
  BY <1>1, <1>2
<1>4. [i \in 1 .. n + 1 |-> fill] = Append(s, fill)
  <2>1. PICK t : t = [i \in 1 .. n + 1 |-> fill]
    OBVIOUS
  <2>2. PICK u : u = Append(s, fill)
    OBVIOUS
  <2>3. t \in Seq(R) /\ Len(t) = n + 1 /\ \A i \in 1 .. n + 1 : t[i] = fill
    BY <1>3, <2>1
  <2>4. u \in Seq(R) /\ Len(u) = n + 1 /\ \A i \in 1 .. n + 1 : u[i] = fill
    <3>1. u \in Seq(R) /\ Len(u) = n + 1 /\ (\A i \in 1 .. n : u[i] = s[i]) /\ u[n + 1] = fill
      BY <1>3, <2>2, AppendIs
    <3>2. \A i \in 1 .. n : s[i] = fill
      BY <1>2
    <3> QED BY <3>1, <3>2
  <2>5. t = u
    BY <2>3, <2>4
  <2> QED BY <2>1, <2>2, <2>5
<1>5. FlattenSeq(s) \in Seq(Bytes) /\ FlattenSeq(Append(s, fill)) = FlattenSeq(s) \o fill
  <2>1. s \in Seq(Seq(Bytes))
    BY Zenon, <1>1, <1>3
  <2> QED BY <2>1, FlattenAppend
<1>6. Fill(fill, 0) = <<>>
  <2>1. [i \in 1 .. 0 |-> fill] = <<>>
    OBVIOUS
  <2> QED BY <2>1 DEF Fill, FlattenSeq
<1> QED BY Zenon, <1>2, <1>4, <1>5, <1>6 DEF Fill

\* A fill is as long as its characters.
LEMMA FillIs ==
  ASSUME NEW fill \in Seq(Bytes), Len(fill) \in 1 .. 4, NEW n \in Nat
  PROVE  Fill(fill, n) \in Seq(Bytes) /\ Len(Fill(fill, n)) = n * Len(fill)
<1>1. PICK m \in 1 .. 4 : m = Len(fill)
  OBVIOUS
<1> DEFINE T == {k \in 0 .. n : Len(Fill(fill, k)) = k * m}
<1>2. 0 \in T
  <2>1. Fill(fill, 0) = <<>>
    BY FillSucc
  <2>2. Len(<<>>) = 0 * m
    OBVIOUS
  <2> QED BY <2>1, <2>2
<1>3. ASSUME NEW k \in 1 .. n, k - 1 \in T PROVE k \in T
  <2>1. PICK i \in Nat : k = i + 1 /\ i = k - 1
    OBVIOUS
  <2>2. Fill(fill, i + 1) = Fill(fill, i) \o fill /\ Fill(fill, i) \in Seq(Bytes)
    BY FillSucc
  <2>3. Len(Fill(fill, i + 1)) = Len(Fill(fill, i)) + Len(fill)
    BY <2>2, ConcatLen
  <2>4. Len(Fill(fill, i)) = i * m
    BY <1>3, <2>1
  <2>5. i * m + m = (i + 1) * m
    <3>1. CASE m = 1
      BY <3>1
    <3>2. CASE m = 2
      BY <3>2
    <3>3. CASE m = 3
      BY <3>3
    <3>4. CASE m = 4
      BY <3>4
    <3> QED BY <3>1, <3>2, <3>3, <3>4
  <2>6. Len(Fill(fill, k)) = k * m
    BY Zenon, <1>1, <2>1, <2>3, <2>4, <2>5
  <2> QED BY <2>6
<1> HIDE DEF T
<1>4. T = 0 .. n
  <2>1. T \in SUBSET (0 .. n)
    BY DEF T
  <2> QED BY <1>2, <1>3, <2>1, UpTo
<1>5. n \in T
  BY <1>4
<1> QED BY <1>1, <1>5, FillSucc DEF T

\* What shift_fill() makes of a text: nothing, where it is wide enough or there
\* is no room; and else the text between two fills.
FilledAround(bytes, text, grow, format) ==
  \E left \in 0 .. grow :
    LET right == grow - left
    IN  /\ format.align = AlignRight => right = 0
        /\ format.align = AlignCenter => right - left \in {0, 1}
        /\ format.align = AlignLeft => left = 0
        /\ bytes = Fill(format.fill, left) \o text \o Fill(format.fill, right)

\* The text, shifted and filled when there is room.
IsShifted(bytes, text, chars, room, format) ==
  LET grow == format.width - chars
  IN  IF grow <= 0 \/ Len(text) + grow * Len(format.fill) > room
      THEN bytes = text ELSE FilledAround(bytes, text, grow, format)

\* shift_fill() with all it looks at as parameters.
Shifting(t, text, chars, size, width, align, fill, m, room) ==
  LET grow == width - chars
      left == CASE align = AlignRight -> grow [] align = AlignCenter -> grow \div 2 [] OTHER -> 0
  IN  IF grow <= 0 \/ grow * m > room - size THEN t
      ELSE Counted(Fill(fill, left) \o text \o Fill(fill, grow - left), width)

\* A text is shifted and filled as its format says.
LEMMA ShiftFillIs ==
  ASSUME NEW format, IsFormat(format), NEW text \in Seq(Bytes), NEW chars \in Nat, NEW room \in Nat
  PROVE  IsShifted(ShiftFill(Counted(text, chars), room, format).bytes, text, chars, room, format)
<1>1. PICK width \in Nat : width = format.width
  BY FormatIs
<1>2. PICK fill : fill = format.fill
  OBVIOUS
<1>3. PICK align : align = format.align
  OBVIOUS
<1>4. PICK m \in 1 .. 4 : m = Len(fill)
  BY <1>2, FormatIs
<1>5. PICK size \in Nat : size = Len(text)
  OBVIOUS
<1>6. PICK grow \in Int : grow = width - chars
  OBVIOUS
<1>7. PICK left : left = CASE align = AlignRight -> grow [] align = AlignCenter -> grow \div 2 [] OTHER -> 0
  OBVIOUS
<1>8. grow * m > room - size <=> size + grow * m > room
  <2>1. grow * m \in Int
    OBVIOUS
  <2>2. PICK need \in Int : need = grow * m
    BY <2>1
  <2>3. need > room - size <=> size + need > room
    OBVIOUS
  <2> QED BY <2>2, <2>3
<1>9. PICK r : r = ShiftFill(Counted(text, chars), room, format)
  OBVIOUS
<1>10. Counted(text, chars).bytes = text /\ Counted(text, chars).chars = chars
  BY DEF Counted
<1>11. r = IF grow <= 0 \/ grow * m > room - size THEN Counted(text, chars)
           ELSE Counted(Fill(fill, left) \o text \o Fill(fill, grow - left), width)
  <2>1. PICK t : t = Counted(text, chars)
    OBVIOUS
  <2>2. ShiftFill(t, room, format) =
          Shifting(t, t.bytes, t.chars, Len(t.bytes), format.width, format.align, format.fill, Len(format.fill), room)
    BY DEF ShiftFill, Shifting
  <2>3. t.bytes = text /\ t.chars = chars
    BY Zenon, <1>10, <2>1
  <2>4. r = Shifting(t, text, chars, size, width, align, fill, m, room)
    BY Zenon, <1>1, <1>2, <1>3, <1>4, <1>5, <1>9, <2>1, <2>2, <2>3
  <2>5. r = IF grow <= 0 \/ grow * m > room - size THEN t
            ELSE Counted(Fill(fill, left) \o text \o Fill(fill, grow - left), width)
    BY <1>6, <1>7, <2>4 DEF Shifting
  <2> QED BY Zenon, <2>1, <2>5
<1>12. CASE grow <= 0 \/ size + grow * m > room
  <2>1. r = Counted(text, chars)
    BY Zenon, <1>8, <1>11, <1>12
  <2>2. r.bytes = text
    BY Zenon, <1>10, <2>1
  <2> QED BY Zenon, <1>1, <1>2, <1>4, <1>5, <1>6, <1>9, <1>12, <2>2 DEF IsShifted
<1>13. CASE ~(grow <= 0 \/ size + grow * m > room)
  <2>1. r = Counted(Fill(fill, left) \o text \o Fill(fill, grow - left), width)
    BY Zenon, <1>8, <1>11, <1>13
  <2>2. r.bytes = Fill(fill, left) \o text \o Fill(fill, grow - left)
    BY Zenon, <2>1 DEF Counted
  <2>3. /\ left \in 0 .. grow
        /\ align = AlignRight => grow - left = 0
        /\ align = AlignCenter => grow - left - left \in {0, 1}
        /\ align = AlignLeft => left = 0
    <3>1. CASE align = AlignRight
      BY <1>7, <1>13, <3>1 DEF AlignRight, AlignCenter, AlignLeft
    <3>2. CASE align = AlignCenter
      BY <1>7, <1>13, <3>2 DEF AlignRight, AlignCenter, AlignLeft
    <3>3. CASE align # AlignRight /\ align # AlignCenter
      <4>1. left = 0
        BY Zenon, <1>7, <3>3
      <4> QED BY <1>13, <3>3, <4>1
    <3> QED BY <3>1, <3>2, <3>3
  <2>4. PICK right : right = grow - left
    OBVIOUS
  <2>5. FilledAround(r.bytes, text, grow, format)
    BY Zenon, <1>2, <1>3, <2>2, <2>3, <2>4 DEF FilledAround
  <2> QED BY Zenon, <1>1, <1>2, <1>4, <1>5, <1>6, <1>9, <1>13, <2>5 DEF IsShifted
<1> QED BY <1>12, <1>13

\* It takes no more room than there is.
LEMMA ShiftedFits ==
  ASSUME NEW format, IsFormat(format), NEW text \in Seq(Bytes), NEW chars \in Nat, NEW room \in Nat,
         Len(text) <= room, NEW bytes, IsShifted(bytes, text, chars, room, format)
  PROVE  bytes \in Seq(Bytes) /\ Len(bytes) <= room
<1>1. PICK width \in Nat : width = format.width
  BY FormatIs
<1>2. PICK fill : fill = format.fill
  OBVIOUS
<1>3. fill \in Seq(Bytes) /\ Len(fill) \in 1 .. 4
  BY <1>2, FormatIs
<1>4. PICK m \in 1 .. 4 : m = Len(fill)
  BY <1>3
<1>5. PICK size \in Nat : size = Len(text)
  OBVIOUS
<1>6. PICK grow \in Int : grow = width - chars
  OBVIOUS
<1>7. CASE grow <= 0 \/ size + grow * m > room
  <2>1. bytes = text
    BY Zenon, <1>1, <1>2, <1>4, <1>5, <1>6, <1>7 DEF IsShifted
  <2> QED BY <2>1
<1>8. CASE ~(grow <= 0 \/ size + grow * m > room)
  <2>1. FilledAround(bytes, text, grow, format)
    BY Zenon, <1>1, <1>2, <1>4, <1>5, <1>6, <1>8 DEF IsShifted
  <2>2. PICK left \in 0 .. grow : bytes = Fill(fill, left) \o text \o Fill(fill, grow - left)
    BY Zenon, <1>2, <2>1 DEF FilledAround
  <2>3. left \in Nat /\ grow - left \in Nat
    BY <2>2
  <2>4. PICK a \in Seq(Bytes) : a = Fill(fill, left) /\ Len(a) = left * m
    BY <1>3, <1>4, <2>3, FillIs
  <2>5. PICK b \in Seq(Bytes) : b = Fill(fill, grow - left) /\ Len(b) = (grow - left) * m
    BY <1>3, <1>4, <2>3, FillIs
  <2>6. bytes = (a \o text) \o b
    BY <2>2, <2>4, <2>5
  <2>7. a \o text \in Seq(Bytes) /\ Len(a \o text) = Len(a) + Len(text)
    BY ConcatIn, ConcatLen
  <2>8. (a \o text) \o b \in Seq(Bytes) /\ Len((a \o text) \o b) = Len(a \o text) + Len(b)
    BY <2>7, ConcatIn, ConcatLen
  <2>9. left * m + size + (grow - left) * m = size + grow * m
    <3>1. CASE m = 1
      BY <2>3, <3>1
    <3>2. CASE m = 2
      BY <2>3, <3>2
    <3>3. CASE m = 3
      BY <2>3, <3>3
    <3>4. CASE m = 4
      BY <2>3, <3>4
    <3> QED BY <3>1, <3>2, <3>3, <3>4
  <2>10. Len(bytes) = size + grow * m
    BY Zenon, <1>5, <2>4, <2>5, <2>6, <2>7, <2>8, <2>9
  <2>11. grow * m \in Int
    OBVIOUS
  <2>12. size + grow * m <= room
    BY <1>8, <2>11
  <2> QED BY <2>6, <2>8, <2>10, <2>12
<1> QED BY <1>7, <1>8

-----------------------------------------------------------------------------
(* Texts: bytes that are characters, all of them safe. *)

\* A text of characters that are safe: where no byte continues a character, one
\* stands, and where it ends the next begins.
SafePoints == {cp \in CodePoints : Safe(cp)}

\* The character cp is at place i, and ends there.
CharAt(bytes, i, cp) ==
  /\ StandsAt(bytes, i, Encode(cp))
  /\ i + Len(Encode(cp)) <= Len(bytes) => ~Continues(bytes[i + Len(Encode(cp))])

\* Bytes that are characters, all of them safe.
IsSafeText(bytes) ==
  /\ bytes \in Seq(Bytes)
  /\ Len(bytes) > 0 => ~Continues(bytes[1])
  /\ \A i \in 1 .. Len(bytes) : ~Continues(bytes[i]) => \E cp \in SafePoints : CharAt(bytes, i, cp)

\* The bytes a character has, seen from its first.
LEMMA CharIs ==
  ASSUME NEW cp \in CodePoints
  PROVE  \E e \in Seq(Bytes), m \in 1 .. 4 :
           /\ e = Encode(cp) /\ m = Len(e) /\ ~Continues(e[1])
           /\ \A j \in 2 .. m : Continues(e[j])
           /\ LeadLength(e[1]) = m
<1>1. PICK e : e = Encode(cp)
  OBVIOUS
<1>2. e \in Seq(Bytes) /\ Len(e) \in 1 .. 4 /\ LeadLength(e[1]) = Len(e) /\ \A i \in 2 .. Len(e) : Continues(e[i])
  BY <1>1, EncodedIsSequence
<1>3. e[1] \in Bytes
  BY <1>2
<1>4. ~Continues(e[1])
  <2>1. LeadLength(e[1]) # 0
    BY <1>2
  <2> QED BY <1>3, <2>1, LeadIs
<1>5. PICK m \in 1 .. 4 : m = Len(e)
  BY <1>2
<1> QED BY Zenon, <1>1, <1>2, <1>4, <1>5

\* Sequences that agree in every place are the same.
LEMMA SameSeq ==
  ASSUME NEW S, NEW s \in Seq(S), NEW t \in Seq(S), Len(s) = Len(t), \A i \in 1 .. Len(s) : s[i] = t[i]
  PROVE  s = t
OBVIOUS

\* At a place there is one character only.
LEMMA OneCharAt ==
  ASSUME NEW bytes \in Seq(Bytes), NEW i \in 1 .. Len(bytes), NEW a \in CodePoints, NEW b \in CodePoints,
         StandsAt(bytes, i, Encode(a)), StandsAt(bytes, i, Encode(b))
  PROVE  a = b
<1>1. PICK d \in Seq(Bytes), m \in 1 .. 4 : d = Encode(a) /\ m = Len(d) /\ LeadLength(d[1]) = m
  BY CharIs
<1>2. PICK e \in Seq(Bytes), n \in 1 .. 4 : e = Encode(b) /\ n = Len(e) /\ LeadLength(e[1]) = n
  BY CharIs
<1>3. \A j \in 1 .. m : bytes[i + j - 1] = d[j]
  BY <1>1 DEF StandsAt
<1>4. \A j \in 1 .. n : bytes[i + j - 1] = e[j]
  BY <1>2 DEF StandsAt
<1>5. d[1] = e[1]
  BY <1>3, <1>4
<1>6. m = n
  BY <1>1, <1>2, <1>5
<1>7. \A j \in 1 .. m : d[j] = e[j]
  BY <1>3, <1>4, <1>6
<1>8. d = e
  BY Zenon, <1>1, <1>2, <1>6, <1>7, SameSeq
<1>9. d \o <<>> = d /\ <<>> \in Seq(Bytes)
  OBVIOUS
<1>10. DecodeUtf8(d) = Decoded(a, m)
  BY Zenon, <1>1, <1>9, EncodedIsDecoded
<1>11. DecodeUtf8(e) = Decoded(b, n)
  <2>1. e \o <<>> = e
    OBVIOUS
  <2> QED BY Zenon, <1>2, <1>9, <2>1, EncodedIsDecoded
<1>12. Decoded(a, m).code = a /\ Decoded(b, n).code = b
  BY DEF Decoded
<1> QED BY Zenon, <1>8, <1>10, <1>11, <1>12

\* No bytes are a text.
LEMMA NoText == IsSafeText(<<>>)
BY DEF IsSafeText

\* Texts one after the other are a text.
LEMMA TextConcat ==
  ASSUME NEW a, NEW b, IsSafeText(a), IsSafeText(b)
  PROVE  IsSafeText(a \o b)
<1>1. a \in Seq(Bytes) /\ b \in Seq(Bytes)
  BY DEF IsSafeText
<1>2. PICK t : t = a \o b
  OBVIOUS
<1>3. PICK m \in Nat : m = Len(a)
  BY <1>1
<1>4. PICK n \in Nat : n = Len(b)
  BY <1>1
<1>5. /\ t \in Seq(Bytes) /\ Len(t) = m + n
      /\ \A i \in 1 .. m : t[i] = a[i]
      /\ \A i \in 1 .. n : t[m + i] = b[i]
  BY <1>1, <1>2, <1>3, <1>4, ConcatIs
<1>6. (m > 0 => ~Continues(a[1])) /\ (n > 0 => ~Continues(b[1]))
  BY <1>3, <1>4 DEF IsSafeText
<1>7. Len(t) > 0 => ~Continues(t[1])
  <2>1. CASE m > 0
    BY <1>5, <1>6, <2>1
  <2>2. CASE m = 0
    <3>1. n > 0 => t[0 + 1] = b[1]
      BY <1>5, <2>2
    <3> QED BY <1>5, <1>6, <2>2, <3>1
  <2> QED BY <2>1, <2>2
<1>8. ASSUME NEW i \in 1 .. m, ~Continues(t[i]) PROVE \E cp \in SafePoints : CharAt(t, i, cp)
  <2>1. t[i] = a[i]
    BY <1>5
  <2>2. PICK cp \in SafePoints : CharAt(a, i, cp)
    BY <1>3, <1>8, <2>1 DEF IsSafeText
  <2>3. PICK e \in Seq(Bytes), l \in 1 .. 4 : e = Encode(cp) /\ l = Len(e)
    BY CharIs DEF SafePoints
  <2>4. i + l - 1 <= m /\ \A j \in 1 .. l : a[i + j - 1] = e[j]
    BY <1>3, <2>2, <2>3 DEF CharAt, StandsAt
  <2>5. i + l <= m => ~Continues(a[i + l])
    BY <1>3, <2>2, <2>3 DEF CharAt
  <2>6. i + l - 1 <= m + n /\ \A j \in 1 .. l : t[i + j - 1] = e[j]
    <3>1. \A j \in 1 .. l : i + j - 1 \in 1 .. m
      BY <2>4
    <3>2. \A j \in 1 .. l : t[i + j - 1] = a[i + j - 1]
      BY <1>5, <3>1
    <3>3. i + l - 1 <= m + n
      BY <2>4
    <3> QED BY Zenon, <2>4, <3>2, <3>3
  <2>7. i + l <= m + n => ~Continues(t[i + l])
    <3>1. CASE i + l <= m
      <4>1. t[i + l] = a[i + l]
        BY <1>5, <3>1
      <4> QED BY <2>5, <3>1, <4>1
    <3>2. CASE i + l > m
      <4>1. i + l = m + 1
        BY <2>4, <3>2
      <4>2. n > 0 => t[m + 1] = b[1]
        BY SMTT(40), <1>5
      <4>3. m + 1 <= m + n => n > 0
        OBVIOUS
      <4> QED BY <1>6, <4>1, <4>2, <4>3
    <3> QED BY <3>1, <3>2
  <2>8. CharAt(t, i, cp)
    BY Zenon, <1>5, <2>3, <2>6, <2>7 DEF CharAt, StandsAt
  <2> QED BY <2>8
<1>9. ASSUME NEW i \in 1 .. n, ~Continues(t[m + i]) PROVE \E cp \in SafePoints : CharAt(t, m + i, cp)
  <2>1. t[m + i] = b[i]
    BY <1>5
  <2>2. PICK cp \in SafePoints : CharAt(b, i, cp)
    BY <1>4, <1>9, <2>1 DEF IsSafeText
  <2>3. PICK e \in Seq(Bytes), l \in 1 .. 4 : e = Encode(cp) /\ l = Len(e)
    BY CharIs DEF SafePoints
  <2>4. i + l - 1 <= n /\ \A j \in 1 .. l : b[i + j - 1] = e[j]
    BY <1>4, <2>2, <2>3 DEF CharAt, StandsAt
  <2>5. i + l <= n => ~Continues(b[i + l])
    BY <1>4, <2>2, <2>3 DEF CharAt
  <2>6. (m + i) + l - 1 <= m + n /\ \A j \in 1 .. l : t[(m + i) + j - 1] = e[j]
    <3>1. ASSUME NEW j \in 1 .. l PROVE t[(m + i) + j - 1] = e[j]
      <4>1. i + j - 1 \in 1 .. n /\ (m + i) + j - 1 = m + (i + j - 1)
        BY <2>4
      <4> QED BY <1>5, <2>4, <4>1
    <3> QED BY <2>4, <3>1
  <2>7. (m + i) + l <= m + n => ~Continues(t[(m + i) + l])
    <3>1. ASSUME (m + i) + l <= m + n PROVE ~Continues(t[(m + i) + l])
      <4>1. i + l \in 1 .. n /\ (m + i) + l = m + (i + l) /\ i + l <= n
        BY <3>1
      <4>2. t[(m + i) + l] = b[i + l]
        BY <1>5, <4>1
      <4> QED BY <2>5, <4>1, <4>2
    <3> QED BY <3>1
  <2>8. CharAt(t, m + i, cp)
    BY Zenon, <1>5, <2>3, <2>6, <2>7 DEF CharAt, StandsAt
  <2> QED BY <2>8
<1>10. ASSUME NEW i \in 1 .. Len(t), ~Continues(t[i]) PROVE \E cp \in SafePoints : CharAt(t, i, cp)
  <2>1. i \in 1 .. m \/ \E k \in 1 .. n : i = m + k
    <3>1. CASE i > m
      <4>1. i - m \in 1 .. n /\ i = m + (i - m)
        BY <1>5, <3>1
      <4> QED BY <4>1
    <3> QED BY <3>1
  <2> QED BY <1>8, <1>9, <1>10, <2>1
<1> QED BY <1>2, <1>5, <1>7, <1>10 DEF IsSafeText

\* A character that is safe is a text.
LEMMA TextOfChar ==
  ASSUME NEW cp \in SafePoints
  PROVE  IsSafeText(Encode(cp))
<1>1. PICK e \in Seq(Bytes), m \in 1 .. 4 :
        e = Encode(cp) /\ m = Len(e) /\ ~Continues(e[1]) /\ \A j \in 2 .. m : Continues(e[j])
  BY CharIs DEF SafePoints
<1>2. CharAt(e, 1, cp)
  <2>1. 1 + m - 1 <= m /\ ~(1 + m <= m) /\ \A j \in 1 .. m : 1 + j - 1 = j
    OBVIOUS
  <2> QED BY Zenon, <1>1, <2>1 DEF CharAt, StandsAt
<1>3. \A i \in 1 .. m : ~Continues(e[i]) => i = 1
  <2>1. \A i \in 1 .. m : i = 1 \/ i \in 2 .. m
    OBVIOUS
  <2> QED BY <1>1, <2>1
<1> QED BY Zenon, <1>1, <1>2, <1>3 DEF IsSafeText

\* Printable ASCII characters are a text.
LEMMA TextOfPrintables ==
  ASSUME NEW s \in Seq(Printables)
  PROVE  IsSafeText(s) /\ \A i \in 1 .. Len(s) : ~Continues(s[i])
<1>1. PICK n \in Nat : n = Len(s)
  OBVIOUS
<1>2. ASSUME NEW b \in Printables
      PROVE  b \in SafePoints /\ Len(Encode(b)) = 1 /\ Encode(b)[1] = b /\ ~Continues(b)
  <2>1. b \in Nat /\ b \in Bytes /\ b >= 32 /\ b <= 126
    BY PrintableIs
  <2>2. b < 128
    BY <2>1
  <2>3. b \in CodePoints /\ Len(Encode(b)) = 1 /\ Encode(b)[1] = b
    BY <2>1, <2>2, EncodeOne
  <2>4. Safe(b)
    BY <2>1, SafeIs
  <2>5. ~Continues(b)
    BY <2>1 DEF Continues
  <2> QED BY <2>3, <2>4, <2>5 DEF SafePoints
<1>3. s \in Seq(Bytes)
  BY PrintableIs
<1>4. \A i \in 1 .. n : s[i] \in Printables
  BY <1>1
<1>5. ASSUME NEW i \in 1 .. n PROVE ~Continues(s[i]) /\ \E cp \in SafePoints : CharAt(s, i, cp)
  <2>1. s[i] \in SafePoints /\ Len(Encode(s[i])) = 1 /\ Encode(s[i])[1] = s[i] /\ ~Continues(s[i])
    BY <1>2, <1>4
  <2>2. i + 1 - 1 = i /\ i <= n /\ (\A j \in 1 .. 1 : j = 1) /\ (i + 1 <= n => i + 1 \in 1 .. n)
    OBVIOUS
  <2>3. StandsAt(s, i, Encode(s[i]))
    BY Zenon, <1>1, <2>1, <2>2 DEF StandsAt
  <2>4. i + 1 <= n => ~Continues(s[i + 1])
    BY <1>2, <1>4, <2>2
  <2>5. CharAt(s, i, s[i])
    BY Zenon, <1>1, <2>1, <2>3, <2>4 DEF CharAt
  <2> QED BY <2>1, <2>5
<1>6. n > 0 => 1 \in 1 .. n
  OBVIOUS
<1> QED BY Zenon, <1>1, <1>3, <1>5, <1>6 DEF IsSafeText

\* What is written for a character is a text.
LEMMA TextOfEncodeSafe ==
  ASSUME NEW cp \in CodePoints
  PROVE  IsSafeText(EncodeSafe(cp).bytes)
<1>1. CASE Safe(cp)
  <2>1. cp \in SafePoints
    BY <1>1 DEF SafePoints
  <2>2. EncodeSafe(cp).bytes = Encode(cp)
    BY Zenon, <1>1, EncodeSafeIs
  <2> QED BY <2>1, <2>2, TextOfChar
<1>2. CASE ~Safe(cp)
  <2>1. EncodeSafe(cp).bytes = Escaped(cp)
    BY Zenon, <1>2, EncodeSafeIs
  <2> QED BY <2>1, EscapedIs, TextOfPrintables
<1> QED BY <1>1, <1>2

\* A fill is a text.
LEMMA TextOfFill ==
  ASSUME NEW fill, IsSafeText(fill), NEW n \in Nat
  PROVE  IsSafeText(Fill(fill, n))
<1>1. fill \in Seq(Bytes)
  BY DEF IsSafeText
<1> DEFINE T == {k \in 0 .. n : IsSafeText(Fill(fill, k))}
<1>2. 0 \in T
  BY <1>1, FillSucc, NoText
<1>3. ASSUME NEW k \in 1 .. n, k - 1 \in T PROVE k \in T
  <2>1. PICK i \in Nat : k = i + 1 /\ i = k - 1
    OBVIOUS
  <2>2. Fill(fill, i + 1) = Fill(fill, i) \o fill
    BY <1>1, FillSucc
  <2>3. IsSafeText(Fill(fill, i))
    BY <1>3, <2>1
  <2>4. IsSafeText(Fill(fill, k))
    BY <2>1, <2>2, <2>3, TextConcat
  <2> QED BY <2>4
<1> HIDE DEF T
<1>4. T = 0 .. n
  <2>1. T \in SUBSET (0 .. n)
    BY DEF T
  <2> QED BY <1>2, <1>3, <2>1, UpTo
<1>5. n \in T
  BY <1>4
<1> QED BY <1>5 DEF T

\* A text with its fill is one.
LEMMA TextOfShifted ==
  ASSUME NEW format, IsFormat(format), NEW text, IsSafeText(text), NEW chars \in Nat, NEW room \in Nat,
         NEW bytes, IsShifted(bytes, text, chars, room, format)
  PROVE  IsSafeText(bytes)
<1>1. PICK grow : grow = format.width - chars
  OBVIOUS
<1>2. bytes = text \/ FilledAround(bytes, text, grow, format)
  BY Zenon, <1>1 DEF IsShifted
<1>3. ASSUME FilledAround(bytes, text, grow, format) PROVE IsSafeText(bytes)
  <2>1. PICK left \in 0 .. grow : bytes = Fill(format.fill, left) \o text \o Fill(format.fill, grow - left)
    BY Zenon, <1>3 DEF FilledAround
  <2>2. grow \in Int
    BY <1>1, FormatIs
  <2>3. left \in Nat /\ grow - left \in Nat
    BY <2>1, <2>2
  <2>4. IsSafeText(format.fill)
    <3>1. PICK cp \in CodePoints : Safe(cp) /\ format.fill = Encode(cp)
      BY FormatIs
    <3> QED BY <3>1, TextOfChar DEF SafePoints
  <2>5. PICK a : a = Fill(format.fill, left)
    OBVIOUS
  <2>6. PICK b : b = Fill(format.fill, grow - left)
    OBVIOUS
  <2>7. IsSafeText(a) /\ IsSafeText(b)
    BY <2>3, <2>4, <2>5, <2>6, TextOfFill
  <2>8. IsSafeText((a \o text) \o b)
    BY <2>7, TextConcat
  <2> QED BY <2>1, <2>5, <2>6, <2>8
<1> QED BY <1>2, <1>3

\* The beginning of a text, as far as a character begins.
LEMMA TextOfPrefix ==
  ASSUME NEW bytes, IsSafeText(bytes), NEW p \in 0 .. Len(bytes), p = Len(bytes) \/ ~Continues(bytes[p + 1])
  PROVE  IsSafeText(SubSeq(bytes, 1, p))
<1>1. bytes \in Seq(Bytes)
  BY DEF IsSafeText
<1>2. PICK n \in Nat : n = Len(bytes)
  BY <1>1
<1>3. PICK s : s = SubSeq(bytes, 1, p)
  OBVIOUS
<1>4. p \in Nat /\ p <= n
  BY <1>2
<1>5. s \in Seq(Bytes) /\ Len(s) = p /\ \A i \in 1 .. p : s[i] = bytes[i]
  BY <1>1, <1>2, <1>3, <1>4
<1>6. p > 0 => ~Continues(s[1])
  <2>1. p > 0 => 1 \in 1 .. p /\ n > 0
    BY <1>4
  <2>2. n > 0 => ~Continues(bytes[1])
    BY <1>2 DEF IsSafeText
  <2> QED BY <1>5, <2>1, <2>2
<1>7. ASSUME NEW i \in 1 .. p, ~Continues(s[i]) PROVE \E cp \in SafePoints : CharAt(s, i, cp)
  <2>1. PICK cp \in SafePoints : CharAt(bytes, i, cp)
    <3>1. i \in 1 .. n /\ s[i] = bytes[i]
      BY <1>4, <1>5
    <3> QED BY <1>2, <1>7, <3>1 DEF IsSafeText
  <2>2. PICK e \in Seq(Bytes), l \in 1 .. 4 : e = Encode(cp) /\ l = Len(e) /\ \A j \in 2 .. l : Continues(e[j])
    BY CharIs DEF SafePoints
  <2>3. i + l - 1 <= n /\ \A j \in 1 .. l : bytes[i + j - 1] = e[j]
    BY <1>2, <2>1, <2>2 DEF CharAt, StandsAt
  <2>4. i + l <= n => ~Continues(bytes[i + l])
    BY <1>2, <2>1, <2>2 DEF CharAt
  <2>5. i + l - 1 <= p
    <3>1. ASSUME ~(i + l - 1 <= p) PROVE FALSE
      <4>1. PICK j \in 2 .. l : j = p + 2 - i
        <5>1. p + 2 - i \in 2 .. l
          BY <1>4, <3>1
        <5> QED BY <5>1
      <4>2. i + j - 1 = p + 1 /\ j \in 1 .. l
        BY <1>4, <4>1
      <4>3. Continues(bytes[p + 1])
        BY <2>2, <2>3, <4>2
      <4>4. p # n
        BY <1>4, <2>3, <3>1
      <4> QED BY <1>2, <4>3, <4>4
    <3> QED BY <3>1
  <2>6. \A j \in 1 .. l : s[i + j - 1] = e[j]
    <3>1. \A j \in 1 .. l : i + j - 1 \in 1 .. p
      BY <2>5
    <3> QED BY <1>5, <2>3, <3>1
  <2>7. i + l <= p => ~Continues(s[i + l])
    BY <1>4, <1>5, <2>4
  <2>8. CharAt(s, i, cp)
    BY Zenon, <1>5, <2>2, <2>5, <2>6, <2>7 DEF CharAt, StandsAt
  <2> QED BY <2>8
<1> QED BY <1>3, <1>5, <1>6, <1>7 DEF IsSafeText

-----------------------------------------------------------------------------
(* A text is printable. *)

\* What a text in UTF-8 would have to be somewhere.
LEMMA CandidateIs ==
  ASSUME NEW bytes, NEW i, NEW n \in 1 .. 4
  PROVE  /\ n = 1 => Candidate(8, bytes, i, n) = bytes[i]
         /\ n # 1 => Candidate(8, bytes, i, n) = Value(SubSeq(bytes, i, i + n - 1), n)
<1>1. CASE n = 1
  <2>1. Candidate(8, bytes, i, 1) = bytes[i]
    BY SMT DEF Candidate
  <2> QED BY SMT, <1>1, <2>1
<1>2. CASE n # 1
  <2>1. n > 1
    BY <1>2
  <2>2. Candidate(8, bytes, i, n) = Value(SubSeq(bytes, i, i + n - 1), n)
    BY SMT, <1>2, <2>1 DEF Candidate
  <2> QED BY <1>2, <2>2
<1> QED BY <1>1, <1>2

\* How long a character is that begins at a byte.
LEMMA LengthsAtIs ==
  ASSUME NEW bytes, NEW i
  PROVE  LengthsAt(8, bytes, i) =
           {n \in 1 .. 4 : i + n - 1 <= Len(bytes) /\ IsChar(8, bytes, i, n, Candidate(8, bytes, i, n))}
BY DEF LengthsAt

\* Bytes have a value.
LEMMA ValueIsNat ==
  ASSUME NEW s, NEW n \in 2 .. 4, \A j \in 1 .. n : s[j] \in Nat
  PROVE  Value(s, n) \in Nat
<1>1. PICK a \in Nat : a = s[1]
  OBVIOUS
<1>2. PICK b \in Nat : b = s[2]
  OBVIOUS
<1>3. CASE n = 2
  <2>1. Value(s, 2) = (a % 32) * 64 + (b % 64)
    BY SMT, <1>1, <1>2 DEF Value
  <2>2. (a % 32) * 64 + (b % 64) \in Nat
    OBVIOUS
  <2> QED BY Zenon, <1>3, <2>1, <2>2
<1>4. CASE n # 2
  <2>1. PICK c \in Nat : c = s[3]
    BY <1>4
  <2>2. CASE n = 3
    <3>1. PICK x \in Nat, y \in Nat, z \in Nat : x = a % 16 /\ y = b % 64 /\ z = c % 64
      OBVIOUS
    <3>2. IsThree(Value(s, 3), x, y, z)
      BY Zenon, <1>1, <1>2, <2>1, <3>1, ValueIs
    <3>3. Value(s, 3) \in Nat
      BY SMT, <3>2 DEF IsThree
    <3> QED BY Zenon, <2>2, <3>3
  <2>3. CASE n = 4
    <3>1. PICK d \in Nat : d = s[4]
      BY <2>3
    <3>2. PICK x \in Nat, y \in Nat, z \in Nat : x = b % 64 /\ y = c % 64 /\ z = d % 64
      OBVIOUS
    <3>3. PICK w \in Nat : w = a % 8
      OBVIOUS
    <3>4. IsFour(Value(s, 4), w, x, y, z)
      BY Zenon, <1>1, <1>2, <2>1, <3>1, <3>2, <3>3, ValueIs
    <3>5. Value(s, 4) \in Nat
      BY SMT, <3>4 DEF IsFour
    <3> QED BY Zenon, <2>3, <3>5
  <2> QED BY <1>4, <2>2, <2>3
<1> QED BY <1>3, <1>4
\* What stands at a place as a character is what it would have to be.
LEMMA StandsIsLength ==
  ASSUME NEW bytes \in Seq(Bytes), NEW i \in 1 .. Len(bytes), NEW cp \in CodePoints,
         StandsAt(bytes, i, Encode(cp))
  PROVE  /\ Len(Encode(cp)) \in LengthsAt(8, bytes, i)
         /\ Candidate(8, bytes, i, Len(Encode(cp))) = cp
<1>1. PICK e \in Seq(Bytes), m \in 1 .. 4 : e = Encode(cp) /\ m = Len(e)
  BY CharIs
<1>2. PICK n \in Nat : n = Len(bytes)
  OBVIOUS
<1>3. i + m - 1 <= n /\ SubSeq(bytes, i, i + m - 1) = e
  <2>1. i \in 1 .. Len(bytes) + 1
    OBVIOUS
  <2> QED BY <1>1, <1>2, <2>1, StandsIs
<1>4. Candidate(8, bytes, i, m) = cp
  <2>1. CASE m = 1
    <3>1. e[1] = cp
      BY Zenon, <1>1, <2>1, EncodedIsSequence
    <3>2. bytes[i + 1 - 1] = e[1] /\ i + 1 - 1 = i
      BY <1>1, <2>1 DEF StandsAt
    <3>3. bytes[i] = cp
      BY <3>1, <3>2
    <3> QED BY Zenon, <2>1, <3>3, CandidateIs
  <2>2. CASE m # 1
    <3>1. m > 1
      BY <2>2
    <3>2. Value(e, m) = cp
      BY Zenon, <1>1, <3>1, EncodedIsSequence
    <3>3. Candidate(8, bytes, i, m) = Value(SubSeq(bytes, i, i + m - 1), m)
      BY Zenon, <1>1, <2>2, CandidateIs
    <3> QED BY Zenon, <1>3, <3>2, <3>3
  <2> QED BY <2>1, <2>2
<1>5. IsChar(8, bytes, i, m, cp)
  <2>1. ValidCodePoint(cp)
    BY DEF CodePoints
  <2>2. EncodeIn(8, cp) = Encode(cp)
    BY DEF EncodeIn
  <2> QED BY Zenon, <1>1, <1>3, <2>1, <2>2 DEF IsChar
<1>6. m \in LengthsAt(8, bytes, i)
  <2>1. m \in 1 .. 4
    OBVIOUS
  <2> QED BY Zenon, <1>2, <1>3, <1>4, <1>5, <2>1, LengthsAtIs
<1> QED BY Zenon, <1>1, <1>4, <1>6

\* And what would have to be one, is.
LEMMA LengthIsStands ==
  ASSUME NEW bytes \in Seq(Bytes), NEW i \in 1 .. Len(bytes), NEW n \in LengthsAt(8, bytes, i)
  PROVE  \E cp \in CodePoints :
           cp = Candidate(8, bytes, i, n) /\ StandsAt(bytes, i, Encode(cp)) /\ n = Len(Encode(cp))
<1>1. PICK size \in Nat : size = Len(bytes)
  OBVIOUS
<1>2. PICK cp : cp = Candidate(8, bytes, i, n)
  OBVIOUS
<1>3. n \in 1 .. 4 /\ i + n - 1 <= size /\ IsChar(8, bytes, i, n, cp)
  BY Zenon, <1>1, <1>2, LengthsAtIs
<1>4. PICK s : s = SubSeq(bytes, i, i + n - 1)
  OBVIOUS
<1>5. s \in Seq(Bytes) /\ Len(s) = n
  BY <1>1, <1>3, <1>4
<1>6. ValidCodePoint(cp) /\ Encode(cp) = s
  BY <1>3, <1>4 DEF IsChar, EncodeIn
<1>7. cp \in Nat
  <2>1. CASE n = 1
    <3>1. cp = bytes[i]
      BY Zenon, <1>2, <1>3, <2>1, CandidateIs
    <3>2. bytes[i] \in Bytes
      OBVIOUS
    <3>3. \A b \in Bytes : b \in Nat
      BY DEF Bytes
    <3> QED BY Zenon, <3>1, <3>2, <3>3
  <2>2. CASE n # 1
    <3>1. n > 1
      BY <1>3, <2>2
    <3>2. cp = Value(s, n)
      BY Zenon, <1>2, <1>3, <1>4, <2>2, CandidateIs
    <3>3. \A j \in 1 .. n : s[j] \in Bytes
      BY <1>5
    <3>4. Value(s, n) \in Nat
      <4>1. \A b \in Bytes : b \in Nat
        BY DEF Bytes
      <4>2. n \in 2 .. 4 /\ \A j \in 1 .. n : s[j] \in Nat
        BY <1>3, <3>1, <3>3, <4>1
      <4> QED BY Zenon, <4>2, ValueIsNat
    <3> QED BY Zenon, <3>2, <3>4
  <2> QED BY <2>1, <2>2
<1>8. cp \in CodePoints
  BY <1>6, <1>7 DEF CodePoints
<1>9. StandsAt(bytes, i, Encode(cp)) /\ Len(Encode(cp)) = n
  <2>1. i \in 1 .. Len(bytes) + 1
    OBVIOUS
  <2>2. i + Len(s) - 1 <= Len(bytes) /\ SubSeq(bytes, i, i + Len(s) - 1) = s
    BY <1>1, <1>3, <1>4, <1>5
  <2>3. StandsAt(bytes, i, s)
    BY <1>5, <2>1, <2>2, StandsIs
  <2> QED BY Zenon, <1>5, <1>6, <2>3
<1> QED BY <1>2, <1>8, <1>9

\* Every byte of a text belongs to a character that begins at it or before it.
LEMMA TextIsCovered ==
  ASSUME NEW bytes, IsSafeText(bytes), NEW i \in 1 .. Len(bytes)
  PROVE  \E j \in 1 .. i : \E cp \in SafePoints :
           StandsAt(bytes, j, Encode(cp)) /\ i < j + Len(Encode(cp))
<1>1. bytes \in Seq(Bytes)
  BY DEF IsSafeText
<1>2. PICK n \in Nat : n = Len(bytes)
  BY <1>1
<1>3. i \in Nat /\ i >= 1 /\ i <= n
  BY <1>2
<1> DEFINE T == {k \in 0 .. i - 1 : ~Continues(bytes[i - k])}
<1>4. i - 1 \in T
  <2>1. ~Continues(bytes[1])
    BY <1>2, <1>3 DEF IsSafeText
  <2>2. i - (i - 1) = 1 /\ i - 1 \in 0 .. i - 1
    BY <1>3
  <2> QED BY <2>1, <2>2
<1>5. PICK k \in T : \A l \in T : k <= l
  <2>1. T \in SUBSET Nat
    OBVIOUS
  <2>2. T # {}
    BY Zenon, <1>4
  <2> QED BY <2>1, <2>2, LeastOf
<1>6. PICK j \in 1 .. i : j = i - k
  BY <1>3, <1>5
<1>7. ~Continues(bytes[j]) /\ j \in 1 .. Len(bytes)
  BY <1>2, <1>3, <1>5, <1>6
<1>8. PICK cp \in SafePoints : CharAt(bytes, j, cp)
  BY <1>7 DEF IsSafeText
<1>9. PICK m \in 1 .. 4 : m = Len(Encode(cp))
  BY CharIs DEF SafePoints
<1>10. j + m <= n => ~Continues(bytes[j + m])
  BY <1>2, <1>8, <1>9 DEF CharAt
<1>11. i < j + m
  <2>1. ASSUME ~(i < j + m) PROVE FALSE
    <3>1. PICK l \in Nat : l = i - (j + m)
      BY <1>3, <2>1
    <3>2. l \in 0 .. i - 1 /\ i - l = j + m /\ j + m <= n /\ ~(k <= l)
      BY <1>3, <1>5, <1>6, <2>1, <3>1
    <3>3. l \in T
      BY <1>10, <3>2
    <3> QED BY <1>5, <3>2, <3>3
  <2> QED BY <2>1
<1> QED BY <1>8, <1>9, <1>11 DEF CharAt

\* Nothing of a text is unprintable.
Unprintable(bytes) ==
  LET found == UNION {{i} \X LengthsAt(8, bytes, i) : i \in DOMAIN bytes}
  IN  \/ \E c \in found : LET cp == Candidate(8, bytes, c[1], c[2]) IN ~(cp > 31 /\ ~(cp \in 127 .. 160))
      \/ \E i \in DOMAIN bytes : \A c \in found : ~(c[1] <= i /\ i < c[1] + c[2])

\* A text of safe characters is printable.
LEMMA TextIsPrintable ==
  ASSUME NEW bytes, IsSafeText(bytes)
  PROVE  ~Unprintable(bytes)
<1>1. bytes \in Seq(Bytes)
  BY DEF IsSafeText
<1>2. DOMAIN bytes = 1 .. Len(bytes)
  BY <1>1
<1>3. PICK found : found = UNION {{i} \X LengthsAt(8, bytes, i) : i \in DOMAIN bytes}
  OBVIOUS
<1>4. \A i \in 1 .. Len(bytes) : \A n \in LengthsAt(8, bytes, i) : <<i, n>> \in found
  BY <1>2, <1>3
<1>5. \A c \in found : \E i \in 1 .. Len(bytes) : \E n \in LengthsAt(8, bytes, i) : c = <<i, n>>
  BY <1>2, <1>3
<1>6. ASSUME NEW c \in found
      PROVE  \A cp : cp = Candidate(8, bytes, c[1], c[2]) => cp > 31 /\ ~(cp \in 127 .. 160)
  <2>1. PICK i \in 1 .. Len(bytes) : \E n \in LengthsAt(8, bytes, i) : c = <<i, n>>
    BY <1>5
  <2>2. PICK n \in LengthsAt(8, bytes, i) : c = <<i, n>>
    BY <2>1
  <2>3. PICK cp \in CodePoints :
          cp = Candidate(8, bytes, i, n) /\ StandsAt(bytes, i, Encode(cp)) /\ n = Len(Encode(cp))
    BY <1>1, LengthIsStands
  <2>4. PICK e \in Seq(Bytes), m \in 1 .. 4 : e = Encode(cp) /\ m = Len(e) /\ ~Continues(e[1])
    BY CharIs
  <2>5. bytes[i] = e[1]
    <3>1. 1 \in 1 .. m /\ i + 1 - 1 = i
      OBVIOUS
    <3>2. bytes[i + 1 - 1] = e[1]
      BY <2>3, <2>4, <3>1 DEF StandsAt
    <3> QED BY <3>1, <3>2
  <2>6. PICK safe \in SafePoints : CharAt(bytes, i, safe)
    BY <2>4, <2>5 DEF IsSafeText
  <2>7. safe = cp
    BY <1>1, <2>3, <2>6, OneCharAt DEF CharAt, SafePoints
  <2>8. Safe(cp) /\ cp \in Nat
    <3>1. cp \in Nat
      BY SMT, <2>3 DEF CodePoints
    <3>2. safe \in SafePoints
      OBVIOUS
    <3>3. Safe(safe)
      BY Zenon, <3>2 DEF SafePoints
    <3> QED BY Zenon, <2>7, <3>1, <3>3
  <2>9. cp >= 32 /\ ~(cp >= 127 /\ cp <= 160)
    BY <2>8, SafeIs
  <2>10. cp > 31 /\ ~(cp \in 127 .. 160)
    BY <2>8, <2>9
  <2>11. c[1] = i /\ c[2] = n
    BY <2>2
  <2> QED BY <2>3, <2>10, <2>11
<1>7. ASSUME NEW i \in 1 .. Len(bytes) PROVE \E c \in found : c[1] <= i /\ i < c[1] + c[2]
  <2>1. PICK j \in 1 .. i : \E cp \in SafePoints : StandsAt(bytes, j, Encode(cp)) /\ i < j + Len(Encode(cp))
    BY TextIsCovered
  <2>2. PICK cp \in SafePoints : StandsAt(bytes, j, Encode(cp)) /\ i < j + Len(Encode(cp))
    BY <2>1
  <2>3. j \in 1 .. Len(bytes) /\ j <= i
    BY <1>1
  <2>4. Len(Encode(cp)) \in LengthsAt(8, bytes, j)
    BY <1>1, <2>2, <2>3, StandsIsLength DEF SafePoints
  <2>5. <<j, Len(Encode(cp))>> \in found
    BY <1>4, <2>3, <2>4
  <2>6. <<j, Len(Encode(cp))>>[1] = j /\ <<j, Len(Encode(cp))>>[2] = Len(Encode(cp))
    OBVIOUS
  <2> QED BY Zenon, <2>2, <2>3, <2>5, <2>6
<1> QED BY Zenon, <1>2, <1>3, <1>6, <1>7 DEF Unprintable

-----------------------------------------------------------------------------
(* The characters of a text. *)

\* The characters that begin among the first bytes.
CharsBefore(bytes, m) == Cardinality({i \in 1 .. m : ~Continues(bytes[i])})

\* One byte more.
LEMMA CountStep ==
  ASSUME NEW bytes, NEW m \in Nat
  PROVE  /\ CharsBefore(bytes, m) \in Nat /\ CharsBefore(bytes, m) <= m
         /\ CharsBefore(bytes, m + 1) = IF Continues(bytes[m + 1]) THEN CharsBefore(bytes, m) ELSE CharsBefore(bytes, m) + 1
<1> DEFINE A(k) == {i \in 1 .. k : ~Continues(bytes[i])}
<1>1. IsFiniteSet(1 .. m) /\ Cardinality(1 .. m) = m
  <2>1. 1 \in Int /\ m \in Int /\ ~(1 > m + 1)
    OBVIOUS
  <2>2. Cardinality(1 .. m) = IF 1 > m THEN 0 ELSE m - 1 + 1
    BY FS_Interval
  <2>3. m = 0 \/ (~(1 > m) /\ m - 1 + 1 = m)
    OBVIOUS
  <2> QED BY <2>1, <2>2, <2>3, FS_Interval
<1>2. A(m) \subseteq 1 .. m
  OBVIOUS
<1>3. IsFiniteSet(A(m)) /\ Cardinality(A(m)) <= m /\ Cardinality(A(m)) \in Nat
  BY <1>1, <1>2, FS_Subset, FS_CardinalityType
<1>4. CASE Continues(bytes[m + 1])
  <2>1. A(m + 1) = A(m)
    <3>1. \A i : i \in 1 .. m + 1 <=> i \in 1 .. m \/ i = m + 1
      OBVIOUS
    <3> QED BY Zenon, <1>4, <3>1
  <2> QED BY Zenon, <1>3, <1>4, <2>1 DEF CharsBefore
<1>5. CASE ~Continues(bytes[m + 1])
  <2>1. A(m + 1) = A(m) \cup {m + 1}
    <3>1. \A i : i \in 1 .. m + 1 <=> i \in 1 .. m \/ i = m + 1
      OBVIOUS
    <3> QED BY Zenon, <1>5, <3>1
  <2>2. m + 1 \notin A(m)
    OBVIOUS
  <2>3. Cardinality(A(m + 1)) = Cardinality(A(m)) + 1
    BY Zenon, <1>3, <2>1, <2>2, FS_AddElement
  <2> QED BY Zenon, <1>3, <1>5, <2>3 DEF CharsBefore
<1> QED BY <1>4, <1>5

\* Without bytes there are no characters.
LEMMA CountNone == ASSUME NEW bytes PROVE CharsBefore(bytes, 0) = 0
<1>1. {i \in 1 .. 0 : ~Continues(bytes[i])} = {}
  OBVIOUS
<1> QED BY Zenon, <1>1, FS_EmptySet DEF CharsBefore

\* The same bytes have the same characters.
LEMMA CountSame ==
  ASSUME NEW a, NEW b, NEW m \in Nat, \A i \in 1 .. m : a[i] = b[i]
  PROVE  CharsBefore(a, m) = CharsBefore(b, m)
<1>1. {i \in 1 .. m : ~Continues(a[i])} = {i \in 1 .. m : ~Continues(b[i])}
  BY Zenon
<1> QED BY Zenon, <1>1 DEF CharsBefore

\* The characters of a text are those counted up to its end.
LEMMA NumCharsIs ==
  ASSUME NEW bytes \in Seq(Bytes)
  PROVE  NumChars(bytes) = CharsBefore(bytes, Len(bytes)) /\ NumChars(bytes) \in Nat /\ NumChars(bytes) <= Len(bytes)
<1>1. DOMAIN bytes = 1 .. Len(bytes) /\ Len(bytes) \in Nat
  OBVIOUS
<1>2. NumChars(bytes) = CharsBefore(bytes, Len(bytes))
  BY Zenon, <1>1 DEF NumChars, CharsBefore
<1> QED BY <1>1, <1>2, CountStep

\* More bytes have no fewer characters.
LEMMA CountGrows ==
  ASSUME NEW bytes, NEW m \in Nat, NEW n \in Nat, m <= n
  PROVE  CharsBefore(bytes, m) <= CharsBefore(bytes, n)
<1> DEFINE T == {k \in 0 .. n - m : CharsBefore(bytes, m) <= CharsBefore(bytes, m + k)}
<1>1. n - m \in Nat
  OBVIOUS
<1>2. 0 \in T
  <2>1. m + 0 = m /\ 0 \in 0 .. n - m
    OBVIOUS
  <2>2. CharsBefore(bytes, m) <= CharsBefore(bytes, m)
    BY CountStep
  <2> QED BY Zenon, <2>1, <2>2
<1>3. ASSUME NEW k \in 1 .. n - m, k - 1 \in T PROVE k \in T
  <2>1. PICK i \in Nat : i = m + (k - 1)
    OBVIOUS
  <2>2. m + k = i + 1
    BY <2>1
  <2>3. CharsBefore(bytes, m) <= CharsBefore(bytes, i)
    BY <1>3, <2>1
  <2>4. CharsBefore(bytes, m) \in Nat /\ CharsBefore(bytes, i) \in Nat /\ CharsBefore(bytes, i + 1) \in Nat
    BY CountStep
  <2>5. CharsBefore(bytes, i) <= CharsBefore(bytes, i + 1)
    BY <2>4, CountStep
  <2>6. CharsBefore(bytes, m) <= CharsBefore(bytes, i + 1)
    BY <2>3, <2>4, <2>5
  <2> QED BY <2>2, <2>6
<1> HIDE DEF T
<1>4. T = 0 .. (n - m)
  <2>1. T \in SUBSET (0 .. (n - m))
    BY DEF T
  <2> QED BY <1>1, <1>2, <1>3, <2>1, UpTo
<1>5. n - m \in T /\ m + (n - m) = n
  BY <1>1, <1>4
<1> QED BY <1>5 DEF T

\* The characters of one text behind another count as theirs.
LEMMA CountConcat ==
  ASSUME NEW a \in Seq(Bytes), NEW b \in Seq(Bytes)
  PROVE  NumChars(a \o b) = NumChars(a) + NumChars(b)
<1>1. PICK t : t = a \o b
  OBVIOUS
<1>2. PICK m \in Nat : m = Len(a)
  OBVIOUS
<1>3. PICK n \in Nat : n = Len(b)
  OBVIOUS
<1>4. /\ t \in Seq(Bytes) /\ Len(t) = m + n
      /\ \A i \in 1 .. m : t[i] = a[i]
      /\ \A i \in 1 .. n : t[m + i] = b[i]
  BY <1>1, <1>2, <1>3, ConcatIs
<1> DEFINE T == {k \in 0 .. n : CharsBefore(t, m + k) = CharsBefore(a, m) + CharsBefore(b, k)}
<1>5. 0 \in T
  <2>1. CharsBefore(t, m) = CharsBefore(a, m) /\ CharsBefore(b, 0) = 0
    BY <1>4, CountSame, CountNone
  <2>2. CharsBefore(a, m) \in Nat
    BY CountStep
  <2> QED BY <2>1, <2>2
<1>6. ASSUME NEW k \in 1 .. n, k - 1 \in T PROVE k \in T
  <2>1. PICK j \in Nat : j = k - 1
    OBVIOUS
  <2>2. k = j + 1 /\ m + k = (m + j) + 1 /\ m + j \in Nat
    BY <2>1
  <2>3. t[(m + j) + 1] = b[j + 1]
    BY <1>4, <2>2
  <2>4. CharsBefore(t, m + j) = CharsBefore(a, m) + CharsBefore(b, j)
    BY <1>6, <2>1
  <2>5. CharsBefore(t, (m + j) + 1) =
          IF Continues(t[(m + j) + 1]) THEN CharsBefore(t, m + j) ELSE CharsBefore(t, m + j) + 1
    BY <2>2, CountStep
  <2>6. CharsBefore(b, j + 1) = IF Continues(b[j + 1]) THEN CharsBefore(b, j) ELSE CharsBefore(b, j) + 1
    BY CountStep
  <2>7. CharsBefore(a, m) \in Nat /\ CharsBefore(b, j) \in Nat
    BY CountStep
  <2>8. CharsBefore(t, (m + j) + 1) = CharsBefore(a, m) + CharsBefore(b, j + 1)
    <3>1. CASE Continues(b[j + 1])
      BY <2>3, <2>4, <2>5, <2>6, <3>1
    <3>2. CASE ~Continues(b[j + 1])
      BY <2>3, <2>4, <2>5, <2>6, <2>7, <3>2
    <3> QED BY <3>1, <3>2
  <2> QED BY <2>2, <2>8
<1> HIDE DEF T
<1>7. T = 0 .. n
  <2>1. T \in SUBSET (0 .. n)
    BY DEF T
  <2> QED BY <1>5, <1>6, <2>1, UpTo
<1>8. n \in T
  BY <1>7
<1>9. CharsBefore(t, m + n) = CharsBefore(a, m) + CharsBefore(b, n)
  BY <1>8 DEF T
<1> QED BY Zenon, <1>1, <1>2, <1>3, <1>4, <1>9, NumCharsIs

\* What is written for a character is counted as what it is.
LEMMA CountOfEncodeSafe ==
  ASSUME NEW cp \in CodePoints
  PROVE  NumChars(EncodeSafe(cp).bytes) = EncodeSafe(cp).chars
<1>1. CASE Safe(cp)
  <2>1. PICK e \in Seq(Bytes), m \in 1 .. 4 :
          e = Encode(cp) /\ m = Len(e) /\ ~Continues(e[1]) /\ \A j \in 2 .. m : Continues(e[j])
    BY CharIs
  <2>2. {i \in 1 .. m : ~Continues(e[i])} = {1}
    <3>1. \A i : i \in 1 .. m <=> i = 1 \/ i \in 2 .. m
      OBVIOUS
    <3>2. 1 \notin 2 .. m
      OBVIOUS
    <3> QED BY Zenon, <2>1, <3>1, <3>2
  <2>3. NumChars(e) = 1
    <3>1. Cardinality({1}) = 1
      BY FS_Singleton
    <3> QED BY Zenon, <2>1, <2>2, <3>1, NumCharsIs DEF CharsBefore
  <2>4. EncodeSafe(cp).bytes = e /\ EncodeSafe(cp).chars = 1
    BY Zenon, <1>1, <2>1, EncodeSafeIs
  <2> QED BY Zenon, <2>3, <2>4
<1>2. CASE ~Safe(cp)
  <2>1. PICK e : e = Escaped(cp)
    OBVIOUS
  <2>2. EncodeSafe(cp).bytes = e /\ EncodeSafe(cp).chars = Len(e)
    BY Zenon, <1>2, <2>1, EncodeSafeIs
  <2>3. IsSafeText(e) /\ \A i \in 1 .. Len(e) : ~Continues(e[i])
    BY <2>1, EscapedIs, TextOfPrintables
  <2>4. PICK n \in Nat : n = Len(e) /\ e \in Seq(Bytes)
    BY <2>3 DEF IsSafeText
  <2>5. {i \in 1 .. n : ~Continues(e[i])} = 1 .. n
    BY Zenon, <2>3, <2>4
  <2>6. Cardinality(1 .. n) = n
    <3>1. Cardinality(1 .. n) = IF 1 > n THEN 0 ELSE n - 1 + 1
      BY FS_Interval
    <3>2. n = 0 \/ (~(1 > n) /\ n - 1 + 1 = n)
      OBVIOUS
    <3> QED BY <3>1, <3>2
  <2>7. NumChars(e) = n
    BY Zenon, <2>4, <2>5, <2>6, NumCharsIs DEF CharsBefore
  <2> QED BY Zenon, <2>2, <2>4, <2>7
<1> QED BY <1>1, <1>2

-----------------------------------------------------------------------------
(* A conversion and a trim count characters. *)

\* What has been written after any number of turns is a text, and its characters
\* are counted.
LEMMA PureText ==
  ASSUME NEW bits \in {8, 16, 32}, NEW units \in Seq(UnitSet(bits)), NEW limit \in Nat,
         NEW f, IsPure(f, bits, units, limit)
  PROVE  \A k \in 0 .. Len(units) : IsSafeText(f[k].out) /\ f[k].chars = NumChars(f[k].out)
<1>1. PICK n \in Nat : n = Len(units)
  OBVIOUS
<1>2. \A k \in 0 .. n : f[k] \in PureStates(units)
  BY <1>1, PureAdvances
<1> DEFINE T == {k \in 0 .. n : IsSafeText(f[k].out) /\ f[k].chars = NumChars(f[k].out)}
<1>3. 0 \in T
  <2>1. f[0].out = <<>> /\ f[0].chars = 0
    BY DEF IsPure, PureStart
  <2>2. NumChars(<<>>) = 0
    <3>1. <<>> \in Seq(Bytes) /\ Len(<<>>) = 0
      OBVIOUS
    <3> QED BY Zenon, <3>1, NumCharsIs, CountNone
  <2> QED BY <2>1, <2>2, NoText
<1>4. ASSUME NEW k \in 1 .. n, k - 1 \in T PROVE k \in T
  <2>1. PICK p : p = f[k - 1]
    OBVIOUS
  <2>2. PICK s : s = f[k]
    OBVIOUS
  <2>3. k - 1 \in 0 .. n
    OBVIOUS
  <2>4. s = PureTurn(bits, units, p) /\ p \in PureStates(units)
    BY <1>1, <1>2, <2>1, <2>2, <2>3 DEF IsPure
  <2>5. IsSafeText(p.out) /\ p.chars = NumChars(p.out)
    BY <1>4, <2>1
  <2>6. IsSafeText(s.out) /\ s.chars = NumChars(s.out)
    <3>1. CASE Over(units, p)
      <4>1. s = p
        BY <2>4, <3>1, PureTurnIs
      <4> QED BY <2>5, <4>1
    <3>2. CASE ~Over(units, p)
      <4>1. PICK d : d = DecodeIn(bits, Rest(units, p))
        OBVIOUS
      <4>2. s = PureStep(p, d) /\ Right(bits, Rest(units, p), d)
        BY Zenon, <2>4, <3>2, <4>1, PureTurnIs
      <4>3. PICK b : b = EncodeSafe(d.code).bytes
        OBVIOUS
      <4>4. s.out = p.out \o b /\ s.chars = p.chars + EncodeSafe(d.code).chars
        BY <4>2, <4>3 DEF PureStep
      <4>5. IsSafeText(b) /\ NumChars(b) = EncodeSafe(d.code).chars
        BY <4>2, <4>3, TextOfEncodeSafe, CountOfEncodeSafe DEF Right
      <4>6. IsSafeText(p.out \o b)
        BY <2>5, <4>5, TextConcat
      <4>7. NumChars(p.out \o b) = NumChars(p.out) + NumChars(b)
        BY <2>5, <4>5, CountConcat DEF IsSafeText
      <4> QED BY Zenon, <2>5, <4>4, <4>5, <4>6, <4>7
    <3> QED BY <3>1, <3>2
  <2> QED BY <2>2, <2>6
<1> HIDE DEF T
<1>5. T = 0 .. n
  <2>1. T \in SUBSET (0 .. n)
    BY DEF T
  <2> QED BY <1>3, <1>4, <2>1, UpTo
<1> QED BY <1>1, <1>5 DEF T

\* A character counts as one.
LEMMA CountChar ==
  ASSUME NEW bytes \in Seq(Bytes), NEW p \in 0 .. Len(bytes) - 1, NEW cp \in CodePoints,
         StandsAt(bytes, p + 1, Encode(cp))
  PROVE  /\ p + Len(Encode(cp)) \in 0 .. Len(bytes) /\ Len(Encode(cp)) >= 1
         /\ CharsBefore(bytes, p + Len(Encode(cp))) = CharsBefore(bytes, p) + 1
<1>1. PICK e \in Seq(Bytes), m \in 1 .. 4 :
        e = Encode(cp) /\ m = Len(e) /\ ~Continues(e[1]) /\ \A j \in 2 .. m : Continues(e[j])
  BY CharIs
<1>2. PICK n \in Nat : n = Len(bytes)
  OBVIOUS
<1>3. p \in Nat /\ p < n
  BY <1>2
<1>4. (p + 1) + m - 1 <= n /\ \A j \in 1 .. m : bytes[(p + 1) + j - 1] = e[j]
  BY <1>1, <1>2 DEF StandsAt
<1>5. PICK c \in Nat : c = CharsBefore(bytes, p)
  BY <1>3, CountStep
<1>6. CharsBefore(bytes, p + 1) = c + 1
  <2>1. 1 \in 1 .. m /\ (p + 1) + 1 - 1 = p + 1
    OBVIOUS
  <2>2. bytes[p + 1] = e[1]
    BY <1>4, <2>1
  <2> QED BY <1>1, <1>3, <1>5, <2>2, CountStep
<1>7. ASSUME NEW j \in Nat, j >= 1, j + 1 <= m, CharsBefore(bytes, p + j) = c + 1
      PROVE  CharsBefore(bytes, p + (j + 1)) = c + 1
  <2>1. j + 1 \in 2 .. m /\ j + 1 \in 1 .. m /\ (p + 1) + (j + 1) - 1 = (p + j) + 1 /\ p + j \in Nat
        /\ p + (j + 1) = (p + j) + 1
    BY <1>3, <1>7
  <2>2. bytes[(p + j) + 1] = e[j + 1]
    <3>1. bytes[(p + 1) + (j + 1) - 1] = e[j + 1]
      BY Zenon, <1>4, <2>1
    <3> QED BY Zenon, <2>1, <3>1
  <2>3. Continues(bytes[(p + j) + 1])
    BY <1>1, <2>1, <2>2
  <2>4. CharsBefore(bytes, (p + j) + 1) = CharsBefore(bytes, p + j)
    BY <2>1, <2>3, CountStep
  <2> QED BY <1>7, <2>1, <2>4
<1>8. CharsBefore(bytes, p + m) = c + 1
  <2>1. CASE m = 1
    BY <1>6, <2>1
  <2>2. CASE m = 2
    <3>1. CharsBefore(bytes, p + (1 + 1)) = c + 1
      BY <1>6, <1>7, <2>2
    <3> QED BY <2>2, <3>1
  <2>3. CASE m = 3
    <3>1. CharsBefore(bytes, p + (1 + 1)) = c + 1
      BY <1>6, <1>7, <2>3
    <3>2. CharsBefore(bytes, p + (2 + 1)) = c + 1
      BY <1>7, <2>3, <3>1
    <3> QED BY <2>3, <3>2
  <2>4. CASE m = 4
    <3>1. CharsBefore(bytes, p + (1 + 1)) = c + 1
      BY <1>6, <1>7, <2>4
    <3>2. CharsBefore(bytes, p + (2 + 1)) = c + 1
      BY <1>7, <2>4, <3>1
    <3>3. CharsBefore(bytes, p + (3 + 1)) = c + 1
      <4>1. 3 \in Nat /\ 3 >= 1 /\ 3 + 1 <= m /\ 2 + 1 = 3
        BY <2>4
      <4>2. CharsBefore(bytes, p + 3) = c + 1
        BY Zenon, <3>2, <4>1
      <4> QED BY Zenon, <1>7, <4>1, <4>2
    <3>4. 3 + 1 = 4
      OBVIOUS
    <3> QED BY Zenon, <2>4, <3>3, <3>4
  <2> QED BY <2>1, <2>2, <2>3, <2>4
<1>9. p + m \in 0 .. n /\ m >= 1
  BY <1>3, <1>4
<1> QED BY Zenon, <1>1, <1>2, <1>5, <1>8, <1>9

\* What utf8_str_trim() has got to.
TrimmedTo(in, n, t) ==
  /\ t.pos \in 0 .. Len(in) /\ t.chars = CharsBefore(in, t.pos) /\ t.chars <= n
  /\ t.pos < Len(in) => ~Continues(in[t.pos + 1])

\* A turn of the trimming takes one character.
LEMMA TrimTurnIs ==
  ASSUME NEW in, IsSafeText(in), NEW n \in Nat, NEW t \in [pos : 0 .. Len(in), chars : Nat], TrimmedTo(in, n, t)
  PROVE  /\ TrimTurn(in, n, t) \in [pos : 0 .. Len(in), chars : Nat] /\ TrimmedTo(in, n, TrimTurn(in, n, t))
         /\ t.chars = n \/ t.pos = Len(in) => TrimTurn(in, n, t) = t
         /\ t.chars # n /\ t.pos # Len(in) => TrimTurn(in, n, t).pos > t.pos
<1>1. in \in Seq(Bytes)
  BY DEF IsSafeText
<1>2. PICK size \in Nat : size = Len(in)
  BY <1>1
<1>3. PICK p \in Nat : p = t.pos /\ p <= size
  BY <1>2
<1>4. PICK c \in Nat : c = t.chars
  OBVIOUS
<1>5. c <= n /\ c = CharsBefore(in, p) /\ (p < size => ~Continues(in[p + 1]))
  BY <1>2, <1>3, <1>4 DEF TrimmedTo
<1>6. CASE c = n \/ p = size
  <2>1. ~(t.chars < n /\ t.pos < Len(in))
    BY <1>2, <1>3, <1>4, <1>6
  <2>2. TrimTurn(in, n, t) = t
    BY Zenon, <2>1 DEF TrimTurn
  <2> QED BY <1>2, <1>3, <1>4, <1>6, <2>2
<1>7. CASE ~(c = n \/ p = size)
  <2>1. p < size /\ c < n /\ p + 1 \in 1 .. size /\ p \in 0 .. size - 1
    BY <1>3, <1>5, <1>7
  <2>2. PICK cp \in SafePoints : CharAt(in, p + 1, cp)
    BY <1>2, <1>5, <2>1 DEF IsSafeText
  <2>3. cp \in CodePoints /\ StandsAt(in, p + 1, Encode(cp))
    BY <2>2 DEF SafePoints, CharAt
  <2>4. PICK l \in 1 .. 4 : l = Len(Encode(cp))
    BY <2>3, CharIs
  <2>5. p + l \in 0 .. size /\ l >= 1 /\ CharsBefore(in, p + l) = CharsBefore(in, p) + 1
    BY Zenon, <1>1, <1>2, <2>1, <2>3, <2>4, CountChar
  <2>6. PICK rest : rest = SubSeq(in, p + 1, size)
    OBVIOUS
  <2>7. rest \in Seq(Bytes) /\ Len(rest) = size - p /\ rest # <<>>
    <3>1. p \in 0 .. Len(in)
      BY <1>2, <2>1
    <3>2. rest \in Seq(Bytes) /\ Len(rest) = size - p
      BY Zenon, <1>1, <1>2, <2>6, <3>1, RestIs
    <3>3. size - p > 0
      BY <2>1
    <3> QED BY <3>2, <3>3
  <2>8. StandsAt(rest, 1, Encode(cp))
    <3>1. 1 \in 1 .. size - p /\ p \in 0 .. size
      BY <2>1
    <3>2. Encode(cp) \in Seq(Bytes)
      BY <2>3, EncodedIsSequence
    <3> QED BY Zenon, <1>1, <1>2, <2>3, <2>6, <3>1, <3>2, StandsInRest
  <2>9. DecodeUtf8(rest).used = l
    <3>1. EncodeIn(8, cp) = Encode(cp)
      BY DEF EncodeIn
    <3>2. Right(8, rest, DecodeUtf8(rest))
      BY <2>7, Utf8Right
    <3> QED BY Zenon, <2>3, <2>4, <2>8, <3>1, <3>2 DEF Right
  <2>10. PICK s : s = TrimTurn(in, n, t)
    OBVIOUS
  <2>11. s = [pos |-> p + l, chars |-> c + 1]
    <3>1. t.chars < n /\ t.pos < Len(in)
      BY <1>2, <1>3, <1>4, <2>1
    <3> QED BY Zenon, <1>2, <1>3, <1>4, <2>6, <2>9, <2>10, <3>1 DEF TrimTurn
  <2>12. s.pos = p + l /\ s.chars = c + 1
    BY <2>11
  <2>13. p + l < size => ~Continues(in[(p + l) + 1])
    <3>1. (p + 1) + l <= Len(in) => ~Continues(in[(p + 1) + l])
      BY <2>2, <2>4 DEF CharAt
    <3>2. (p + 1) + l = (p + l) + 1 /\ (p + l < size => (p + 1) + l <= size)
      OBVIOUS
    <3> QED BY Zenon, <1>2, <3>1, <3>2
  <2>14. c + 1 <= n /\ c + 1 \in Nat /\ p + l > p
    BY <2>1, <2>5
  <2>15. TrimmedTo(in, n, s)
    BY Zenon, <1>2, <1>5, <2>5, <2>12, <2>13, <2>14 DEF TrimmedTo
  <2>16. s \in [pos : 0 .. Len(in), chars : Nat]
    BY <1>2, <2>5, <2>11, <2>14
  <2> QED BY <1>2, <1>3, <1>4, <1>7, <2>10, <2>12, <2>14, <2>15, <2>16
<1> QED BY <1>6, <1>7

\* utf8_str_trim() ends with the first n characters, or with all there are.
LEMMA StrTrimIs ==
  ASSUME NEW in, IsSafeText(in), NEW n \in Nat
  PROVE  \E p \in 0 .. Len(in) :
           /\ StrTrim(in, n) = Counted(SubSeq(in, 1, p), CharsBefore(in, p)) /\ CharsBefore(in, p) <= n
           /\ p < Len(in) => ~Continues(in[p + 1]) /\ CharsBefore(in, p) = n
<1> DEFINE start == [pos |-> 0, chars |-> 0]
           F(t) == t = [k \in 0 .. Len(in) |-> IF k = 0 THEN start ELSE TrimTurn(in, n, t[k - 1])]
           turn == CHOOSE t : F(t)
<1>1. StrTrim(in, n) = Counted(SubSeq(in, 1, turn[Len(in)].pos), turn[Len(in)].chars)
  BY DEF StrTrim
<1>2. in \in Seq(Bytes)
  BY DEF IsSafeText
<1>3. PICK size \in Nat : size = Len(in)
  BY <1>2
<1>4. PICK S : S = {t \in [pos : 0 .. Len(in), chars : Nat] : TrimmedTo(in, n, t)}
  OBVIOUS
<1>5. start \in S
  <2>1. start.pos = 0 /\ start.chars = 0 /\ start \in [pos : 0 .. Len(in), chars : Nat]
    BY <1>3
  <2>2. 0 \in 0 .. Len(in) /\ 0 <= n /\ 0 + 1 = 1
    BY <1>3
  <2>3. 0 < Len(in) => ~Continues(in[1])
    BY <1>3 DEF IsSafeText
  <2>4. TrimmedTo(in, n, start)
    BY Zenon, <2>1, <2>2, <2>3, CountNone DEF TrimmedTo
  <2> QED BY <1>4, <2>1, <2>4
<1> HIDE DEF start
<1>6. \E t : F(t)
  <2>1. PICK G : G = [x \in Nat \X S |-> TrimTurn(in, n, x[2])]
    OBVIOUS
  <2>2. \A x \in S : TrimTurn(in, n, x) \in S
    BY <1>4, TrimTurnIs
  <2>3. G \in [Nat \X S -> S]
    BY <2>1, <2>2
  <2>4. PICK g \in [0 .. size -> S] : Turns(g, G, start, size)
    BY <1>5, <2>3, TurnsExist
  <2>5. ASSUME NEW k \in 0 .. size PROVE g[k] = IF k = 0 THEN start ELSE TrimTurn(in, n, g[k - 1])
    <3>1. CASE k = 0
      BY <2>4, <3>1 DEF Turns
    <3>2. CASE k # 0
      <4>1. k \in 1 .. size /\ k - 1 \in 0 .. size /\ k \in Nat
        BY <3>2
      <4>2. g[k] = G[<<k, g[k - 1]>>] /\ g[k - 1] \in S
        BY <2>4, <4>1 DEF Turns
      <4>3. G[<<k, g[k - 1]>>] = TrimTurn(in, n, g[k - 1])
        BY <2>1, <4>1, <4>2
      <4> QED BY <3>2, <4>2, <4>3
    <3> QED BY <3>1, <3>2
  <2>6. g = [k \in 0 .. size |-> IF k = 0 THEN start ELSE TrimTurn(in, n, g[k - 1])]
    BY <2>4, <2>5
  <2> QED BY <1>3, <2>6
<1>7. F(turn)
  BY <1>6
<1> HIDE DEF turn
<1>8. turn[0] = start /\ \A k \in 1 .. size : turn[k] = TrimTurn(in, n, turn[k - 1])
  <2>1. turn = [k \in 0 .. size |-> IF k = 0 THEN start ELSE TrimTurn(in, n, turn[k - 1])]
    BY Zenon, <1>3, <1>7
  <2>2. ASSUME NEW k \in 0 .. size PROVE turn[k] = IF k = 0 THEN start ELSE TrimTurn(in, n, turn[k - 1])
    BY Zenon, <2>1
  <2>3. 0 \in 0 .. size /\ \A k \in 1 .. size : k \in 0 .. size /\ k # 0
    OBVIOUS
  <2> QED BY Zenon, <2>2, <2>3
<1> DEFINE T == {k \in 0 .. size : /\ turn[k] \in S
                                   /\ turn[k].chars = n \/ turn[k].pos = size \/ turn[k].pos >= k}
<1>9. 0 \in T
  <2>1. start.pos = 0
    BY DEF start
  <2> QED BY <1>5, <1>8, <2>1
<1>10. ASSUME NEW k \in 1 .. size, k - 1 \in T PROVE k \in T
  <2>1. PICK t : t = turn[k - 1]
    OBVIOUS
  <2>2. PICK s : s = TrimTurn(in, n, t)
    OBVIOUS
  <2>3. turn[k] = s
    BY <1>8, <2>1, <2>2
  <2>4. t \in [pos : 0 .. Len(in), chars : Nat] /\ TrimmedTo(in, n, t)
    BY <1>4, <1>10, <2>1
  <2>5. t.chars = n \/ t.pos = size \/ t.pos >= k - 1
    BY <1>10, <2>1
  <2>6. s \in [pos : 0 .. Len(in), chars : Nat] /\ TrimmedTo(in, n, s)
    BY <2>2, <2>4, TrimTurnIs
  <2>7. s.chars = n \/ s.pos = size \/ s.pos >= k
    <3>1. CASE t.chars = n \/ t.pos = size
      <4>1. s = t
        BY <1>3, <2>2, <2>4, <3>1, TrimTurnIs
      <4> QED BY <3>1, <4>1
    <3>2. CASE ~(t.chars = n \/ t.pos = size)
      <4>1. s.pos > t.pos
        BY <1>3, <2>2, <2>4, <3>2, TrimTurnIs
      <4>2. s.pos \in Nat /\ t.pos \in Nat /\ t.pos >= k - 1
        BY <1>3, <2>4, <2>5, <2>6, <3>2
      <4> QED BY <4>1, <4>2
    <3> QED BY <3>1, <3>2
  <2> QED BY <1>4, <2>3, <2>6, <2>7
<1> HIDE DEF T
<1>11. T = 0 .. size
  <2>1. T \in SUBSET (0 .. size)
    BY DEF T
  <2> QED BY <1>9, <1>10, <2>1, UpTo
<1>12. PICK e : e = turn[size]
  OBVIOUS
<1>13. e \in [pos : 0 .. Len(in), chars : Nat] /\ TrimmedTo(in, n, e) /\ (e.chars = n \/ e.pos = size)
  <2>1. size \in T
    BY <1>11
  <2>2. e \in S /\ (e.chars = n \/ e.pos = size \/ e.pos >= size)
    BY <1>12, <2>1 DEF T
  <2>3. e.pos \in Nat /\ e.pos <= size
    BY <1>3, <1>4, <2>2
  <2> QED BY <1>4, <2>2, <2>3
<1>14. PICK p \in 0 .. Len(in) : p = e.pos
  BY <1>13
<1>15. e.chars = CharsBefore(in, p) /\ CharsBefore(in, p) <= n /\ (p < Len(in) => ~Continues(in[p + 1]))
  BY Zenon, <1>13, <1>14 DEF TrimmedTo
<1>16. p < Len(in) => e.chars = n
  BY <1>3, <1>13, <1>14
<1>17. StrTrim(in, n) = Counted(SubSeq(in, 1, p), CharsBefore(in, p))
  BY Zenon, <1>1, <1>3, <1>12, <1>14, <1>15
<1> QED BY Zenon, <1>14, <1>15, <1>16, <1>17

\* What it ends with are the first characters that precision asks for.
LEMMA FirstCharsIs ==
  ASSUME NEW in, IsSafeText(in), NEW n \in Nat
  PROVE  /\ StrTrim(in, n) = Counted(FirstChars(in, n), NumChars(FirstChars(in, n)))
         /\ IsSafeText(FirstChars(in, n)) /\ Len(FirstChars(in, n)) <= Len(in)
         /\ Len(in) <= n => FirstChars(in, n) = in
<1>1. in \in Seq(Bytes)
  BY DEF IsSafeText
<1>2. PICK size \in Nat : size = Len(in)
  BY <1>1
<1>3. PICK p \in 0 .. Len(in) :
        /\ StrTrim(in, n) = Counted(SubSeq(in, 1, p), CharsBefore(in, p)) /\ CharsBefore(in, p) <= n
        /\ p < Len(in) => ~Continues(in[p + 1]) /\ CharsBefore(in, p) = n
  BY StrTrimIs
<1>4. p \in Nat /\ p <= size
  BY <1>2
<1>5. ASSUME NEW m \in 0 .. size PROVE NumChars(SubSeq(in, 1, m)) = CharsBefore(in, m)
  <2>1. PICK s : s = SubSeq(in, 1, m)
    OBVIOUS
  <2>2. s \in Seq(Bytes) /\ Len(s) = m /\ \A i \in 1 .. m : s[i] = in[i]
    BY <1>1, <1>2, <2>1
  <2>3. m \in Nat
    OBVIOUS
  <2>4. NumChars(s) = CharsBefore(s, m)
    BY <2>2, NumCharsIs
  <2>5. CharsBefore(s, m) = CharsBefore(in, m)
    BY <2>2, <2>3, CountSame
  <2> QED BY Zenon, <2>1, <2>4, <2>5
<1> DEFINE Held(m) == NumChars(SubSeq(in, 1, m)) <= n
           Q(m) == Held(m) /\ (m < Len(in) => ~Held(m + 1))
<1>6. Q(p)
  <2>1. Held(p)
    BY <1>2, <1>3, <1>4, <1>5
  <2>2. ASSUME p < size PROVE ~Held(p + 1)
    <3>1. p + 1 \in 0 .. size
      BY <1>4, <2>2
    <3>2. CharsBefore(in, p + 1) = n + 1
      BY <1>2, <1>3, <1>4, <2>2, CountStep
    <3>3. ~(n + 1 <= n)
      OBVIOUS
    <3> QED BY Zenon, <1>5, <3>1, <3>2, <3>3
  <2> QED BY <1>2, <2>1, <2>2
<1>7. ASSUME NEW m \in 0 .. size, Q(m) PROVE m = p
  <2>1. m \in Nat /\ m <= size
    OBVIOUS
  <2>2. ASSUME m < p PROVE FALSE
    <3>1. m + 1 \in 0 .. size /\ m + 1 \in Nat /\ m + 1 <= p /\ m < size
      BY <1>4, <2>1, <2>2
    <3>2. ~(CharsBefore(in, m + 1) <= n)
      BY Zenon, <1>2, <1>5, <1>7, <3>1
    <3>3. CharsBefore(in, m + 1) <= CharsBefore(in, p)
      BY <1>4, <3>1, CountGrows
    <3>4. CharsBefore(in, m + 1) \in Nat /\ CharsBefore(in, p) \in Nat
      BY <1>4, <3>1, CountStep
    <3> QED BY <1>3, <3>2, <3>3, <3>4
  <2>3. ASSUME p < m PROVE FALSE
    <3>1. p + 1 \in 0 .. size /\ p + 1 \in Nat /\ p + 1 <= m /\ p < size
      BY <1>4, <2>1, <2>3
    <3>2. ~(CharsBefore(in, p + 1) <= n)
      BY Zenon, <1>2, <1>5, <1>6, <3>1
    <3>3. CharsBefore(in, p + 1) <= CharsBefore(in, m)
      BY <2>1, <3>1, CountGrows
    <3>4. CharsBefore(in, p + 1) \in Nat /\ CharsBefore(in, m) \in Nat
      BY <2>1, <3>1, CountStep
    <3>5. CharsBefore(in, m) <= n
      BY Zenon, <1>5, <1>7
    <3> QED BY <3>2, <3>3, <3>4, <3>5
  <2> QED BY <1>4, <2>1, <2>2, <2>3
<1>8. FirstChars(in, n) = SubSeq(in, 1, CHOOSE m \in 0 .. Len(in) : Q(m))
  BY DEF FirstChars
<1> HIDE DEF Q
<1>9. (CHOOSE m \in 0 .. Len(in) : Q(m)) = p
  BY <1>2, <1>6, <1>7
<1>10. FirstChars(in, n) = SubSeq(in, 1, p)
  BY <1>8, <1>9
<1>11. NumChars(FirstChars(in, n)) = CharsBefore(in, p)
  BY <1>2, <1>5, <1>10
<1>12. IsSafeText(SubSeq(in, 1, p))
  <2>1. p = Len(in) \/ ~Continues(in[p + 1])
    BY <1>2, <1>3, <1>4
  <2> QED BY <2>1, TextOfPrefix
<1>13. Len(SubSeq(in, 1, p)) <= Len(in)
  BY <1>1, <1>2, <1>4
<1>14. Len(in) <= n => SubSeq(in, 1, p) = in
  <2>1. ASSUME Len(in) <= n PROVE p = size
    <3>1. ASSUME p < size PROVE FALSE
      <4>1. CharsBefore(in, p) = n /\ CharsBefore(in, p) <= p
        BY <1>2, <1>3, <1>4, <3>1, CountStep
      <4> QED BY <1>2, <1>4, <2>1, <3>1, <4>1
    <3> QED BY <1>4, <3>1
  <2>2. SubSeq(in, 1, size) = in
    BY <1>1, <1>2
  <2> QED BY <2>1, <2>2
<1> QED BY Zenon, <1>3, <1>10, <1>11, <1>12, <1>13, <1>14

-----------------------------------------------------------------------------
(* The invariant of a field. *)

\* What encode() writes before it is filled.
LEMMA ConvertedIs ==
  ASSUME NEW source, IsSource(source), NEW limit \in Nat, NEW room \in Nat, source.units # <<>>,
         NEW c, c = Utf8Conv(source.bits, source.units, room, limit)
  PROVE  IsSafeText(c.out) /\ Len(c.out) <= room /\ c.chars = NumChars(c.out) /\ c.chars \in Nat
<1>1. PICK bits : bits = source.bits
  OBVIOUS
<1>2. PICK units : units = source.units
  OBVIOUS
<1>3. bits \in {8, 16, 32} /\ units \in Seq(UnitSet(bits))
  BY <1>1, <1>2 DEF IsSource
<1>4. PICK f : IsPure(f, bits, units, limit)
  BY <1>3, PureExists
<1>5. PICK j \in 0 .. Len(units) : StopsAt(c, f, j, units, room)
  BY <1>1, <1>2, <1>3, <1>4, Utf8ConvIs
<1>6. IsSafeText(f[j].out) /\ f[j].chars = NumChars(f[j].out)
  BY <1>3, <1>4, PureText
<1>7. c.out = f[j].out /\ c.chars = f[j].chars /\ Len(f[j].out) <= room
  BY <1>5 DEF StopsAt
<1>8. NumChars(f[j].out) \in Nat
  BY <1>6, NumCharsIs DEF IsSafeText
<1> QED BY <1>6, <1>7, <1>8

\* encode() without a width, and with one.
LEMMA EncodeStringIs ==
  ASSUME NEW source, NEW format, NEW room, NEW c, c = Utf8Conv(source.bits, source.units, room, format.precision)
  PROVE  /\ source.units = <<>> => EncodeString(source, format, room) = [bytes |-> <<>>, error |-> "none"]
         /\ source.units # <<>> /\ format.width = 0 =>
              EncodeString(source, format, room) = [bytes |-> c.out, error |-> c.error]
         /\ source.units # <<>> /\ format.width # 0 =>
              EncodeString(source, format, room) =
                [bytes |-> ShiftFill(Counted(c.out, c.chars), room, format).bytes, error |-> c.error]
BY DEF EncodeString

\* What it is made of.
LEMMA EncodeStringShape ==
  ASSUME NEW source, NEW format, NEW room
  PROVE  \E b, e : EncodeString(source, format, room) = [bytes |-> b, error |-> e]
<1>1. PICK c : c = Utf8Conv(source.bits, source.units, room, format.precision)
  OBVIOUS
<1>2. CASE source.units = <<>>
  <2>1. EncodeString(source, format, room) = [bytes |-> <<>>, error |-> "none"]
    BY <1>1, <1>2, EncodeStringIs
  <2> QED BY Zenon, <2>1
<1>3. CASE source.units # <<>> /\ format.width = 0
  <2>1. EncodeString(source, format, room) = [bytes |-> c.out, error |-> c.error]
    BY <1>1, <1>3, EncodeStringIs
  <2> QED BY Zenon, <2>1
<1>4. CASE source.units # <<>> /\ format.width # 0
  <2>1. PICK s : s = ShiftFill(Counted(c.out, c.chars), room, format).bytes
    OBVIOUS
  <2>2. EncodeString(source, format, room) = [bytes |-> s, error |-> c.error]
    BY <1>1, <1>4, <2>1, EncodeStringIs
  <2> QED BY Zenon, <2>2
<1> QED BY <1>2, <1>3, <1>4

\* What encode() writes is a text and fits.
LEMMA EncodeStringFits ==
  ASSUME NEW source, IsSource(source), NEW format, IsFormat(format), NEW room \in Nat
  PROVE  IsSafeText(EncodeString(source, format, room).bytes) /\ Len(EncodeString(source, format, room).bytes) <= room
<1>1. PICK c : c = Utf8Conv(source.bits, source.units, room, format.precision)
  OBVIOUS
<1>2. PICK b : b = EncodeString(source, format, room).bytes
  OBVIOUS
<1>3. CASE source.units = <<>>
  <2>1. b = <<>>
    <3>1. EncodeString(source, format, room) = [bytes |-> <<>>, error |-> "none"]
      BY <1>1, <1>3, EncodeStringIs
    <3> QED BY <1>2, <3>1
  <2>2. Len(<<>>) <= room
    OBVIOUS
  <2> QED BY Zenon, <1>2, <2>1, <2>2, NoText
<1>4. CASE source.units # <<>>
  <2>1. IsSafeText(c.out) /\ Len(c.out) <= room /\ c.chars = NumChars(c.out) /\ c.chars \in Nat
    BY <1>1, <1>4, ConvertedIs, FormatIs
  <2>2. CASE format.width = 0
    <3>1. b = c.out
      <4>1. EncodeString(source, format, room) = [bytes |-> c.out, error |-> c.error]
        BY <1>1, <1>4, <2>2, EncodeStringIs
      <4> QED BY <1>2, <4>1
    <3> QED BY <1>2, <2>1, <3>1
  <2>3. CASE format.width # 0
    <3>1. b = ShiftFill(Counted(c.out, c.chars), room, format).bytes
      <4>1. PICK s : s = ShiftFill(Counted(c.out, c.chars), room, format).bytes
        OBVIOUS
      <4>2. EncodeString(source, format, room) = [bytes |-> s, error |-> c.error]
        BY <1>1, <1>4, <2>3, <4>1, EncodeStringIs
      <4> QED BY <1>2, <4>1, <4>2
    <3>2. c.out \in Seq(Bytes)
      BY <2>1 DEF IsSafeText
    <3>3. IsShifted(b, c.out, c.chars, room, format)
      BY <2>1, <3>1, <3>2, ShiftFillIs
    <3> QED BY <1>2, <2>1, <3>2, <3>3, TextOfShifted, ShiftedFits
  <2> QED BY <2>2, <2>3
<1> QED BY <1>3, <1>4

\* What reencode_tail_string() writes.
LEMMA ReencodeIs ==
  ASSUME NEW bytes, IsSafeText(bytes), NEW format, IsFormat(format), NEW room \in Nat, Len(bytes) <= room,
         room <= NoPrecision
  PROVE  LET text == FirstChars(bytes, format.precision)
         IN  /\ IsShifted(ReencodeTailString(bytes, format, room), text, NumChars(text), room, format)
             /\ IsSafeText(text) /\ Len(text) <= room /\ text \in Seq(Bytes) /\ NumChars(text) \in Nat
<1>1. PICK n \in Nat : n = format.precision
  BY FormatIs
<1>2. PICK text : text = FirstChars(bytes, n)
  OBVIOUS
<1>3. StrTrim(bytes, n) = Counted(text, NumChars(text)) /\ IsSafeText(text) /\ Len(text) <= Len(bytes)
      /\ (Len(bytes) <= n => text = bytes)
  BY <1>2, FirstCharsIs
<1>4. text \in Seq(Bytes) /\ NumChars(text) \in Nat
  BY <1>3, NumCharsIs DEF IsSafeText
<1>5. PICK r : r = ReencodeTailString(bytes, format, room)
  OBVIOUS
<1>6. bytes \in Seq(Bytes)
  BY DEF IsSafeText
<1>7. Len(text) <= room
  BY <1>3, <1>4, <1>6
<1>8. CASE format.width = 0 /\ n = NoPrecision
  <2>1. r = bytes
    BY Zenon, <1>1, <1>5, <1>8 DEF ReencodeTailString
  <2>2. Len(bytes) <= n
    BY <1>6, <1>8 DEF NoPrecision
  <2>3. r = text
    BY Zenon, <1>3, <2>1, <2>2
  <2>4. format.width - NumChars(text) <= 0
    BY <1>4, <1>8
  <2>5. IsShifted(r, text, NumChars(text), room, format)
    BY Zenon, <2>3, <2>4 DEF IsShifted
  <2> QED BY Zenon, <1>1, <1>2, <1>3, <1>4, <1>5, <1>7, <2>5
<1>9. CASE ~(format.width = 0 /\ n = NoPrecision)
  <2>1. r = ShiftFill(Counted(text, NumChars(text)), room, format).bytes
    BY Zenon, <1>1, <1>3, <1>5, <1>9 DEF ReencodeTailString
  <2>2. IsShifted(r, text, NumChars(text), room, format)
    BY <1>4, <2>1, ShiftFillIs
  <2> QED BY Zenon, <1>1, <1>2, <1>3, <1>4, <1>5, <1>7, <2>2
<1> QED BY <1>8, <1>9

-----------------------------------------------------------------------------
\* The invariant of a field: what has been written is what the encoder makes of
\* what was given, and what is done again was a text.
FieldI ==
  /\ given = [source |-> given.source, format |-> given.format, room |-> given.room]
  /\ field = [bytes |-> field.bytes, error |-> field.error]
  /\ given.room \in Nat /\ given.room <= SinkRoom /\ IsFormat(given.format)
  /\ written \in {"nothing", "once", "again"}
  /\ written = "nothing" => field = [bytes |-> <<>>, error |-> "none"]
  /\ written = "once" =>
       /\ given.source \in RawSources \cup Texts
       /\ field = EncodeString(given.source, given.format, given.room)
  /\ written = "again" =>
       /\ IsSafeText(tail) /\ Len(tail) <= given.room
       /\ field.bytes = ReencodeTailString(tail, given.format, given.room)

\* The texts given are such.
LEMMA SourcesAre == ASSUME NEW source \in RawSources \cup Texts PROVE IsSource(source)
BY TextFieldAssumption DEF TextFieldAssumption

\* No format is a format.
LEMMA NoFormatIs == IsFormat(NoFormat)
<1>1. NoFormat.width = 0 /\ NoFormat.precision = NoPrecision /\ NoFormat.align = AlignLeft /\ NoFormat.fill = <<32>>
  BY DEF NoFormat
<1>2. 32 \in Nat /\ 32 < 128 /\ 32 >= 32 /\ 32 <= 126 /\ 32 \in Bytes
  BY DEF Bytes
<1>3. Safe(32) /\ 32 \in CodePoints
  BY <1>2, SafeIs, EncodeOne
<1>4. Encode(32) = <<32>>
  BY SMT, <1>2 DEF Encode
<1>5. DecodeUtf8(<<32>>).code = 32
  <2>1. <<32>> \in Seq(Bytes) /\ <<32>> \o <<>> = <<32>> /\ <<>> \in Seq(Bytes)
    BY <1>2
  <2>2. DecodeUtf8(Encode(32) \o <<>>) = Decoded(32, Len(Encode(32)))
    BY <1>3, <2>1, EncodedIsDecoded
  <2>3. DecodeUtf8(<<32>>) = DecodeUtf8(Encode(32) \o <<>>)
    BY <1>4, <2>1
  <2> QED BY <2>2, <2>3 DEF Decoded
<1>6. IsFillChar(<<32>>)
  <2>1. <<32>> \in Seq(Bytes) \ {<<>>}
    BY <1>2
  <2> QED BY Zenon, <1>3, <1>4, <1>5, <2>1 DEF IsFillChar
<1>7. 0 \in 0 .. NoPrecision /\ NoPrecision \in 0 .. NoPrecision /\ AlignLeft \in Bytes
  BY SMT DEF NoPrecision, AlignLeft, Bytes
<1> QED BY Zenon, <1>1, <1>6, <1>7 DEF IsFormat, NoFormat

\* The invariant holds at first.
LEMMA FieldInitI == FieldInit => FieldI
<1>1. SUFFICES ASSUME FieldInit PROVE FieldI
  OBVIOUS
<1>2. given.format = NoFormat /\ given.room = 0 /\ written = "nothing" /\ field = [bytes |-> <<>>, error |-> "none"]
  BY <1>1 DEF FieldInit
<1>4. given = [source |-> given.source, format |-> given.format, room |-> given.room]
  BY <1>1 DEF FieldInit
<1>5. field = [bytes |-> field.bytes, error |-> field.error]
  BY <1>2
<1>3. 0 \in Nat /\ 0 <= SinkRoom
  BY DEF SinkRoom
<1> QED BY Zenon, <1>2, <1>3, <1>4, <1>5, NoFormatIs DEF FieldI

\* Every step keeps the invariant.
LEMMA FieldNextI == FieldI /\ [FieldNext]_fieldVars => FieldI'
<1>1. SUFFICES ASSUME FieldI, [FieldNext]_fieldVars PROVE FieldI'
  OBVIOUS
<1>2. ASSUME NEW source \in RawSources \cup Texts, NEW format, IsFormat(format), NEW room \in Nat, room <= SinkRoom,
             EncodeField(source, format, room)
      PROVE  FieldI'
  <2>1. /\ written' = "once" /\ given' = [source |-> source, format |-> format, room |-> room]
        /\ field' = EncodeString(source, format, room)
    BY <1>2 DEF EncodeField
  <2>2. given'.source = source /\ given'.format = format /\ given'.room = room
    BY <2>1
  <2>3. given' = [source |-> given'.source, format |-> given'.format, room |-> given'.room]
    BY Zenon, <2>1, <2>2
  <2>4. field' = [bytes |-> field'.bytes, error |-> field'.error]
    <3>1. PICK b, e : field' = [bytes |-> b, error |-> e]
      BY Zenon, <2>1, EncodeStringShape
    <3> QED BY <3>1
  <2> QED BY Zenon, <1>2, <2>1, <2>2, <2>3, <2>4 DEF FieldI
<1>3. CASE \E source \in RawSources : EncodeField(source, NoFormat, AmpleRoom)
  <2>1. AmpleRoom \in Nat /\ AmpleRoom <= SinkRoom
    BY DEF AmpleRoom, SinkRoom
  <2> QED BY <1>2, <1>3, <2>1, NoFormatIs
<1>4. CASE \E source \in Texts, format \in Formats, room \in FieldRooms : EncodeField(source, format, room)
  <2>1. PICK source \in Texts, format \in Formats, room \in FieldRooms : EncodeField(source, format, room)
    BY <1>4
  <2>2. IsFormat(format) /\ room \in 0 .. SinkRoom
    BY TextFieldAssumption DEF TextFieldAssumption
  <2>3. room \in Nat /\ room <= SinkRoom
    BY <2>2 DEF SinkRoom
  <2> QED BY <1>2, <2>1, <2>2, <2>3
<1>5. CASE \E format \in TailFormats : ReencodeTail(format)
  <2>1. PICK format \in TailFormats : ReencodeTail(format)
    BY <1>5
  <2>2. IsFormat(format)
    BY TextFieldAssumption DEF TextFieldAssumption
  <2>3. /\ written = "once" /\ written' = "again" /\ given' = [given EXCEPT !.format = format] /\ tail' = field.bytes
        /\ field' = [field EXCEPT !.bytes = ReencodeTailString(field.bytes, format, given.room)]
    BY <2>1 DEF ReencodeTail
  <2>4. /\ given.source \in RawSources \cup Texts /\ IsFormat(given.format) /\ given.room \in Nat /\ given.room <= SinkRoom
        /\ field = EncodeString(given.source, given.format, given.room)
    BY <1>1, <2>3 DEF FieldI
  <2>5. IsSafeText(field.bytes) /\ Len(field.bytes) <= given.room
    BY <2>4, SourcesAre, EncodeStringFits
  <2>6. /\ given = [source |-> given.source, format |-> given.format, room |-> given.room]
        /\ field = [bytes |-> field.bytes, error |-> field.error]
    BY <1>1 DEF FieldI
  <2>7. given' = [source |-> given.source, format |-> format, room |-> given.room]
    BY <2>3, <2>6
  <2>8. field' = [bytes |-> ReencodeTailString(field.bytes, format, given.room), error |-> field.error]
    BY <2>3, <2>6
  <2>9. given'.source = given.source /\ given'.format = format /\ given'.room = given.room
    BY <2>7
  <2>10. field'.bytes = ReencodeTailString(field.bytes, format, given.room) /\ field'.error = field.error
    BY <2>8
  <2>11. given' = [source |-> given'.source, format |-> given'.format, room |-> given'.room]
    BY Zenon, <2>7, <2>9
  <2>12. field' = [bytes |-> field'.bytes, error |-> field'.error]
    BY Zenon, <2>8, <2>10
  <2> QED BY <2>2, <2>3, <2>4, <2>5, <2>9, <2>10, <2>11, <2>12 DEF FieldI
<1>6. CASE UNCHANGED fieldVars
  BY <1>1, <1>6 DEF fieldVars, FieldI
<1> QED BY <1>1, <1>3, <1>4, <1>5, <1>6 DEF FieldNext

\* Whatever has been written is a text that fits.
LEMMA FieldIsText ==
  ASSUME FieldI
  PROVE  IsSafeText(field.bytes) /\ Len(field.bytes) <= given.room
<1>1. given.room \in Nat /\ given.room <= SinkRoom /\ IsFormat(given.format) /\ written \in {"nothing", "once", "again"}
  BY DEF FieldI
<1>2. CASE written = "nothing"
  <2>1. field.bytes = <<>>
    BY <1>2 DEF FieldI
  <2>2. Len(<<>>) <= given.room
    BY <1>1
  <2> QED BY Zenon, <2>1, <2>2, NoText
<1>3. CASE written = "once"
  <2>1. given.source \in RawSources \cup Texts /\ field = EncodeString(given.source, given.format, given.room)
    BY <1>3 DEF FieldI
  <2> QED BY <1>1, <2>1, SourcesAre, EncodeStringFits
<1>4. CASE written = "again"
  <2>1. IsSafeText(tail) /\ Len(tail) <= given.room /\ field.bytes = ReencodeTailString(tail, given.format, given.room)
    BY <1>4 DEF FieldI
  <2>2. given.room <= NoPrecision
    BY <1>1 DEF SinkRoom, NoPrecision
  <2>3. PICK text : text = FirstChars(tail, given.format.precision)
    OBVIOUS
  <2>4. /\ IsShifted(field.bytes, text, NumChars(text), given.room, given.format)
        /\ IsSafeText(text) /\ Len(text) <= given.room /\ text \in Seq(Bytes) /\ NumChars(text) \in Nat
    BY Zenon, <1>1, <2>1, <2>2, <2>3, ReencodeIs
  <2> QED BY <1>1, <2>4, TextOfShifted, ShiftedFits
<1> QED BY <1>1, <1>2, <1>3, <1>4

\* By the invariant nothing that cannot be printed is in a field.
LEMMA UnprintableNot == FieldI => NothingUnprintable
<1>1. SUFFICES ASSUME FieldI PROVE NothingUnprintable
  OBVIOUS
<1>2. ~Unprintable(field.bytes)
  BY <1>1, FieldIsText, TextIsPrintable
<1> QED BY Zenon, <1>2 DEF Unprintable, NothingUnprintable

\* Nothing that cannot be printed is ever in a field.
THEOREM NeverUnprintable == FieldSpec => []NothingUnprintable
BY FieldInitI, FieldNextI, UnprintableNot, PTL DEF FieldSpec

-----------------------------------------------------------------------------
\* By the invariant a field is as wide as its format says.
LEMMA WidthI == FieldI => FieldIsWide
<1>1. SUFFICES ASSUME FieldI, HasSource PROVE FieldIsWide
  BY DEF FieldIsWide
<1>2. given.room \in Nat /\ given.room <= SinkRoom /\ IsFormat(given.format) /\ written \in {"once", "again"}
      /\ given.source.units # <<>>
  BY <1>1 DEF FieldI, HasSource
<1>3. PICK text : text = IF written = "once" THEN EncodeString(given.source, Unformatted(given), given.room).bytes
                                             ELSE FirstChars(tail, given.format.precision)
  OBVIOUS
<1>4. IsShifted(field.bytes, text, NumChars(text), given.room, given.format)
  <2>1. CASE written = "once"
    <3>1. given.source \in RawSources \cup Texts /\ field = EncodeString(given.source, given.format, given.room)
      BY <1>1, <2>1 DEF FieldI
    <3>2. PICK c : c = Utf8Conv(given.source.bits, given.source.units, given.room, given.format.precision)
      OBVIOUS
    <3>3. IsSafeText(c.out) /\ c.chars = NumChars(c.out) /\ c.chars \in Nat
      BY SMTT(40), <1>2, <3>1, <3>2, SourcesAre, ConvertedIs, FormatIs
    <3>4. text = c.out
      <4>1. PICK plain : plain = Unformatted(given)
        OBVIOUS
      <4>2. plain.width = 0 /\ plain.precision = given.format.precision
        <5>1. PICK format : format = given.format
          OBVIOUS
        <5>2. format = [width |-> format.width, precision |-> format.precision,
                        align |-> format.align, fill |-> format.fill]
          BY <1>2, <5>1 DEF IsFormat
        <5>3. plain = [format EXCEPT !.width = 0]
          BY <4>1, <5>1 DEF Unformatted
        <5>4. plain.width = 0 /\ plain.precision = format.precision
          BY <5>2, <5>3
        <5> QED BY <5>1, <5>4
      <4>3. c = Utf8Conv(given.source.bits, given.source.units, given.room, plain.precision)
        BY <3>2, <4>2
      <4>4. EncodeString(given.source, plain, given.room) = [bytes |-> c.out, error |-> c.error]
        BY <1>2, <4>2, <4>3, EncodeStringIs
      <4>5. text = EncodeString(given.source, plain, given.room).bytes
        BY <1>3, <2>1, <4>1
      <4> QED BY <4>4, <4>5
    <3>5. c.out \in Seq(Bytes)
      BY <3>3 DEF IsSafeText
    <3>6. CASE given.format.width = 0
      <4>1. field = [bytes |-> c.out, error |-> c.error]
        BY <1>2, <3>1, <3>2, <3>6, EncodeStringIs
      <4>2. field.bytes = text
        BY <3>4, <4>1
      <4>3. given.format.width - NumChars(text) <= 0
        BY <3>3, <3>4, <3>6
      <4> QED BY Zenon, <4>2, <4>3 DEF IsShifted
    <3>7. CASE given.format.width # 0
      <4>1. PICK s : s = ShiftFill(Counted(c.out, c.chars), given.room, given.format).bytes
        OBVIOUS
      <4>2. field = [bytes |-> s, error |-> c.error]
        BY <1>2, <3>1, <3>2, <3>7, <4>1, EncodeStringIs
      <4>3. field.bytes = s
        BY <4>2
      <4>4. IsShifted(s, c.out, c.chars, given.room, given.format)
        BY <1>2, <3>3, <3>5, <4>1, ShiftFillIs
      <4> QED BY Zenon, <3>3, <3>4, <4>3, <4>4
    <3> QED BY <3>6, <3>7
  <2>2. CASE written = "again"
    <3>1. IsSafeText(tail) /\ Len(tail) <= given.room /\ field.bytes = ReencodeTailString(tail, given.format, given.room)
      BY <1>1, <2>2 DEF FieldI
    <3>2. given.room <= NoPrecision
      BY <1>2 DEF SinkRoom, NoPrecision
    <3>3. text = FirstChars(tail, given.format.precision)
      BY <1>3, <2>2
    <3> QED BY Zenon, <1>2, <3>1, <3>2, <3>3, ReencodeIs
  <2> QED BY <1>2, <2>1, <2>2
<1> QED BY Zenon, <1>3, <1>4 DEF FieldIsWide, IsShifted, FilledAround

\* A field is as wide as its format says, with the text on its side, unless there
\* is no room to fill it.
THEOREM FieldsAreWide == FieldSpec => []FieldIsWide
BY FieldInitI, FieldNextI, WidthI, PTL DEF FieldSpec

-----------------------------------------------------------------------------
\* Without a width, less is written only for lack of room, and then an error says so.
LEMMA CutIs ==
  ASSUME NEW source, IsSource(source), NEW format, IsFormat(format), format.width = 0, NEW room \in Nat,
         NEW e, e = EncodeString(source, format, room),
         NEW whole, whole = EncodeString(source, format, EscapeRoom * Len(source.units)).bytes
  PROVE  /\ IsPrefix(e.bytes, whole)
         /\ e.error = "none" <=> e.bytes = whole
         /\ e.error # "none" => room - Len(e.bytes) < EscapeRoom
<1>1. PICK bits : bits = source.bits
  OBVIOUS
<1>2. PICK units : units = source.units
  OBVIOUS
<1>3. bits \in {8, 16, 32} /\ units \in Seq(UnitSet(bits))
  BY <1>1, <1>2 DEF IsSource
<1>4. PICK limit \in Nat : limit = format.precision
  BY FormatIs
<1>5. CASE units = <<>>
  <2>1. e = [bytes |-> <<>>, error |-> "none"]
    BY ZenonT(40), <1>2, <1>5, EncodeStringIs
  <2>2. EncodeString(source, format, EscapeRoom * Len(source.units)) = [bytes |-> <<>>, error |-> "none"]
    BY Zenon, <1>2, <1>5, EncodeStringIs
  <2>3. e.bytes = <<>> /\ e.error = "none" /\ whole = <<>>
    BY <2>1, <2>2
  <2>4. IsPrefix(<<>>, <<>>)
    <3>1. <<>> \in Seq(Bytes) /\ Starts(<<>>, <<>>)
      BY DEF Starts
    <3> QED BY <3>1, StartsIsPrefix
  <2> QED BY Zenon, <2>3, <2>4
<1>6. CASE units # <<>>
  <2>1. PICK ample : ample = EscapeRoom * Len(units)
    OBVIOUS
  <2>2. PICK c : c = Utf8Conv(bits, units, room, limit)
    OBVIOUS
  <2>3. PICK a : a = Utf8Conv(bits, units, ample, limit)
    OBVIOUS
  <2>4. e.bytes = c.out /\ e.error = c.error
    <3>1. EncodeString(source, format, room) = [bytes |-> c.out, error |-> c.error]
      BY <1>1, <1>2, <1>4, <1>6, <2>2, EncodeStringIs
    <3> QED BY <3>1
  <2>5. whole = a.out
    <3>1. EncodeString(source, format, ample) = [bytes |-> a.out, error |-> a.error]
      BY <1>1, <1>2, <1>4, <1>6, <2>3, EncodeStringIs
    <3> QED BY <1>2, <2>1, <3>1
  <2>6. PICK f : IsPure(f, bits, units, limit)
    BY <1>3, PureExists
  <2>7. PICK q : q = f[Len(units)]
    OBVIOUS
  <2>8. a.out = q.out
    BY <1>3, <2>1, <2>3, <2>6, <2>7, AmpleIsWhole
  <2>9. PICK j \in 0 .. Len(units) : StopsAt(c, f, j, units, room)
    BY <1>3, <2>2, <2>6, Utf8ConvIs
  <2>10. PICK p : p = f[j]
    OBVIOUS
  <2>11. EndsIn(p, q, units)
    BY <1>3, <2>6, <2>7, <2>10, PureEnds
  <2>12. p.out \in Seq(Bytes) /\ q.out \in Seq(Bytes)
    <3>1. Len(units) \in 0 .. Len(units)
      BY <1>3
    <3>2. p \in PureStates(units) /\ q \in PureStates(units)
      BY <1>3, <2>6, <2>7, <2>10, <3>1, PureAdvances
    <3> QED BY <1>3, <3>2, PureStateIs
  <2>13. IsPrefix(p.out, q.out)
    BY <2>11, <2>12, StartsIsPrefix DEF EndsIn
  <2>14. /\ c.out = p.out /\ (c.error = "none" => Over(units, p))
         /\ c.error # "none" => ~Over(units, p) /\ room - Len(p.out) < EscapeRoom
    BY <2>9, <2>10 DEF StopsAt
  <2>15. c.error = "none" => p.out = q.out
    BY <2>11, <2>14 DEF EndsIn
  <2>16. c.error # "none" => p.out # q.out
    <3>1. ASSUME c.error # "none" PROVE Len(p.out) < Len(q.out)
      BY <2>11, <2>14, <3>1 DEF EndsIn
    <3>2. Len(p.out) \in Nat
      BY <2>12
    <3>3. ~(Len(p.out) < Len(p.out))
      BY <3>2
    <3> QED BY Zenon, <3>1, <3>3
  <2> QED BY Zenon, <2>4, <2>5, <2>8, <2>13, <2>14, <2>15, <2>16
<1> QED BY <1>5, <1>6

\* By the invariant what was cut is told.
LEMMA CutI == FieldI => CutWithError
<1>1. SUFFICES ASSUME FieldI PROVE CutWithError
  OBVIOUS
<1>2. Len(field.bytes) <= given.room
  BY <1>1, FieldIsText
<1>3. PICK whole : whole = EncodeString(given.source, given.format, EscapeRoom * Len(given.source.units)).bytes
  OBVIOUS
<1>4. ASSUME written = "once", given.format.width = 0
      PROVE  /\ IsPrefix(field.bytes, whole)
             /\ field.error = "none" <=> field.bytes = whole
             /\ field.error # "none" => given.room - Len(field.bytes) < EscapeRoom
  <2>1. /\ given.source \in RawSources \cup Texts /\ IsFormat(given.format) /\ given.room \in Nat
        /\ field = EncodeString(given.source, given.format, given.room)
    BY <1>1, <1>4 DEF FieldI
  <2>2. IsSource(given.source)
    BY <2>1, SourcesAre
  <2>3. PICK source : source = given.source
    OBVIOUS
  <2>4. PICK format : format = given.format
    OBVIOUS
  <2>5. PICK room : room = given.room
    OBVIOUS
  <2>6. PICK e : e = field
    OBVIOUS
  <2>7. /\ IsSource(source) /\ IsFormat(format) /\ format.width = 0 /\ room \in Nat
        /\ e = EncodeString(source, format, room)
        /\ whole = EncodeString(source, format, EscapeRoom * Len(source.units)).bytes
    BY Zenon, <1>3, <1>4, <2>1, <2>2, <2>3, <2>4, <2>5, <2>6
  <2>8. IsPrefix(e.bytes, whole) /\ (e.error = "none" <=> e.bytes = whole)
        /\ (e.error # "none" => room - Len(e.bytes) < EscapeRoom)
    BY <2>7, CutIs
  <2> QED BY Zenon, <2>5, <2>6, <2>8
<1> QED BY Zenon, <1>2, <1>3, <1>4 DEF CutWithError

\* Never more is written than fits; and what was cut is the beginning of the
\* whole, with an error.
THEOREM CutsAreTold == FieldSpec => []CutWithError
BY FieldInitI, FieldNextI, CutI, PTL DEF FieldSpec

-----------------------------------------------------------------------------
(* The characters of a source, in every encoding. *)

\* The units of a character in UTF-16.
LEMMA PairIs ==
  ASSUME NEW cp \in CodePoints, NEW two, IsPair(cp, two)
  PROVE  two \in Seq(Units) /\ Len(two) = 2 /\ cp = 65536 + 1024 * (two[1] % 1024) + (two[2] % 1024)
<1>1. PICK h \in Nat, l \in Nat :
        h <= 1023 /\ l <= 1023 /\ cp = 65536 + 1024 * h + l /\ two = <<55296 + h, 56320 + l>>
  BY SMT DEF IsPair
<1>2. PICK a \in Nat : a = 55296 + h
  OBVIOUS
<1>3. PICK b \in Nat : b = 56320 + l
  OBVIOUS
<1>4. a \in Units /\ b \in Units
  BY SMT, <1>1, <1>2, <1>3, UnitIs
<1>5. a % 1024 = h /\ b % 1024 = l
  BY SMT, <1>1, <1>2, <1>3
<1>6. two = <<a, b>>
  BY SMT, <1>1, <1>2, <1>3
<1>7. two \in Seq(Units) /\ Len(two) = 2 /\ two[1] = a /\ two[2] = b
  BY SMT, <1>4, <1>6
<1> QED BY SMT, <1>1, <1>5, <1>7

\* The units of a character in any encoding.
LEMMA EncodeInIs ==
  ASSUME NEW bits \in {8, 16, 32}, NEW cp \in CodePoints
  PROVE  \E e \in Seq(UnitSet(bits)), m \in 1 .. 4 :
           /\ e = EncodeIn(bits, cp) /\ m = Len(e)
           /\ bits = 16 => m <= 2
           /\ bits = 32 => m <= 1
           /\ bits # 8 /\ m = 1 => e[1] = cp
           /\ bits = 16 /\ m = 2 => IsPair(cp, e)
<1>1. CASE bits = 8
  <2>1. PICK e \in Seq(Bytes), m \in 1 .. 4 : e = Encode(cp) /\ m = Len(e)
    BY CharIs
  <2>2. EncodeIn(8, cp) = Encode(cp) /\ UnitSet(8) = Bytes
    BY DEF EncodeIn, UnitSet
  <2>3. 8 # 16 /\ 8 # 32
    OBVIOUS
  <2> QED BY Zenon, <1>1, <2>1, <2>2, <2>3
<1>2. CASE bits = 16
  <2>1. EncodeIn(16, cp) = EncodeUtf16(cp) /\ UnitSet(16) = Units
    BY DEF EncodeIn, UnitSet
  <2>2. PICK e : e = EncodeUtf16(cp)
    OBVIOUS
  <2>3. (e = <<cp>> /\ cp \in Units) \/ IsPair(cp, e)
    BY <2>2, EncodeUtf16Is
  <2>4. CASE e = <<cp>> /\ cp \in Units
    <3>1. e \in Seq(Units) /\ Len(e) = 1 /\ e[1] = cp
      BY <2>4
    <3>2. 1 \in 1 .. 4 /\ 1 <= 2 /\ 1 # 2 /\ 16 # 32
      OBVIOUS
    <3> QED BY Zenon, <1>2, <2>1, <2>2, <3>1, <3>2
  <2>5. CASE IsPair(cp, e)
    <3>1. e \in Seq(Units) /\ Len(e) = 2
      BY <2>5, PairIs
    <3>2. 2 \in 1 .. 4 /\ 2 <= 2 /\ 2 # 1 /\ 16 # 32
      OBVIOUS
    <3> QED BY Zenon, <1>2, <2>1, <2>2, <2>5, <3>1, <3>2
  <2> QED BY <2>3, <2>4, <2>5
<1>3. CASE bits = 32
  <2>1. EncodeIn(32, cp) = <<cp>> /\ UnitSet(32) = Nat
    BY DEF EncodeIn, UnitSet
  <2>2. cp \in Nat
    BY SMT DEF CodePoints
  <2>3. <<cp>> \in Seq(Nat) /\ Len(<<cp>>) = 1 /\ <<cp>>[1] = cp
    BY <2>2
  <2>4. 1 \in 1 .. 4 /\ 1 <= 1 /\ 32 # 16
    OBVIOUS
  <2> QED BY Zenon, <1>3, <2>1, <2>3, <2>4
<1> QED BY <1>1, <1>2, <1>3

\* Units are numbers.
LEMMA UnitIsNat ==
  ASSUME NEW bits \in {8, 16, 32}, NEW u \in UnitSet(bits)
  PROVE  u \in Nat
<1>1. UnitSet(8) = Bytes /\ UnitSet(16) = Units /\ UnitSet(32) = Nat
  BY DEF UnitSet
<1>2. \A v : v \in Bytes \/ v \in Units => v \in Nat
  <2>1. \A v \in Bytes : v \in Nat
    BY SMT DEF Bytes
  <2>2. \A v \in Units : v \in Nat
    BY SMT, UnitIs
  <2> QED BY <2>1, <2>2
<1>3. bits = 8 \/ bits = 16 \/ bits = 32
  OBVIOUS
<1>4. UnitSet(bits) \in {Bytes, Units, Nat}
  BY <1>1, <1>3
<1> QED BY Zenon, <1>2, <1>4

\* What a text would have to be somewhere.
LEMMA CandidateInIs ==
  ASSUME NEW bits \in {16, 32}, NEW units, NEW i
  PROVE  /\ Candidate(bits, units, i, 1) = units[i]
         /\ bits = 16 => Candidate(bits, units, i, 2) = 65536 + 1024 * (units[i] % 1024) + (units[i + 1] % 1024)
BY SMT DEF Candidate

\* The lengths a character may have in UTF-16 and in UTF-32.
LEMMA LengthsInIs ==
  ASSUME NEW bits \in {16, 32}, NEW units, NEW i
  PROVE  /\ bits = 16 => LengthsAt(bits, units, i) =
              {n \in 1 .. 2 : i + n - 1 <= Len(units) /\ IsChar(bits, units, i, n, Candidate(bits, units, i, n))}
         /\ bits = 32 => LengthsAt(bits, units, i) =
              {n \in 1 .. 1 : i + n - 1 <= Len(units) /\ IsChar(bits, units, i, n, Candidate(bits, units, i, n))}
<1>1. CASE bits = 16
  BY <1>1 DEF LengthsAt
<1>2. CASE bits = 32
  BY <1>2 DEF LengthsAt
<1> QED BY <1>1, <1>2

\* What stands at a place as a character is what it would have to be.
LEMMA StandsIn ==
  ASSUME NEW bits \in {8, 16, 32}, NEW units \in Seq(UnitSet(bits)), NEW i \in 1 .. Len(units), NEW cp \in CodePoints,
         StandsAt(units, i, EncodeIn(bits, cp))
  PROVE  /\ Len(EncodeIn(bits, cp)) \in LengthsAt(bits, units, i)
         /\ Candidate(bits, units, i, Len(EncodeIn(bits, cp))) = cp
<1>1. PICK e \in Seq(UnitSet(bits)), m \in 1 .. 4 :
        /\ e = EncodeIn(bits, cp) /\ m = Len(e)
        /\ bits = 16 => m <= 2
        /\ bits = 32 => m <= 1
        /\ bits # 8 /\ m = 1 => e[1] = cp
        /\ bits = 16 /\ m = 2 => IsPair(cp, e)
  BY EncodeInIs
<1>2. CASE bits = 8
  <2>1. EncodeIn(8, cp) = Encode(cp) /\ UnitSet(8) = Bytes
    BY DEF EncodeIn, UnitSet
  <2> QED BY <1>2, <2>1, StandsIsLength
<1>3. CASE bits # 8
  <2>1. bits \in {16, 32}
    BY <1>3
  <2>2. i + m - 1 <= Len(units) /\ SubSeq(units, i, i + m - 1) = e /\ \A j \in 1 .. m : units[i + j - 1] = e[j]
    <3>1. i \in 1 .. Len(units) + 1
      OBVIOUS
    <3>2. i + m - 1 <= Len(units) /\ SubSeq(units, i, i + m - 1) = e
      BY <1>1, <3>1, StandsIs
    <3> QED BY <1>1, <3>2 DEF StandsAt
  <2>3. Candidate(bits, units, i, m) = cp
    <3>1. CASE m = 1
      <4>1. units[i] = e[1]
        <5>1. 1 \in 1 .. m /\ i + 1 - 1 = i
          OBVIOUS
        <5>2. units[i + 1 - 1] = e[1]
          BY <2>2, <5>1
        <5> QED BY <5>1, <5>2
      <4> QED BY <1>1, <1>3, <2>1, <3>1, <4>1, CandidateInIs
    <3>2. CASE m # 1
      <4>1. bits = 16 /\ m = 2
        BY <1>1, <2>1, <3>2
      <4>2. IsPair(cp, e)
        BY <1>1, <4>1
      <4>3. units[i] = e[1] /\ units[i + 1] = e[2]
        <5>1. 1 \in 1 .. m /\ i + 1 - 1 = i /\ 2 \in 1 .. m /\ i + 2 - 1 = i + 1
          BY <4>1
        <5>2. units[i + 1 - 1] = e[1] /\ units[i + 2 - 1] = e[2]
          BY <2>2, <5>1
        <5> QED BY <5>1, <5>2
      <4>4. Candidate(16, units, i, 2) = 65536 + 1024 * (e[1] % 1024) + (e[2] % 1024)
        BY SMT, <4>3, CandidateInIs
      <4>5. cp = 65536 + 1024 * (e[1] % 1024) + (e[2] % 1024)
        BY SMT, <4>2, PairIs
      <4>6. Candidate(16, units, i, 2) = cp
        BY SMT, <4>4, <4>5
      <4> QED BY Zenon, <4>1, <4>6
    <3> QED BY <3>1, <3>2
  <2>4. IsChar(bits, units, i, m, cp)
    <3>1. ValidCodePoint(cp)
      BY DEF CodePoints
    <3> QED BY Zenon, <1>1, <2>2, <3>1 DEF IsChar
  <2>5. m \in LengthsAt(bits, units, i)
    <3>1. CASE bits = 16
      <4>1. m <= 2
        BY Zenon, <1>1, <3>1
      <4>2. m \in 1 .. 2
        BY <4>1
      <4>3. LengthsAt(bits, units, i) =
              {k \in 1 .. 2 : i + k - 1 <= Len(units) /\ IsChar(bits, units, i, k, Candidate(bits, units, i, k))}
        BY ZenonT(40), <2>1, <3>1, LengthsInIs
      <4> QED BY Zenon, <2>2, <2>3, <2>4, <4>2, <4>3
    <3>2. CASE bits = 32
      <4>1. m <= 1
        BY Zenon, <1>1, <3>2
      <4>2. m \in 1 .. 1
        BY <4>1
      <4>3. LengthsAt(bits, units, i) =
              {k \in 1 .. 1 : i + k - 1 <= Len(units) /\ IsChar(bits, units, i, k, Candidate(bits, units, i, k))}
        BY ZenonT(40), <2>1, <3>2, LengthsInIs
      <4> QED BY Zenon, <2>2, <2>3, <2>4, <4>2, <4>3
    <3> QED BY <2>1, <3>1, <3>2
  <2> QED BY Zenon, <1>1, <2>3, <2>5
<1> QED BY <1>2, <1>3

\* And what would have to be one, is.
LEMMA LengthIn ==
  ASSUME NEW bits \in {8, 16, 32}, NEW units \in Seq(UnitSet(bits)), NEW i \in 1 .. Len(units),
         NEW n \in LengthsAt(bits, units, i)
  PROVE  \E cp \in CodePoints : cp = Candidate(bits, units, i, n) /\ StandsAt(units, i, EncodeIn(bits, cp))
<1>1. CASE bits = 8
  <2>1. \A cp : EncodeIn(8, cp) = Encode(cp)
    BY DEF EncodeIn
  <2>2. UnitSet(8) = Bytes
    BY DEF UnitSet
  <2>3. units \in Seq(Bytes) /\ n \in LengthsAt(8, units, i)
    BY <1>1, <2>2
  <2>4. PICK cp \in CodePoints : cp = Candidate(8, units, i, n) /\ StandsAt(units, i, Encode(cp))
    BY <2>3, LengthIsStands
  <2> QED BY Zenon, <1>1, <2>1, <2>4
<1>2. CASE bits # 8
  <2>1. bits \in {16, 32}
    BY <1>2
  <2>2. PICK cp : cp = Candidate(bits, units, i, n)
    OBVIOUS
  <2>3. n \in 1 .. 2 /\ (bits = 32 => n = 1) /\ i + n - 1 <= Len(units) /\ IsChar(bits, units, i, n, cp)
    <3>1. CASE bits = 16
      <4>1. LengthsAt(bits, units, i) =
              {k \in 1 .. 2 : i + k - 1 <= Len(units) /\ IsChar(bits, units, i, k, Candidate(bits, units, i, k))}
        BY ZenonT(40), <2>1, <3>1, LengthsInIs
      <4>2. 16 # 32
        OBVIOUS
      <4> QED BY Zenon, <2>2, <3>1, <4>1, <4>2
    <3>2. CASE bits = 32
      <4>1. LengthsAt(bits, units, i) =
              {k \in 1 .. 1 : i + k - 1 <= Len(units) /\ IsChar(bits, units, i, k, Candidate(bits, units, i, k))}
        BY ZenonT(40), <2>1, <3>2, LengthsInIs
      <4>2. \A k \in 1 .. 1 : k = 1 /\ k \in 1 .. 2
        OBVIOUS
      <4> QED BY Zenon, <2>2, <3>2, <4>1, <4>2
    <3> QED BY <2>1, <3>1, <3>2
  <2>4. PICK s : s = SubSeq(units, i, i + n - 1)
    OBVIOUS
  <2>5. s \in Seq(UnitSet(bits)) /\ Len(s) = n
    BY <2>3, <2>4
  <2>6. ValidCodePoint(cp) /\ EncodeIn(bits, cp) = s
    BY Zenon, <2>3, <2>4 DEF IsChar
  <2>7. cp \in Nat
    <3>1. units[i] \in Nat
      BY UnitIsNat
    <3>2. CASE n = 1
      <4>1. cp = units[i]
        BY SMT, <2>1, <2>2, <3>2, CandidateInIs
      <4> QED BY <3>1, <4>1
    <3>3. CASE n # 1
      <4>1. n = 2 /\ bits = 16
        BY <2>1, <2>3, <3>3
      <4>2. i + 1 \in 1 .. Len(units)
        BY <2>3, <4>1
      <4>3. units[i + 1] \in Nat
        BY <4>2, UnitIsNat
      <4>4. PICK a \in Nat : a = units[i]
        BY <3>1
      <4>5. PICK b \in Nat : b = units[i + 1]
        BY <4>3
      <4>6. Candidate(16, units, i, 2) = 65536 + 1024 * (a % 1024) + (b % 1024)
        BY SMT, <4>4, <4>5, CandidateInIs
      <4>7. 65536 + 1024 * (a % 1024) + (b % 1024) \in Nat
        BY SMT
      <4>8. Candidate(16, units, i, 2) \in Nat
        BY SMT, <4>6, <4>7
      <4> QED BY Zenon, <2>2, <4>1, <4>8
    <3> QED BY <3>2, <3>3
  <2>8. cp \in CodePoints
    BY <2>6, <2>7 DEF CodePoints
  <2>9. StandsAt(units, i, s)
    <3>1. i \in 1 .. Len(units) + 1
      OBVIOUS
    <3>2. i + Len(s) - 1 <= Len(units) /\ SubSeq(units, i, i + Len(s) - 1) = s
      BY <2>3, <2>4, <2>5
    <3> QED BY <2>5, <3>1, <3>2, StandsIs
  <2> QED BY Zenon, <2>2, <2>6, <2>8, <2>9
<1> QED BY <1>1, <1>2

\* What becomes of the units that the decoder takes for one: what it makes of
\* them of the first, and nothing of the others.
LEMMA BecomesIs ==
  ASSUME NEW bits \in {8, 16, 32}, NEW units \in Seq(UnitSet(bits)), NEW p \in PureStates(units), ~Over(units, p),
         NEW d, Right(bits, Rest(units, p), d)
  PROVE  /\ EncodeSafe(d.code).bytes \in Becomes(bits, units, p.pos + 1)
         /\ \A i \in 2 .. d.used : <<>> \in Becomes(bits, units, p.pos + i)
<1>1. PICK n \in Nat : n = Len(units)
  OBVIOUS
<1>2. PICK q \in Nat : q = p.pos /\ q < n
  BY <1>1, PureStateIs DEF Over
<1>3. PICK rest : rest = Rest(units, p)
  OBVIOUS
<1>4. rest \in Seq(UnitSet(bits)) /\ Len(rest) = n - q /\ \A j \in 1 .. n - q : rest[j] = units[q + j]
  BY SMTT(40), <1>1, <1>2, <1>3, PureRest
<1>5. d.used \in 1 .. n - q /\ d.code \in CodePoints
  BY <1>3, <1>4 DEF Right
<1>6. ASSUME NEW i \in 1 .. n - q, NEW cp \in CodePoints
      PROVE  StandsAt(rest, i, EncodeIn(bits, cp)) <=> StandsAt(units, q + i, EncodeIn(bits, cp))
  <2>1. EncodeIn(bits, cp) \in Seq(UnitSet(bits))
    BY EncodeInIs
  <2>2. rest = SubSeq(units, q + 1, Len(units))
    BY <1>2, <1>3 DEF Rest
  <2>3. q \in 0 .. Len(units)
    BY <1>1, <1>2
  <2> QED BY Zenon, <1>1, <2>1, <2>2, <2>3, StandsInRest
<1>7. 1 \in 1 .. n - q /\ q + 1 \in 1 .. Len(units)
  BY <1>1, <1>2
<1>8. EncodeSafe(d.code).bytes \in Becomes(bits, units, q + 1)
  <2>1. CASE LengthsAt(bits, units, q + 1) = {}
    <3>1. d.code = ReplacementChar
      <4>1. ASSUME d.code # ReplacementChar PROVE FALSE
        <5>1. StandsAt(rest, 1, EncodeIn(bits, d.code))
          BY Zenon, <1>3, <4>1 DEF Right
        <5>2. StandsAt(units, q + 1, EncodeIn(bits, d.code))
          BY Zenon, <1>5, <1>6, <1>7, <5>1
        <5> QED BY Zenon, <1>5, <1>7, <2>1, <5>2, StandsIn
      <4> QED BY <4>1
    <3>2. ReplacementChar \in CodePoints /\ ~Safe(ReplacementChar)
      <4>1. ReplacementChar \in Nat
        BY SMT, ReplacementIs
      <4>2. ReplacementChar \in CodePoints
        BY SMT, ReplacementIs
      <4>3. ~Safe(ReplacementChar)
        BY ZenonT(40), <4>1, SafeIs
      <4> QED BY <4>2, <4>3
    <3>3. EncodeSafe(ReplacementChar).bytes = Escaped(ReplacementChar)
      BY Zenon, <3>2, EncodeSafeIs
    <3> QED BY Zenon, <2>1, <3>1, <3>3 DEF Becomes
  <2>2. CASE LengthsAt(bits, units, q + 1) # {}
    <3>1. PICK k \in LengthsAt(bits, units, q + 1) : TRUE
      BY <2>2
    <3>2. PICK cp \in CodePoints : cp = Candidate(bits, units, q + 1, k) /\ StandsAt(units, q + 1, EncodeIn(bits, cp))
      BY <1>7, LengthIn
    <3>3. StandsAt(rest, 1, EncodeIn(bits, cp))
      BY Zenon, <1>6, <1>7, <3>2
    <3>4. d.code = cp
      BY Zenon, <1>3, <3>3 DEF Right
    <3> QED BY Zenon, <2>2, <3>2, <3>4 DEF Becomes
  <2> QED BY <2>1, <2>2
<1>9. ASSUME NEW i \in 2 .. d.used PROVE <<>> \in Becomes(bits, units, q + i)
  <2>1. i \in 1 .. n - q /\ q + i \in 1 .. Len(units)
    BY <1>1, <1>2, <1>5
  <2>2. ASSUME NEW k \in LengthsAt(bits, units, q + i) PROVE FALSE
    <3>1. PICK cp \in CodePoints : StandsAt(units, q + i, EncodeIn(bits, cp))
      BY <2>1, LengthIn
    <3>2. PICK e \in Seq(UnitSet(bits)), m \in 1 .. 4 : e = EncodeIn(bits, cp) /\ m = Len(e)
      BY EncodeInIs
    <3>3. units[q + i] = e[1]
      <4>1. 1 \in 1 .. m /\ (q + i) + 1 - 1 = q + i
        BY <2>1
      <4>2. units[(q + i) + 1 - 1] = e[1]
        BY <3>1, <3>2, <4>1 DEF StandsAt
      <4> QED BY <4>1, <4>2
    <3>4. rest[i] = e[1]
      BY <1>4, <2>1, <3>3
    <3>5. rest[i] # EncodeIn(bits, cp)[1]
      BY Zenon, <1>3 DEF Right
    <3> QED BY <3>2, <3>4, <3>5
  <2>3. LengthsAt(bits, units, q + i) = {}
    BY <2>2
  <2> QED BY Zenon, <2>3 DEF Becomes
<1> QED BY Zenon, <1>2, <1>8, <1>9

-----------------------------------------------------------------------------
(* What the units of a source become. *)

\* What becomes of a unit are bytes.
LEMMA BecomesBytes ==
  ASSUME NEW bits \in {8, 16, 32}, NEW units \in Seq(UnitSet(bits)), NEW i \in 1 .. Len(units),
         NEW part \in Becomes(bits, units, i)
  PROVE  part \in Seq(Bytes)
<1>1. CASE LengthsAt(bits, units, i) = {}
  <2>1. part = <<>> \/ part = Escaped(ReplacementChar)
    BY Zenon, <1>1 DEF Becomes
  <2>2. <<>> \in Seq(Bytes)
    OBVIOUS
  <2>3. IsSafeText(Escaped(ReplacementChar))
    <3>1. ReplacementChar \in CodePoints
      BY SMT, ReplacementIs
    <3> QED BY <3>1, EscapedIs, TextOfPrintables
  <2> QED BY <2>1, <2>2, <2>3 DEF IsSafeText
<1>2. CASE LengthsAt(bits, units, i) # {}
  <2>1. PICK k \in LengthsAt(bits, units, i) : part = EncodeSafe(Candidate(bits, units, i, k)).bytes
    BY Zenon, <1>2 DEF Becomes
  <2>2. PICK cp \in CodePoints : cp = Candidate(bits, units, i, k)
    BY LengthIn
  <2>3. part = EncodeSafe(cp).bytes
    BY <2>1, <2>2
  <2> QED BY <2>3, EncodeSafeIs
<1> QED BY <1>1, <1>2

\* Where what one more unit became may end.
EndsAfter(bytes, bits, units, before, i) ==
  UNION {EndsWith(bytes, s[1], s[2]) : s \in {before} \X Becomes(bits, units, i)}

\* Where what one more unit became may end is where it ends.
LEMMA EndsAfterIs ==
  ASSUME NEW bits \in {8, 16, 32}, NEW units \in Seq(UnitSet(bits)), NEW i \in 1 .. Len(units),
         NEW bytes \in Seq(Bytes), NEW before \in SUBSET Nat
  PROVE  /\ EndsAfter(bytes, bits, units, before, i) \in SUBSET Nat
         /\ \A q \in before, part \in Becomes(bits, units, i) :
              q + Len(part) <= Len(bytes) /\ SubSeq(bytes, q + 1, q + Len(part)) = part =>
                q + Len(part) \in EndsAfter(bytes, bits, units, before, i)
<1>1. ASSUME NEW e \in EndsAfter(bytes, bits, units, before, i) PROVE e \in Nat
  <2>1. PICK s \in {before} \X Becomes(bits, units, i) : e \in EndsWith(bytes, s[1], s[2])
    BY Zenon DEF EndsAfter
  <2>2. s[1] = before /\ s[2] \in Becomes(bits, units, i)
    OBVIOUS
  <2>3. PICK p \in before : e = p + Len(s[2])
    BY Zenon, <2>1, <2>2 DEF EndsWith
  <2>4. s[2] \in Seq(Bytes)
    BY Zenon, <2>2, BecomesBytes
  <2>5. Len(s[2]) \in Nat /\ p \in Nat
    BY <2>4
  <2> QED BY <2>3, <2>5
<1>2. ASSUME NEW q \in before, NEW part \in Becomes(bits, units, i),
             q + Len(part) <= Len(bytes), SubSeq(bytes, q + 1, q + Len(part)) = part
      PROVE  q + Len(part) \in EndsAfter(bytes, bits, units, before, i)
  <2>1. PICK s : s = <<before, part>>
    OBVIOUS
  <2>2. s \in {before} \X Becomes(bits, units, i) /\ s[1] = before /\ s[2] = part
    BY <2>1
  <2>3. q + Len(part) \in EndsWith(bytes, before, part)
    BY Zenon, <1>2 DEF EndsWith
  <2> QED BY Zenon, <2>2, <2>3 DEF EndsAfter
<1> QED BY <1>1, <1>2

\* A text that all of its units have been converted to is made of what they became.
LEMMA PureIsMade ==
  ASSUME NEW bits \in {8, 16, 32}, NEW units \in Seq(UnitSet(bits)), NEW limit \in Nat,
         NEW f, IsPure(f, bits, units, limit), f[Len(units)].pos = Len(units)
  PROVE  IsMadeOf(f[Len(units)].out, bits, units)
<1>1. PICK n \in Nat : n = Len(units)
  OBVIOUS
<1>2. PICK bytes : bytes = f[Len(units)].out
  OBVIOUS
<1>3. \A k \in 0 .. n : f[k] \in PureStates(units)
  BY <1>1, PureAdvances
<1>4. bytes \in Seq(Bytes)
  <2>1. Len(units) \in 0 .. n
    BY <1>1
  <2> QED BY <1>2, <1>3, <2>1, PureStateIs
<1> DEFINE F(t) == t = [i \in 0 .. Len(units) |->
                          IF i = 0 THEN {0}
                          ELSE UNION {EndsWith(bytes, s[1], s[2]) : s \in {t[i - 1]} \X Becomes(bits, units, i)}]
           ends == CHOOSE t : F(t)
<1>5. IsMadeOf(bytes, bits, units) <=> Len(bytes) \in ends[Len(units)]
  BY DEF IsMadeOf
<1>6. \A t : F(t) <=> t = [i \in 0 .. n |-> IF i = 0 THEN {0} ELSE EndsAfter(bytes, bits, units, t[i - 1], i)]
  BY Zenon, <1>1 DEF EndsAfter
<1> HIDE DEF F
<1>7. PICK S : S = SUBSET Nat
  OBVIOUS
<1>8. {0} \in S
  BY <1>7
<1>9. ASSUME NEW i \in 1 .. n, NEW x \in S PROVE EndsAfter(bytes, bits, units, x, i) \in S
  BY <1>1, <1>4, <1>7, EndsAfterIs
<1>10. \E t \in [0 .. n -> S] : F(t)
  <2>1. PICK G : G = [x \in Nat \X S |-> IF x[1] \in 1 .. n THEN EndsAfter(bytes, bits, units, x[2], x[1]) ELSE {0}]
    OBVIOUS
  <2>2. ASSUME NEW x \in Nat \X S PROVE G[x] \in S
    <3>1. x[2] \in S
      OBVIOUS
    <3>2. CASE x[1] \in 1 .. n
      BY <1>9, <2>1, <3>1, <3>2
    <3>3. CASE ~(x[1] \in 1 .. n)
      BY <1>8, <2>1, <3>3
    <3> QED BY <3>2, <3>3
  <2>3. G \in [Nat \X S -> S]
    BY <2>1, <2>2
  <2>4. PICK g \in [0 .. n -> S] : Turns(g, G, {0}, n)
    BY <1>8, <2>3, TurnsExist
  <2>5. ASSUME NEW k \in 0 .. n
        PROVE  g[k] = IF k = 0 THEN {0} ELSE EndsAfter(bytes, bits, units, g[k - 1], k)
    <3>1. CASE k = 0
      BY <2>4, <3>1 DEF Turns
    <3>2. CASE k # 0
      <4>1. k \in 1 .. n /\ k - 1 \in 0 .. n /\ k \in Nat
        BY <3>2
      <4>2. g[k] = G[<<k, g[k - 1]>>] /\ g[k - 1] \in S
        BY <2>4, <4>1 DEF Turns
      <4>3. G[<<k, g[k - 1]>>] = EndsAfter(bytes, bits, units, g[k - 1], k)
        BY <2>1, <4>1, <4>2
      <4> QED BY <3>2, <4>2, <4>3
    <3> QED BY <3>1, <3>2
  <2>6. g = [k \in 0 .. n |-> IF k = 0 THEN {0} ELSE EndsAfter(bytes, bits, units, g[k - 1], k)]
    BY <2>4, <2>5
  <2> QED BY <1>6, <2>6
<1>11. F(ends)
  BY <1>10
<1> HIDE DEF ends
<1>12. ends[0] = {0} /\ \A k \in 1 .. n : ends[k] = EndsAfter(bytes, bits, units, ends[k - 1], k)
  <2>1. ends = [k \in 0 .. n |-> IF k = 0 THEN {0} ELSE EndsAfter(bytes, bits, units, ends[k - 1], k)]
    BY Zenon, <1>6, <1>11
  <2>2. ASSUME NEW k \in 0 .. n
        PROVE  ends[k] = IF k = 0 THEN {0} ELSE EndsAfter(bytes, bits, units, ends[k - 1], k)
    BY Zenon, <2>1
  <2>3. 0 \in 0 .. n /\ \A k \in 1 .. n : k \in 0 .. n /\ k # 0
    OBVIOUS
  <2> QED BY Zenon, <2>2, <2>3
<1> DEFINE U == {k \in 0 .. n : ends[k] \in S}
<1>13. U = 0 .. n
  <2>1. 0 \in U
    <3>1. 0 \in 0 .. n
      OBVIOUS
    <3>2. ends[0] \in S
      BY <1>8, <1>12
    <3> QED BY <3>1, <3>2
  <2>2. ASSUME NEW k \in 1 .. n, k - 1 \in U PROVE k \in U
    BY <1>9, <1>12, <2>2
  <2>3. U \in SUBSET (0 .. n)
    OBVIOUS
  <2> HIDE DEF U
  <2> QED BY <2>1, <2>2, <2>3, UpTo
<1>14. ASSUME NEW i \in 1 .. n, NEW q \in ends[i - 1], NEW part \in Becomes(bits, units, i),
              q + Len(part) <= Len(bytes), SubSeq(bytes, q + 1, q + Len(part)) = part
       PROVE  q + Len(part) \in ends[i]
  <2>1. i - 1 \in 0 .. n /\ i \in 1 .. Len(units)
    BY <1>1
  <2>2. ends[i - 1] \in SUBSET Nat
    BY <1>7, <1>13, <2>1
  <2>3. ends[i] = EndsAfter(bytes, bits, units, ends[i - 1], i)
    BY <1>12
  <2>4. q + Len(part) \in EndsAfter(bytes, bits, units, ends[i - 1], i)
    BY Zenon, <1>4, <1>14, <2>1, <2>2, EndsAfterIs
  <2> QED BY <2>3, <2>4
<1> HIDE DEF U
<1> DEFINE T == {k \in 0 .. n : Len(f[k].out) \in ends[f[k].pos]}
<1>15. 0 \in T
  <2>1. f[0].out = <<>> /\ f[0].pos = 0
    BY DEF IsPure, PureStart
  <2>2. Len(<<>>) = 0
    OBVIOUS
  <2> QED BY <1>12, <2>1, <2>2
<1>16. ASSUME NEW k \in 1 .. n, k - 1 \in T PROVE k \in T
  <2>1. PICK p : p = f[k - 1]
    OBVIOUS
  <2>2. PICK s : s = f[k]
    OBVIOUS
  <2>3. k - 1 \in 0 .. n /\ k \in 0 .. n
    OBVIOUS
  <2>4. s = PureTurn(bits, units, p) /\ p \in PureStates(units)
    BY <1>1, <1>3, <2>1, <2>2, <2>3 DEF IsPure
  <2>5. Len(p.out) \in ends[p.pos]
    BY <1>16, <2>1
  <2>6. Len(s.out) \in ends[s.pos]
    <3>1. CASE Over(units, p)
      <4>1. s = p
        BY <2>4, <3>1, PureTurnIs
      <4> QED BY <2>5, <4>1
    <3>2. CASE ~Over(units, p)
      <4>1. PICK d : d = DecodeIn(bits, Rest(units, p))
        OBVIOUS
      <4>2. s = PureStep(p, d) /\ Right(bits, Rest(units, p), d)
        BY ZenonT(40), <2>4, <3>2, <4>1, PureTurnIs
      <4>3. PICK b : b = EncodeSafe(d.code).bytes
        OBVIOUS
      <4>4. s.out = p.out \o b /\ s.pos = p.pos + d.used
        BY <4>2, <4>3 DEF PureStep
      <4>5. b \in Becomes(bits, units, p.pos + 1) /\ \A i \in 2 .. d.used : <<>> \in Becomes(bits, units, p.pos + i)
        BY <2>4, <3>2, <4>2, <4>3, BecomesIs
      <4>6. PICK x \in Seq(Bytes) : x = p.out
        BY <2>4, PureStateIs
      <4>7. b \in Seq(Bytes)
        BY <4>2, <4>3, EncodeSafeIs DEF Right
      <4>8. PICK lx \in Nat : lx = Len(x)
        OBVIOUS
      <4>9. PICK lb \in Nat : lb = Len(b)
        BY <4>7
      <4>10. PICK q \in Nat : q = p.pos
        BY <2>4, PureStateIs
      <4>11. d.used \in 1 .. n - q
        <5>1. Len(Rest(units, p)) = n - q
          BY <1>1, <2>4, <4>10, PureRest
        <5> QED BY <4>2, <5>1 DEF Right
      <4>12. PICK u \in 1 .. n - q : u = d.used
        BY <4>11
      <4>13. PICK y \in Seq(Bytes) : y = s.out
        BY <4>4, <4>6, <4>7, ConcatIn
      <4>14. Len(y) = lx + lb /\ (\A i \in 1 .. lx : y[i] = x[i]) /\ (\A i \in 1 .. lb : y[lx + i] = b[i])
        BY <4>4, <4>6, <4>7, <4>8, <4>9, <4>13, ConcatIs
      <4>15. lx + lb <= Len(bytes) /\ \A i \in 1 .. lx + lb : bytes[i] = y[i]
        <5>1. EndsIn(s, f[Len(units)], units)
          BY <1>1, <2>2, <2>3, PureEnds
        <5>2. Starts(y, bytes)
          BY <1>2, <4>13, <5>1 DEF EndsIn
        <5> QED BY <4>14, <5>2 DEF Starts
      <4>16. PICK size \in Nat : size = Len(bytes)
        BY <1>4
      <4>17. SubSeq(bytes, lx + 1, lx + lb) = b
        <5>1. PICK z : z = SubSeq(bytes, lx + 1, lx + lb)
          OBVIOUS
        <5>2. z \in Seq(Bytes) /\ Len(z) = lb /\ \A i \in 1 .. lb : z[i] = bytes[lx + i]
          BY <1>4, <4>15, <4>16, <5>1
        <5>3. \A i \in 1 .. lb : bytes[lx + i] = b[i]
          <6>1. \A i \in 1 .. lb : lx + i \in 1 .. lx + lb
            OBVIOUS
          <6> QED BY <4>14, <4>15, <6>1
        <5>4. Len(z) = Len(b) /\ \A i \in 1 .. Len(z) : z[i] = b[i]
          BY <4>9, <5>2, <5>3
        <5>5. z = b
          BY Zenon, <4>7, <5>2, <5>4, SameSeq
        <5> QED BY <5>1, <5>5
      <4>18. PICK e \in Nat : e = lx + lb /\ e <= size
        BY <4>15, <4>16
      <4>19. e \in ends[q + 1]
        <5>1. q + 1 \in 1 .. n /\ (q + 1) - 1 = q
          BY <4>12
        <5>2. lx \in ends[(q + 1) - 1]
          BY <2>5, <4>6, <4>8, <4>10, <5>1
        <5> QED BY Zenon, <1>14, <4>5, <4>9, <4>10, <4>16, <4>17, <4>18, <5>1, <5>2
      <4>20. ASSUME NEW i \in 2 .. u, e \in ends[(q + i) - 1] PROVE e \in ends[q + i]
        <5>1. q + i \in 1 .. n
          BY <4>12
        <5>2. <<>> \in Becomes(bits, units, q + i)
          BY <4>5, <4>10, <4>12
        <5>3. Len(<<>>) = 0 /\ e + Len(<<>>) = e /\ SubSeq(bytes, e + 1, e + Len(<<>>)) = <<>>
          <6>1. Len(<<>>) = 0 /\ e + 0 = e /\ e < e + 1
            OBVIOUS
          <6>2. SubSeq(bytes, e + 1, e) = <<>>
            BY <1>4, <6>1
          <6> QED BY <6>1, <6>2
        <5> QED BY Zenon, <1>14, <4>16, <4>18, <4>20, <5>1, <5>2, <5>3
      <4> DEFINE W == {i \in 0 .. u - 1 : e \in ends[q + (i + 1)]}
      <4>21. u - 1 \in Nat
        OBVIOUS
      <4>22. 0 \in W
        <5>1. 0 + 1 = 1 /\ 0 \in 0 .. u - 1
          OBVIOUS
        <5> QED BY Zenon, <4>19, <5>1
      <4>23. ASSUME NEW i \in 1 .. u - 1, i - 1 \in W PROVE i \in W
        <5>1. i + 1 \in 2 .. u /\ (q + (i + 1)) - 1 = q + ((i - 1) + 1) /\ i \in 0 .. u - 1
          OBVIOUS
        <5>2. e \in ends[q + ((i - 1) + 1)]
          BY <4>23
        <5>3. e \in ends[q + (i + 1)]
          BY Zenon, <4>20, <5>1, <5>2
        <5> QED BY Zenon, <5>1, <5>3
      <4> HIDE DEF W
      <4>24. W = 0 .. (u - 1)
        <5>1. W \in SUBSET (0 .. (u - 1))
          BY DEF W
        <5> QED BY <4>21, <4>22, <4>23, <5>1, UpTo
      <4>25. e \in ends[q + u]
        <5>1. u - 1 \in W /\ (u - 1) + 1 = u
          BY <4>21, <4>24
        <5> QED BY <5>1 DEF W
      <4> QED BY <4>4, <4>10, <4>12, <4>13, <4>14, <4>18, <4>25
    <3> QED BY <3>1, <3>2
  <2> QED BY <2>2, <2>6
<1> HIDE DEF T
<1>17. T = 0 .. n
  <2>1. T \in SUBSET (0 .. n)
    BY DEF T
  <2> QED BY <1>15, <1>16, <2>1, UpTo
<1>18. n \in T
  BY <1>17
<1>19. Len(bytes) \in ends[Len(units)]
  BY <1>1, <1>2, <1>18 DEF T
<1> QED BY <1>2, <1>5, <1>19

-----------------------------------------------------------------------------
(* A whole text. *)

\* Every turn spends one of the characters that are left, and writes something.
LEMMA PureLeft ==
  ASSUME NEW bits \in {8, 16, 32}, NEW units \in Seq(UnitSet(bits)), NEW limit \in Nat,
         NEW f, IsPure(f, bits, units, limit)
  PROVE  \A k \in 0 .. Len(units) : limit <= f[k].left + Len(f[k].out)
<1>1. PICK n \in Nat : n = Len(units)
  OBVIOUS
<1>2. \A k \in 0 .. n : f[k] \in PureStates(units)
  BY <1>1, PureAdvances
<1> DEFINE T == {k \in 0 .. n : limit <= f[k].left + Len(f[k].out)}
<1>3. 0 \in T
  <2>1. f[0].out = <<>> /\ f[0].left = limit
    BY DEF IsPure, PureStart
  <2>2. Len(<<>>) = 0 /\ limit <= limit + 0
    OBVIOUS
  <2> QED BY <2>1, <2>2
<1>4. ASSUME NEW k \in 1 .. n, k - 1 \in T PROVE k \in T
  <2>1. PICK p : p = f[k - 1]
    OBVIOUS
  <2>2. PICK s : s = f[k]
    OBVIOUS
  <2>3. k - 1 \in 0 .. n
    OBVIOUS
  <2>4. s = PureTurn(bits, units, p) /\ p \in PureStates(units)
    BY <1>1, <1>2, <2>1, <2>2, <2>3 DEF IsPure
  <2>5. limit <= p.left + Len(p.out)
    BY <1>4, <2>1
  <2>6. limit <= s.left + Len(s.out)
    <3>1. CASE Over(units, p)
      <4>1. s = p
        BY <2>4, <3>1, PureTurnIs
      <4> QED BY <2>5, <4>1
    <3>2. CASE ~Over(units, p)
      <4>1. PICK d : d = DecodeIn(bits, Rest(units, p))
        OBVIOUS
      <4>2. s = PureStep(p, d) /\ Right(bits, Rest(units, p), d)
        BY Zenon, <2>4, <3>2, <4>1, PureTurnIs
      <4>3. PICK b : b = EncodeSafe(d.code).bytes
        OBVIOUS
      <4>4. s.out = p.out \o b /\ s.left = p.left - 1
        BY <4>2, <4>3 DEF PureStep
      <4>5. b \in Seq(Bytes) /\ Len(b) \in Nat /\ Len(b) >= 1
        BY <4>2, <4>3, EncodeSafeIs DEF Right
      <4>6. Len(s.out) = Len(p.out) + Len(b)
        BY <2>4, <4>4, <4>5, PureStateIs, ConcatLen
      <4>7. PICK x \in Nat : x = Len(p.out)
        BY <2>4, PureStateIs
      <4>8. PICK y \in Nat : y = p.left
        BY <2>4, PureStateIs
      <4>9. PICK m \in Nat : m = Len(b) /\ m >= 1
        BY <4>5
      <4>10. limit <= y + x
        BY <2>5, <4>7, <4>8
      <4>11. limit <= (y - 1) + (x + m)
        BY <4>9, <4>10
      <4>12. Len(s.out) = x + m /\ s.left = y - 1
        BY Zenon, <4>4, <4>6, <4>7, <4>8, <4>9
      <4> QED BY <4>11, <4>12
    <3> QED BY <3>1, <3>2
  <2> QED BY <2>2, <2>6
<1> HIDE DEF T
<1>5. T = 0 .. n
  <2>1. T \in SUBSET (0 .. n)
    BY DEF T
  <2> QED BY <1>3, <1>4, <2>1, UpTo
<1> QED BY <1>1, <1>5 DEF T

\* A conversion that may write more characters than there is room for, and tells
\* no error, has converted all of the text.
LEMMA WholeIsMade ==
  ASSUME NEW bits \in {8, 16, 32}, NEW units \in Seq(UnitSet(bits)), NEW limit \in Nat, NEW room \in Nat, room < limit,
         NEW f, IsPure(f, bits, units, limit), NEW c, NEW j \in 0 .. Len(units),
         StopsAt(c, f, j, units, room), c.error = "none"
  PROVE  IsMadeOf(c.out, bits, units)
<1>1. PICK p : p = f[j]
  OBVIOUS
<1>2. p \in PureStates(units)
  BY <1>1, PureAdvances
<1>3. c.out = p.out /\ Over(units, p) /\ Len(p.out) <= room
  BY <1>1 DEF StopsAt
<1>4. limit <= p.left + Len(p.out)
  BY <1>1, PureLeft
<1>5. p.left # 0
  <2>1. PICK x \in Nat : x = Len(p.out)
    BY <1>2, PureStateIs
  <2>2. p.left \in Nat
    BY <1>2, PureStateIs
  <2> QED BY <1>3, <1>4, <2>1, <2>2
<1>6. p.pos = Len(units)
  BY <1>3, <1>5 DEF Over
<1>7. p = f[Len(units)]
  BY <1>1, <1>3, PureEnds DEF EndsIn
<1> QED BY <1>3, <1>6, <1>7, PureIsMade

\* Nothing is made of nothing.
LEMMA NothingIsMade == ASSUME NEW bits \in {8, 16, 32} PROVE IsMadeOf(<<>>, bits, <<>>)
<1>1. <<>> \in Seq(UnitSet(bits)) /\ Len(<<>>) = 0 /\ 0 \in Nat
  OBVIOUS
<1>2. PICK f : IsPure(f, bits, <<>>, 0)
  BY <1>1, PureExists
<1>3. f[0].pos = 0 /\ f[0].out = <<>>
  BY <1>2 DEF IsPure, PureStart
<1> QED BY Zenon, <1>1, <1>2, <1>3, PureIsMade

-----------------------------------------------------------------------------
\* The first k of some sequences, one after the other.
FirstOf(ss, k) == FlattenSeq([i \in 1 .. k |-> ss[i]])

\* One more of the sequences.
LEMMA FirstOfIs ==
  ASSUME NEW S, NEW ss \in Seq(Seq(S))
  PROVE  /\ FirstOf(ss, 0) = <<>>
         /\ \A k \in 1 .. Len(ss) : FirstOf(ss, k) = FirstOf(ss, k - 1) \o ss[k]
         /\ \A k \in 0 .. Len(ss) : FirstOf(ss, k) \in Seq(S)
         /\ FirstOf(ss, Len(ss)) = FlattenSeq(ss)
<1>1. PICK R : R = Seq(S)
  OBVIOUS
<1>2. ss \in Seq(R)
  BY <1>1
<1>3. PICK n \in Nat : n = Len(ss)
  OBVIOUS
<1>4. FirstOf(ss, 0) = <<>>
  <2>1. [i \in 1 .. 0 |-> ss[i]] = <<>>
    OBVIOUS
  <2> QED BY <2>1 DEF FirstOf, FlattenSeq
<1>5. ASSUME NEW k \in 0 .. n PROVE FirstOf(ss, k) \in Seq(S)
  <2>1. PICK s : s = [i \in 1 .. k |-> ss[i]]
    OBVIOUS
  <2>2. s \in Seq(R)
    BY <1>2, <1>3, <2>1
  <2>3. s \in Seq(Seq(S)) /\ <<>> \in Seq(S)
    BY <1>1, <2>2
  <2> QED BY Zenon, <2>1, <2>3, FlattenAppend DEF FirstOf
<1>6. ASSUME NEW k \in 1 .. n PROVE FirstOf(ss, k) = FirstOf(ss, k - 1) \o ss[k]
  <2>1. PICK s : s = [i \in 1 .. k - 1 |-> ss[i]]
    OBVIOUS
  <2>2. s \in Seq(R) /\ Len(s) = k - 1 /\ ss[k] \in R /\ \A i \in 1 .. k - 1 : s[i] = ss[i]
    BY <1>2, <1>3, <2>1
  <2>3. PICK t : t = [i \in 1 .. k |-> ss[i]]
    OBVIOUS
  <2>4. t \in Seq(R) /\ Len(t) = k /\ \A i \in 1 .. k : t[i] = ss[i]
    BY <1>2, <1>3, <2>3
  <2>5. PICK u : u = Append(s, ss[k])
    OBVIOUS
  <2>6. u \in Seq(R) /\ Len(u) = k /\ \A i \in 1 .. k : u[i] = ss[i]
    <3>1. u \in Seq(R) /\ Len(u) = (k - 1) + 1 /\ (\A i \in 1 .. k - 1 : u[i] = s[i]) /\ u[(k - 1) + 1] = ss[k]
      BY <2>2, <2>5, AppendIs
    <3> QED BY <2>2, <3>1
  <2>7. t = u
    BY <2>4, <2>6
  <2>8. s \in Seq(Seq(S)) /\ ss[k] \in Seq(S)
    BY <1>1, <2>2
  <2>9. FlattenSeq(Append(s, ss[k])) = FlattenSeq(s) \o ss[k]
    BY <2>8, FlattenAppend
  <2> QED BY Zenon, <2>1, <2>3, <2>5, <2>7, <2>9 DEF FirstOf
<1>7. FirstOf(ss, n) = FlattenSeq(ss)
  <2>1. [i \in 1 .. n |-> ss[i]] = ss
    BY <1>2, <1>3, SeqIsFunction
  <2> QED BY <2>1 DEF FirstOf
<1> QED BY <1>3, <1>4, <1>5, <1>6, <1>7

\* What stands in a text stands in all that begins with it.
LEMMA StandsInConcat ==
  ASSUME NEW S, NEW a \in Seq(S), NEW b \in Seq(S), NEW e \in Seq(S), NEW i \in Nat, i >= 1
  PROVE  /\ StandsAt(a, i, e) => StandsAt(a \o b, i, e)
         /\ StandsAt(a \o b, Len(a) + 1, b)
<1>1. PICK x \in Nat : x = Len(a)
  OBVIOUS
<1>2. PICK y \in Nat : y = Len(b)
  OBVIOUS
<1>3. PICK m \in Nat : m = Len(e)
  OBVIOUS
<1>4. PICK c \in Seq(S) : c = a \o b
  BY ConcatIn
<1>5. Len(c) = x + y /\ (\A j \in 1 .. x : c[j] = a[j]) /\ (\A j \in 1 .. y : c[x + j] = b[j])
  BY <1>1, <1>2, <1>4, ConcatIs
<1>6. ASSUME i + m - 1 <= x, \A j \in 1 .. m : a[i + j - 1] = e[j]
      PROVE  i + m - 1 <= x + y /\ \A j \in 1 .. m : c[i + j - 1] = e[j]
  <2>1. \A j \in 1 .. m : i + j - 1 \in 1 .. x
    BY <1>6
  <2>2. \A j \in 1 .. m : c[i + j - 1] = a[i + j - 1]
    BY <1>5, <2>1
  <2>3. i + m - 1 <= x + y
    BY <1>6
  <2> QED BY Zenon, <1>6, <2>2, <2>3
<1>7. (x + 1) + y - 1 <= x + y /\ \A j \in 1 .. y : c[(x + 1) + j - 1] = b[j]
  <2>1. \A j \in 1 .. y : (x + 1) + j - 1 = x + j
    OBVIOUS
  <2> QED BY <1>5, <2>1
<1>8. StandsAt(a, i, e) => StandsAt(c, i, e)
  BY <1>1, <1>3, <1>5, <1>6 DEF StandsAt
<1>9. StandsAt(c, x + 1, b)
  BY <1>2, <1>5, <1>7 DEF StandsAt
<1> QED BY <1>1, <1>4, <1>8, <1>9

\* Every one of the sequences stands where those before it end.
LEMMA EachStands ==
  ASSUME NEW S, NEW ss \in Seq(Seq(S)), \A k \in 1 .. Len(ss) : Len(ss[k]) >= 1
  PROVE  /\ \A k \in 0 .. Len(ss) : k <= Len(FirstOf(ss, k)) /\ Len(FirstOf(ss, k)) <= Len(FlattenSeq(ss))
         /\ \A k \in 1 .. Len(ss) : /\ Len(FirstOf(ss, k)) = Len(FirstOf(ss, k - 1)) + Len(ss[k])
                                    /\ StandsAt(FlattenSeq(ss), Len(FirstOf(ss, k - 1)) + 1, ss[k])
<1>1. PICK n \in Nat : n = Len(ss)
  OBVIOUS
<1>2. PICK h \in [0 .. n -> Seq(S)] : \A k \in 0 .. n : h[k] = FirstOf(ss, k)
  <2>1. PICK h : h = [k \in 0 .. n |-> FirstOf(ss, k)]
    OBVIOUS
  <2>2. \A k \in 0 .. n : FirstOf(ss, k) \in Seq(S)
    BY <1>1, FirstOfIs
  <2>3. PICK R : R = Seq(S)
    OBVIOUS
  <2>4. h \in [0 .. n -> R] /\ \A k \in 0 .. n : h[k] = FirstOf(ss, k)
    BY <2>1, <2>2, <2>3
  <2> QED BY Zenon, <2>3, <2>4
<1>3. ASSUME NEW k \in 1 .. n PROVE ss[k] \in Seq(S) /\ Len(ss[k]) \in Nat
  <2>1. PICK R : R = Seq(S)
    OBVIOUS
  <2>2. ss \in Seq(R)
    BY <2>1
  <2>3. ss[k] \in Seq(S)
    BY <1>1, <2>1, <2>2
  <2> QED BY <2>3
<1>4. h[0] = <<>> /\ h[n] = FlattenSeq(ss)
  <2>1. 0 \in 0 .. n /\ n \in 0 .. n
    OBVIOUS
  <2>2. FirstOf(ss, 0) = <<>> /\ FirstOf(ss, n) = FlattenSeq(ss)
    BY <1>1, FirstOfIs
  <2> QED BY Zenon, <1>2, <2>1, <2>2
<1>5. ASSUME NEW k \in 1 .. n
      PROVE  /\ h[k - 1] \in Seq(S) /\ h[k] = h[k - 1] \o ss[k]
             /\ Len(h[k - 1]) \in Nat /\ Len(h[k]) = Len(h[k - 1]) + Len(ss[k])
  <2>1. k - 1 \in 0 .. n /\ k \in 0 .. n
    OBVIOUS
  <2>2. h[k] = h[k - 1] \o ss[k]
    <3>1. FirstOf(ss, k) = FirstOf(ss, k - 1) \o ss[k]
      BY <1>1, FirstOfIs
    <3> QED BY Zenon, <1>2, <2>1, <3>1
  <2>3. h[k - 1] \in Seq(S)
    BY <2>1
  <2>4. Len(h[k - 1]) \in Nat
    BY <2>3
  <2> QED BY <1>3, <2>2, <2>3, <2>4, ConcatLen
<1> DEFINE T == {k \in 0 .. n : /\ k <= Len(h[k])
                                /\ \A i \in 0 .. k : Len(h[i]) <= Len(h[k])
                                /\ \A i \in 1 .. k : StandsAt(h[k], Len(h[i - 1]) + 1, ss[i])}
<1>6. 0 \in T
  <2>1. Len(h[0]) = 0
    BY <1>4
  <2>2. 0 <= 0 /\ (\A i \in 0 .. 0 : i = 0) /\ (\A i \in 1 .. 0 : FALSE) /\ 0 \in 0 .. n
    OBVIOUS
  <2> QED BY <2>1, <2>2
<1>7. ASSUME NEW k \in 1 .. n, k - 1 \in T PROVE k \in T
  <2>1. PICK a \in Seq(S) : a = h[k - 1]
    BY <1>5
  <2>2. PICK b \in Seq(S) : b = ss[k]
    BY <1>3
  <2>3. PICK x \in Nat : x = Len(a)
    OBVIOUS
  <2>4. PICK y \in Nat : y = Len(b) /\ y >= 1
    BY <1>1, <2>2
  <2>5. h[k] = a \o b /\ Len(h[k]) = x + y
    BY <1>5, <2>1, <2>2, <2>3, <2>4
  <2>6. /\ k - 1 <= x /\ (\A i \in 0 .. k - 1 : Len(h[i]) <= x)
        /\ \A i \in 1 .. k - 1 : StandsAt(a, Len(h[i - 1]) + 1, ss[i])
    BY <1>7, <2>1, <2>3
  <2>7. k <= x + y
    BY <2>4, <2>6
  <2>8. ASSUME NEW i \in 0 .. k PROVE Len(h[i]) <= x + y
    <3>1. CASE i = k
      BY <2>5, <3>1
    <3>2. CASE i # k
      <4>1. i \in 0 .. k - 1 /\ i \in 0 .. n
        BY <3>2
      <4>2. Len(h[i]) \in Nat /\ Len(h[i]) <= x
        BY <2>6, <4>1
      <4> QED BY <2>4, <4>2
    <3> QED BY <3>1, <3>2
  <2>9. ASSUME NEW i \in 1 .. k PROVE StandsAt(a \o b, Len(h[i - 1]) + 1, ss[i])
    <3>1. CASE i = k
      <4>1. 1 \in Nat /\ 1 >= 1
        OBVIOUS
      <4>2. StandsAt(a \o b, x + 1, b)
        BY <2>3, <4>1, StandsInConcat
      <4> QED BY <2>1, <2>2, <2>3, <3>1, <4>2
    <3>2. CASE i # k
      <4>1. i \in 1 .. k - 1 /\ i - 1 \in 0 .. n /\ i \in 1 .. n
        BY <3>2
      <4>2. PICK at \in Nat : at = Len(h[i - 1]) + 1 /\ at >= 1
        BY <4>1
      <4>3. StandsAt(a, at, ss[i]) /\ ss[i] \in Seq(S)
        BY <1>3, <2>6, <4>1, <4>2
      <4> QED BY <4>2, <4>3, StandsInConcat
    <3> QED BY <3>1, <3>2
  <2>10. k \in 0 .. n
    OBVIOUS
  <2> QED BY <2>5, <2>7, <2>8, <2>9, <2>10
<1> HIDE DEF T
<1>8. T = 0 .. n
  <2>1. T \in SUBSET (0 .. n)
    BY DEF T
  <2> QED BY <1>6, <1>7, <2>1, UpTo
<1>9. ASSUME NEW k \in 0 .. n PROVE k <= Len(h[k]) /\ Len(h[k]) <= Len(h[n])
  <2>1. k \in T /\ n \in T /\ k \in 0 .. n
    BY <1>8
  <2> QED BY <2>1 DEF T
<1>10. ASSUME NEW k \in 1 .. n PROVE StandsAt(h[n], Len(h[k - 1]) + 1, ss[k])
  <2>1. n \in T
    BY <1>8
  <2> QED BY <2>1 DEF T
<1>11. \A k \in 1 .. n : k - 1 \in 0 .. n /\ k \in 0 .. n
  OBVIOUS
<1> QED BY Zenon, <1>1, <1>2, <1>4, <1>5, <1>9, <1>10, <1>11

\* The units of the characters of a text, and what they are written as.
UnitsEach(bits, chars) == [i \in DOMAIN chars |-> EncodeIn(bits, chars[i])]
BytesEach(chars)       == [i \in DOMAIN chars |-> EncodeSafe(chars[i]).bytes]

\* The units and the bytes of each character.
LEMMA EachIs ==
  ASSUME NEW bits \in {8, 16, 32}, NEW chars \in Seq(CodePoints)
  PROVE  /\ UnitsEach(bits, chars) \in Seq(Seq(UnitSet(bits))) /\ Len(UnitsEach(bits, chars)) = Len(chars)
         /\ BytesEach(chars) \in Seq(Seq(Bytes)) /\ Len(BytesEach(chars)) = Len(chars)
         /\ \A i \in 1 .. Len(chars) : /\ UnitsEach(bits, chars)[i] = EncodeIn(bits, chars[i])
                                       /\ BytesEach(chars)[i] = EncodeSafe(chars[i]).bytes
                                       /\ chars[i] \in CodePoints
                                       /\ Len(EncodeIn(bits, chars[i])) \in Nat /\ Len(EncodeIn(bits, chars[i])) >= 1
<1>1. PICK C : C = CodePoints
  OBVIOUS
<1>2. chars \in Seq(C)
  BY <1>1
<1>3. PICK m \in Nat : m = Len(chars)
  BY <1>2
<1>4. DOMAIN chars = 1 .. m /\ \A i \in 1 .. m : chars[i] \in C
  BY <1>2, <1>3
<1>5. PICK R : R = Seq(UnitSet(bits))
  OBVIOUS
<1>6. PICK Q : Q = Seq(Bytes)
  OBVIOUS
<1>7. PICK us : us = UnitsEach(bits, chars)
  OBVIOUS
<1>8. PICK bs : bs = BytesEach(chars)
  OBVIOUS
<1>9. us = [i \in 1 .. m |-> EncodeIn(bits, chars[i])] /\ bs = [i \in 1 .. m |-> EncodeSafe(chars[i]).bytes]
  BY Zenon, <1>4, <1>7, <1>8 DEF UnitsEach, BytesEach
<1>10. ASSUME NEW i \in 1 .. m
       PROVE  /\ chars[i] \in CodePoints /\ EncodeIn(bits, chars[i]) \in R /\ EncodeSafe(chars[i]).bytes \in Q
              /\ Len(EncodeIn(bits, chars[i])) \in Nat /\ Len(EncodeIn(bits, chars[i])) >= 1
  <2>1. PICK cp \in CodePoints : cp = chars[i]
    BY Zenon, <1>1, <1>4
  <2>2. PICK e \in Seq(UnitSet(bits)), k \in 1 .. 4 : e = EncodeIn(bits, cp) /\ k = Len(e)
    BY Zenon, EncodeInIs
  <2>3. k \in Nat /\ k >= 1
    OBVIOUS
  <2>4. EncodeSafe(cp).bytes \in Seq(Bytes)
    BY SMT, EncodeSafeIs
  <2> QED BY Zenon, <1>5, <1>6, <2>1, <2>2, <2>3, <2>4
<1>11. us \in Seq(R) /\ Len(us) = m /\ bs \in Seq(Q) /\ Len(bs) = m
  BY <1>9, <1>10
<1>12. ASSUME NEW i \in 1 .. m PROVE us[i] = EncodeIn(bits, chars[i]) /\ bs[i] = EncodeSafe(chars[i]).bytes
  BY Zenon, <1>9
<1> QED BY Zenon, <1>3, <1>5, <1>6, <1>7, <1>8, <1>10, <1>11, <1>12

\* What the first k characters are written as.
LEMMA PlainIs ==
  ASSUME NEW chars \in Seq(CodePoints), NEW k \in 0 .. Len(chars)
  PROVE  Plain(SubSeq(chars, 1, k)) = FirstOf(BytesEach(chars), k)
<1>1. PICK C : C = CodePoints
  OBVIOUS
<1>2. chars \in Seq(C)
  BY <1>1
<1>3. PICK s : s = SubSeq(chars, 1, k)
  OBVIOUS
<1>4. DOMAIN s = 1 .. k /\ \A i \in 1 .. k : s[i] = chars[i]
  BY <1>2, <1>3
<1>5. \A i \in 1 .. k : i \in DOMAIN chars
  BY <1>2
<1>6. \A i \in 1 .. k : BytesEach(chars)[i] = EncodeSafe(chars[i]).bytes
  BY Zenon, <1>5 DEF BytesEach
<1>7. [i \in DOMAIN s |-> EncodeSafe(s[i]).bytes] = [i \in 1 .. k |-> BytesEach(chars)[i]]
  <2>1. \A i \in 1 .. k : EncodeSafe(s[i]).bytes = BytesEach(chars)[i]
    BY Zenon, <1>4, <1>6
  <2> QED BY Zenon, <1>4, <2>1
<1> QED BY Zenon, <1>3, <1>7 DEF Plain, FirstOf

\* After k turns the first k characters have been converted.
HasConverted(p, us, bs, limit, k) ==
  p.pos = Len(FirstOf(us, k)) /\ p.out = FirstOf(bs, k) /\ p.left = limit - k

\* That is so for every k up to the precision and the characters there are.
LEMMA CharsConverted ==
  ASSUME NEW bits \in {8, 16, 32}, NEW chars \in Seq(CodePoints), NEW units, units = UnitsOf(bits, chars),
         NEW limit \in Nat, NEW f, IsPure(f, bits, units, limit), NEW n \in Nat, n <= limit, n <= Len(chars)
  PROVE  n <= Len(units) /\ HasConverted(f[n], UnitsEach(bits, chars), BytesEach(chars), limit, n)
<1>1. PICK us : us = UnitsEach(bits, chars)
  OBVIOUS
<1>2. PICK bs : bs = BytesEach(chars)
  OBVIOUS
<1>3. PICK m \in Nat : m = Len(chars)
  <2>1. Len(chars) \in Nat
    OBVIOUS
  <2> QED BY <2>1
<1>4. us \in Seq(Seq(UnitSet(bits))) /\ Len(us) = m /\ bs \in Seq(Seq(Bytes)) /\ Len(bs) = m
  BY Zenon, <1>1, <1>2, <1>3, EachIs
<1>5. ASSUME NEW i \in 1 .. m
      PROVE  /\ us[i] = EncodeIn(bits, chars[i]) /\ bs[i] = EncodeSafe(chars[i]).bytes /\ chars[i] \in CodePoints
             /\ Len(us[i]) \in Nat /\ Len(us[i]) >= 1
  <2>1. /\ us[i] = EncodeIn(bits, chars[i]) /\ bs[i] = EncodeSafe(chars[i]).bytes /\ chars[i] \in CodePoints
        /\ Len(EncodeIn(bits, chars[i])) \in Nat /\ Len(EncodeIn(bits, chars[i])) >= 1
    <3>1. i \in 1 .. Len(chars)
      BY <1>3
    <3> QED BY Zenon, <1>1, <1>2, <3>1, EachIs
  <2>2. Len(us[i]) = Len(EncodeIn(bits, chars[i]))
    BY Zenon, <2>1
  <2> QED BY Zenon, <2>1, <2>2
<1>6. units = FlattenSeq(us)
  BY Zenon, <1>1 DEF UnitsOf, UnitsEach
<1>7. units \in Seq(UnitSet(bits))
  <2>1. FlattenSeq(us) = FirstOf(us, m) /\ FirstOf(us, m) \in Seq(UnitSet(bits))
    <3>1. m \in 0 .. m
      OBVIOUS
    <3> QED BY Zenon, <1>4, <3>1, FirstOfIs
  <2> QED BY Zenon, <1>6, <2>1
<1>8. PICK size \in Nat : size = Len(units)
  BY <1>7
<1>9. ASSUME NEW k \in 0 .. m PROVE k <= Len(FirstOf(us, k)) /\ Len(FirstOf(us, k)) <= size
  BY Zenon, <1>4, <1>5, <1>6, <1>8, EachStands
<1>10. ASSUME NEW k \in 1 .. m
       PROVE  /\ Len(FirstOf(us, k)) = Len(FirstOf(us, k - 1)) + Len(us[k])
              /\ StandsAt(units, Len(FirstOf(us, k - 1)) + 1, us[k])
  BY Zenon, <1>4, <1>5, <1>6, EachStands
<1>11. ASSUME NEW k \in 0 .. m PROVE Len(FirstOf(us, k)) \in Nat
  <2>1. FirstOf(us, k) \in Seq(UnitSet(bits))
    BY Zenon, <1>4, FirstOfIs
  <2> QED BY <2>1
<1>12. n \in 0 .. m /\ n <= size
  <2>1. n \in 0 .. m
    BY <1>3
  <2> QED BY <1>9, <1>11, <2>1
<1>13. \A k \in 0 .. size : f[k] \in PureStates(units)
  BY <1>7, <1>8, PureAdvances
<1> DEFINE T == {k \in 0 .. n : HasConverted(f[k], us, bs, limit, k)}
<1>14. 0 \in T
  <2>1. f[0].pos = 0 /\ f[0].out = <<>> /\ f[0].left = limit
    BY DEF IsPure, PureStart
  <2>2. FirstOf(us, 0) = <<>> /\ FirstOf(bs, 0) = <<>>
    BY Zenon, <1>4, FirstOfIs
  <2>3. Len(<<>>) = 0 /\ limit = limit - 0 /\ 0 \in 0 .. n
    OBVIOUS
  <2>4. HasConverted(f[0], us, bs, limit, 0)
    BY Zenon, <2>1, <2>2, <2>3 DEF HasConverted
  <2> QED BY <2>3, <2>4
<1>15. ASSUME NEW k \in 1 .. n, k - 1 \in T PROVE k \in T
  <2>1. PICK p : p = f[k - 1]
    OBVIOUS
  <2>2. PICK s : s = f[k]
    OBVIOUS
  <2>3. k - 1 \in 0 .. size /\ k \in 1 .. size /\ k \in 1 .. m /\ k - 1 \in 0 .. m /\ k \in 0 .. n
    BY <1>12
  <2>4. s = PureTurn(bits, units, p) /\ p \in PureStates(units)
    BY <1>8, <1>13, <2>1, <2>2, <2>3 DEF IsPure
  <2>5. p.pos = Len(FirstOf(us, k - 1)) /\ p.out = FirstOf(bs, k - 1) /\ p.left = limit - (k - 1)
    BY <1>15, <2>1 DEF HasConverted
  <2>6. PICK q \in Nat : q = Len(FirstOf(us, k - 1))
    BY <1>11, <2>3
  <2>7. PICK e \in Seq(UnitSet(bits)) : e = us[k]
    <3>1. PICK R : R = Seq(UnitSet(bits))
      OBVIOUS
    <3>2. us \in Seq(R)
      BY <1>4, <3>1
    <3>3. us[k] \in R
      BY <1>4, <2>3, <3>2
    <3> QED BY <3>1, <3>3
  <2>8. PICK cp \in CodePoints : cp = chars[k]
    BY Zenon, <1>5, <2>3
  <2>9. e = EncodeIn(bits, cp) /\ bs[k] = EncodeSafe(cp).bytes
    BY Zenon, <1>5, <2>3, <2>7, <2>8
  <2>10. PICK l \in Nat : l = Len(e) /\ l >= 1
    BY <1>5, <2>3, <2>7
  <2>11. Len(FirstOf(us, k)) = q + l /\ StandsAt(units, q + 1, e) /\ q + l <= size
    <3>1. Len(FirstOf(us, k)) = q + l /\ StandsAt(units, q + 1, e)
      BY Zenon, <1>10, <2>3, <2>6, <2>7, <2>10
    <3>2. k \in 0 .. m
      BY <2>3
    <3>3. Len(FirstOf(us, k)) <= size
      BY Zenon, <1>9, <3>2
    <3> QED BY <3>1, <3>3
  <2>12. ~Over(units, p)
    <3>1. p.pos # Len(units)
      BY <1>8, <2>5, <2>6, <2>10, <2>11
    <3>2. p.left # 0
      BY <2>5
    <3> QED BY <3>1, <3>2 DEF Over
  <2>13. PICK d : d = DecodeIn(bits, Rest(units, p))
    OBVIOUS
  <2>14. s = PureStep(p, d) /\ Right(bits, Rest(units, p), d)
    BY ZenonT(40), <1>7, <2>4, <2>12, <2>13, PureTurnIs
  <2>15. StandsAt(Rest(units, p), 1, e)
    <3>1. q \in 0 .. Len(units) /\ 1 \in 1 .. Len(units) - q
      BY <1>8, <2>10, <2>11
    <3>2. StandsAt(SubSeq(units, q + 1, Len(units)), 1, e)
      BY <1>7, <2>11, <3>1, StandsInRest
    <3> QED BY <2>5, <2>6, <3>2 DEF Rest
  <2>16. d.code = cp /\ d.used = l
    BY Zenon, <2>9, <2>10, <2>14, <2>15 DEF Right
  <2>17. s.pos = q + l /\ s.out = p.out \o bs[k] /\ s.left = (limit - (k - 1)) - 1
    <3>1. s.pos = p.pos + d.used /\ s.out = p.out \o EncodeSafe(d.code).bytes /\ s.left = p.left - 1
      BY <2>14 DEF PureStep
    <3> QED BY Zenon, <2>5, <2>6, <2>9, <2>16, <3>1
  <2>18. FirstOf(bs, k) = FirstOf(bs, k - 1) \o bs[k]
    BY Zenon, <1>4, <2>3, FirstOfIs
  <2>19. (limit - (k - 1)) - 1 = limit - k
    OBVIOUS
  <2>20. HasConverted(s, us, bs, limit, k)
    BY Zenon, <2>5, <2>11, <2>17, <2>18, <2>19 DEF HasConverted
  <2> QED BY Zenon, <2>2, <2>3, <2>20
<1> HIDE DEF T
<1>16. T = 0 .. n
  <2>1. T \in SUBSET (0 .. n)
    BY DEF T
  <2> QED BY <1>14, <1>15, <2>1, UpTo
<1>17. n \in T
  BY <1>16
<1>18. HasConverted(f[n], us, bs, limit, n)
  BY <1>17 DEF T
<1> QED BY Zenon, <1>1, <1>2, <1>8, <1>12, <1>18

\* A text that has been converted without an error is its characters, as far as
\* the precision.
LEMMA TextIsConverted ==
  ASSUME NEW bits \in {8, 16, 32}, NEW units \in Seq(UnitSet(bits)), NEW limit \in Nat, NEW room \in Nat,
         NEW c, c = Utf8Conv(bits, units, room, limit), c.error = "none",
         NEW chars \in Seq(CodePoints), units = UnitsOf(bits, chars),
         NEW n, n = IF limit < Len(chars) THEN limit ELSE Len(chars)
  PROVE  c.out = Plain(SubSeq(chars, 1, n))
<1>1. PICK f : IsPure(f, bits, units, limit)
  BY PureExists
<1>2. PICK j \in 0 .. Len(units) : StopsAt(c, f, j, units, room)
  BY <1>1, Utf8ConvIs
<1>3. PICK m \in Nat : m = Len(chars)
  <2>1. Len(chars) \in Nat
    OBVIOUS
  <2> QED BY <2>1
<1>4. n \in Nat /\ n <= limit /\ n <= Len(chars) /\ n \in 0 .. Len(chars) /\ (n = m \/ n = limit)
  BY <1>3
<1>5. n <= Len(units) /\ HasConverted(f[n], UnitsEach(bits, chars), BytesEach(chars), limit, n)
  BY Zenon, <1>4, <1>1, CharsConverted
<1>6. PICK p : p = f[n]
  OBVIOUS
<1>7. p.pos = Len(FirstOf(UnitsEach(bits, chars), n)) /\ p.out = FirstOf(BytesEach(chars), n) /\ p.left = limit - n
  BY Zenon, <1>5, <1>6 DEF HasConverted
<1>8. Over(units, p)
  <2>1. CASE n = limit
    BY <1>4, <1>7, <2>1 DEF Over
  <2>2. CASE n = m
    <3>1. FirstOf(UnitsEach(bits, chars), m) = FlattenSeq(UnitsEach(bits, chars))
      BY Zenon, <1>3, EachIs, FirstOfIs
    <3>2. FlattenSeq(UnitsEach(bits, chars)) = units
      BY Zenon DEF UnitsOf, UnitsEach
    <3> QED BY Zenon, <1>7, <2>2, <3>1, <3>2 DEF Over
  <2> QED BY <1>4, <2>1, <2>2
<1>9. p = f[Len(units)]
  <2>1. n \in 0 .. Len(units)
    <3>1. Len(units) \in Nat
      OBVIOUS
    <3> QED BY <1>4, <1>5, <3>1
  <2>2. EndsIn(f[n], f[Len(units)], units)
    BY <1>1, <2>1, PureEnds
  <2> QED BY Zenon, <1>6, <1>8, <2>2 DEF EndsIn
<1>10. f[j] = f[Len(units)] /\ c.out = f[j].out
  BY <1>1, <1>2, PureEnds DEF StopsAt, EndsIn
<1>11. Plain(SubSeq(chars, 1, n)) = FirstOf(BytesEach(chars), n)
  BY Zenon, <1>4, PlainIs
<1> QED BY Zenon, <1>7, <1>9, <1>10, <1>11

\* A text of characters has units.
LEMMA CharsHaveUnits ==
  ASSUME NEW bits \in {8, 16, 32}, NEW chars \in Seq(CodePoints), chars # <<>>,
         UnitsOf(bits, chars) \in Seq(UnitSet(bits))
  PROVE  UnitsOf(bits, chars) # <<>>
<1>1. PICK units : units = UnitsOf(bits, chars)
  OBVIOUS
<1>2. 1 \in Nat /\ 1 <= Len(chars) /\ 1 <= 1
  OBVIOUS
<1>3. PICK f : IsPure(f, bits, units, 1)
  BY Zenon, <1>1, <1>2, PureExists
<1>4. 1 <= Len(units)
  BY Zenon, <1>1, <1>2, <1>3, CharsConverted
<1>5. units # <<>>
  BY <1>4
<1> QED BY <1>1, <1>5

\* All of a text is written, without a width, if there is no error.
LEMMA SwallowedNot ==
  ASSUME NEW source, IsSource(source), NEW format, IsFormat(format), format.width = 0,
         NEW room \in Nat, room <= SinkRoom, NEW e, e = EncodeString(source, format, room), e.error = "none"
  PROVE  /\ format.precision = NoPrecision => IsMadeOf(e.bytes, source.bits, source.units)
         /\ \A chars \in Seq(CodePoints) : chars # <<>> /\ source.units = UnitsOf(source.bits, chars) =>
              e.bytes = Plain(SubSeq(chars, 1,
                                     IF format.precision < Len(chars) THEN format.precision ELSE Len(chars)))
<1>1. PICK bits : bits = source.bits
  OBVIOUS
<1>2. PICK units : units = source.units
  OBVIOUS
<1>3. bits \in {8, 16, 32} /\ units \in Seq(UnitSet(bits))
  BY <1>1, <1>2 DEF IsSource
<1>4. PICK limit \in Nat : limit = format.precision
  BY FormatIs
<1>5. CASE units = <<>>
  <2>1. e = [bytes |-> <<>>, error |-> "none"]
    BY Zenon, <1>2, <1>5, EncodeStringIs
  <2>2. e.bytes = <<>>
    BY <2>1
  <2>3. IsMadeOf(<<>>, bits, <<>>)
    BY <1>3, NothingIsMade
  <2>4. ASSUME NEW chars \in Seq(CodePoints), chars # <<>>, units = UnitsOf(bits, chars) PROVE FALSE
    BY ZenonT(40), <1>3, <1>5, <2>4, CharsHaveUnits
  <2> QED BY Zenon, <1>1, <1>2, <1>5, <2>2, <2>3, <2>4
<1>6. CASE units # <<>>
  <2>1. PICK c : c = Utf8Conv(bits, units, room, limit)
    OBVIOUS
  <2>2. e.bytes = c.out /\ e.error = c.error
    <3>1. c = Utf8Conv(source.bits, source.units, room, format.precision) /\ source.units # <<>>
      BY <1>1, <1>2, <1>4, <1>6, <2>1
    <3>2. EncodeString(source, format, room) = [bytes |-> c.out, error |-> c.error]
      BY <3>1, EncodeStringIs
    <3> QED BY <3>2
  <2>3. PICK f : IsPure(f, bits, units, limit)
    BY <1>3, PureExists
  <2>4. PICK j \in 0 .. Len(units) : StopsAt(c, f, j, units, room)
    BY <1>3, <2>1, <2>3, Utf8ConvIs
  <2>5. c.error = "none"
    BY <2>2
  <2>6. ASSUME limit = NoPrecision PROVE IsMadeOf(c.out, bits, units)
    <3>1. room < limit
      BY SMT, <2>6 DEF SinkRoom, NoPrecision
    <3> QED BY <1>3, <2>3, <2>4, <2>5, <3>1, WholeIsMade
  <2>7. ASSUME NEW chars \in Seq(CodePoints), units = UnitsOf(bits, chars)
        PROVE  c.out = Plain(SubSeq(chars, 1, IF limit < Len(chars) THEN limit ELSE Len(chars)))
    <3>1. PICK n : n = IF limit < Len(chars) THEN limit ELSE Len(chars)
      OBVIOUS
    <3>2. c.out = Plain(SubSeq(chars, 1, n))
      BY <1>3, <2>1, <2>5, <2>7, <3>1, TextIsConverted
    <3> QED BY Zenon, <3>1, <3>2
  <2> QED BY Zenon, <1>1, <1>2, <1>4, <2>2, <2>6, <2>7
<1> QED BY <1>5, <1>6

\* By the invariant nothing is swallowed.
LEMMA SwallowedI == FieldI => NothingSwallowed
<1>1. SUFFICES ASSUME FieldI, written = "once", field.error = "none", given.format.width = 0
               PROVE  /\ given.format.precision = NoPrecision =>
                           IsMadeOf(field.bytes, given.source.bits, given.source.units)
                      /\ given.source.chars # <<>> =>
                           field.bytes = Plain(SubSeq(given.source.chars, 1,
                                                IF given.format.precision < Len(given.source.chars)
                                                THEN given.format.precision ELSE Len(given.source.chars)))
  BY Zenon DEF NothingSwallowed
<1>2. /\ given.source \in RawSources \cup Texts /\ IsFormat(given.format) /\ given.room \in Nat /\ given.room <= SinkRoom
      /\ field = EncodeString(given.source, given.format, given.room)
  BY <1>1 DEF FieldI
<1>3. IsSource(given.source)
  BY <1>2, SourcesAre
<1>4. PICK source : source = given.source
  OBVIOUS
<1>5. PICK format : format = given.format
  OBVIOUS
<1>6. PICK room : room = given.room
  OBVIOUS
<1>7. PICK e : e = field
  OBVIOUS
<1>8. /\ IsSource(source) /\ IsFormat(format) /\ format.width = 0 /\ room \in Nat /\ room <= SinkRoom
      /\ e = EncodeString(source, format, room) /\ e.error = "none" /\ source \in RawSources \cup Texts
  BY Zenon, <1>1, <1>2, <1>3, <1>4, <1>5, <1>6, <1>7
<1>9. /\ format.precision = NoPrecision => IsMadeOf(e.bytes, source.bits, source.units)
      /\ \A chars \in Seq(CodePoints) : chars # <<>> /\ source.units = UnitsOf(source.bits, chars) =>
           e.bytes = Plain(SubSeq(chars, 1, IF format.precision < Len(chars) THEN format.precision ELSE Len(chars)))
  BY <1>8, SwallowedNot
<1>10. ASSUME source.chars # <<>> PROVE source.chars \in Seq(CodePoints) /\ source.units = UnitsOf(source.bits, source.chars)
  BY Zenon, <1>8, <1>10, TextFieldAssumption DEF TextFieldAssumption
<1> QED BY Zenon, <1>4, <1>5, <1>7, <1>9, <1>10

\* Without a precision, what is written of a text that may be broken are the
\* characters that are intact, each where it was, and replacements in between;
\* and a text is its characters, in whatever encoding it came.
THEOREM NothingIsSwallowed == FieldSpec => []NothingSwallowed
BY FieldInitI, FieldNextI, SwallowedI, PTL DEF FieldSpec

-----------------------------------------------------------------------------
(* The texts of specifications: parts, and what is skipped. *)

\* The texts of two parts, one of each set.
Joined(A, B) == {a \o b : a \in A, b \in B}
One(C)        == {<<c>> : c \in C}

\* No text of A begins with a byte of C.
NoneBegins(A, C) == \A a \in A : ~Begins(a, C)

\* A part in front of a text: the text is what is behind it.
LEMMA BehindPart ==
  ASSUME NEW a \in Seq(Bytes), NEW b \in Seq(Bytes)
  PROVE  /\ a \o b \in Seq(Bytes) /\ Len(a \o b) = Len(a) + Len(b)
         /\ Drop(a \o b, Len(a)) = b /\ SubSeq(a \o b, 1, Len(a)) = a
         /\ a # <<>> => a \o b # <<>> /\ (a \o b)[1] = a[1]
         /\ a = <<>> => a \o b = b
<1>1. PICK z : z = a \o b
  OBVIOUS
<1>2. PICK n \in Nat : n = Len(a)
  OBVIOUS
<1>3. PICK l \in Nat : l = Len(b)
  OBVIOUS
<1>4. /\ z \in Seq(Bytes) /\ Len(z) = n + l
      /\ \A i \in 1 .. n : z[i] = a[i]
      /\ \A i \in 1 .. l : z[n + i] = b[i]
  BY <1>1, <1>2, <1>3
<1>5. Drop(z, n) = b
  <2>1. PICK d : d = SubSeq(z, n + 1, n + l)
    OBVIOUS
  <2>2. d \in Seq(Bytes) /\ Len(d) = l /\ \A i \in 1 .. l : d[i] = b[i]
    BY <1>4, <2>1
  <2>3. d = b
    BY <1>3, <2>2
  <2> QED BY Zenon, <1>4, <2>1, <2>3 DEF Drop
<1>6. SubSeq(z, 1, n) = a
  <2>1. PICK d : d = SubSeq(z, 1, n)
    OBVIOUS
  <2>2. d \in Seq(Bytes) /\ Len(d) = n /\ \A i \in 1 .. n : d[i] = a[i]
    BY <1>4, <2>1
  <2> QED BY <1>2, <2>1, <2>2
<1>7. a # <<>> => z # <<>> /\ z[1] = a[1]
  BY <1>1
<1>8. a = <<>> => z = b
  BY <1>1
<1> QED BY <1>1, <1>2, <1>3, <1>4, <1>5, <1>6, <1>7, <1>8

\* A text is its beginning and its rest.
LEMMA FrontAndRest ==
  ASSUME NEW s \in Seq(Bytes), NEW n \in 0 .. Len(s)
  PROVE  /\ SubSeq(s, 1, n) \in Seq(Bytes) /\ Len(SubSeq(s, 1, n)) = n /\ \A i \in 1 .. n : SubSeq(s, 1, n)[i] = s[i]
         /\ Drop(s, n) \in Seq(Bytes) /\ Len(Drop(s, n)) = Len(s) - n
         /\ \A i \in 1 .. Len(s) - n : Drop(s, n)[i] = s[n + i]
         /\ s = SubSeq(s, 1, n) \o Drop(s, n)
<1>1. PICK a : a = SubSeq(s, 1, n)
  OBVIOUS
<1>2. PICK b : b = Drop(s, n)
  OBVIOUS
<1>3. PICK l \in Nat : l = Len(s)
  OBVIOUS
<1>4. a \in Seq(Bytes) /\ Len(a) = n /\ \A i \in 1 .. n : a[i] = s[i]
  BY <1>1
<1>5. b \in Seq(Bytes) /\ Len(b) = l - n /\ \A i \in 1 .. l - n : b[i] = s[n + i]
  BY <1>2, <1>3 DEF Drop
<1>6. PICK z : z = a \o b
  OBVIOUS
<1>7. /\ z \in Seq(Bytes) /\ Len(z) = l
      /\ \A i \in 1 .. n : z[i] = a[i]
      /\ \A i \in 1 .. l - n : z[n + i] = b[i]
  BY <1>3, <1>4, <1>5, <1>6
<1>8. n \in Nat /\ n <= l
  BY <1>3
<1>9. ASSUME NEW i \in 1 .. l PROVE z[i] = s[i]
  <2>1. CASE i <= n
    BY <1>4, <1>7, <1>8, <2>1
  <2>2. CASE i > n
    <3>1. PICK k \in 1 .. l - n : i = n + k
      BY <1>8, <2>2
    <3> QED BY <1>5, <1>7, <3>1
  <2> QED BY <1>8, <2>1, <2>2
<1>10. z = s
  BY <1>3, <1>7, <1>9
<1> QED BY <1>1, <1>2, <1>3, <1>4, <1>5, <1>6, <1>10

\* One byte, and what is behind it.
LEMMA OneAndTail ==
  ASSUME NEW s \in Seq(Bytes), s # <<>>
  PROVE  /\ s[1] \in Bytes /\ Tail(s) \in Seq(Bytes) /\ Len(Tail(s)) = Len(s) - 1 /\ s = <<s[1]>> \o Tail(s)
         /\ Tail(s) # s
BY SMT

\* A part of one byte.
LEMMA OneIs ==
  ASSUME NEW c \in Bytes, NEW b \in Seq(Bytes)
  PROVE  /\ <<c>> \in Seq(Bytes) /\ <<c>> # <<>> /\ Len(<<c>>) = 1 /\ <<c>>[1] = c
         /\ Tail(<<c>> \o b) = b /\ (<<c>> \o b)[1] = c /\ <<c>> \o b # <<>> /\ <<c>> \o b \in Seq(Bytes)
<1>1. PICK z : z = <<c>> \o b
  OBVIOUS
<1>2. z \in Seq(Bytes) /\ z # <<>> /\ z[1] = c /\ Len(z) = Len(b) + 1 /\ \A i \in 1 .. Len(b) : z[i + 1] = b[i]
  BY <1>1
<1>3. PICK t : t = Tail(z)
  OBVIOUS
<1>4. t \in Seq(Bytes) /\ Len(t) = Len(b) /\ \A i \in 1 .. Len(b) : t[i] = b[i]
  BY <1>2, <1>3
<1>5. t = b
  BY <1>4
<1> QED BY <1>1, <1>2, <1>3, <1>5

\* Maybe one byte in front of a text that begins with no such byte.
LEMMA SkipOneJoin ==
  ASSUME NEW C \in SUBSET Bytes, NEW a \in Maybe(One(C)), NEW r \in Seq(Bytes), ~Begins(r, C)
  PROVE  SkipOne(a \o r, C) = r /\ a \in Seq(Bytes)
<1>1. CASE a = <<>>
  <2>1. a \o r = r /\ a \in Seq(Bytes)
    BY <1>1
  <2> QED BY <2>1 DEF SkipOne
<1>2. CASE a # <<>>
  <2>1. PICK c \in C : a = <<c>>
    BY Zenon, <1>2 DEF Maybe, One
  <2>2. c \in Bytes
    OBVIOUS
  <2>3. Tail(a \o r) = r /\ Begins(a \o r, C) /\ a \in Seq(Bytes)
    BY Zenon, <2>1, <2>2, OneIs DEF Begins
  <2> QED BY Zenon, <2>3 DEF SkipOne
<1> QED BY <1>1, <1>2

\* What is skipped is at most one byte.
LEMMA SkipOneSplit ==
  ASSUME NEW C \in SUBSET Bytes, NEW s \in Seq(Bytes)
  PROVE  SkipOne(s, C) \in Seq(Bytes) /\ \E a \in Maybe(One(C)) : a \in Seq(Bytes) /\ s = a \o SkipOne(s, C)
<1>1. CASE Begins(s, C)
  <2>1. s # <<>> /\ s[1] \in C
    BY Zenon, <1>1 DEF Begins
  <2>2. SkipOne(s, C) = Tail(s)
    BY Zenon, <1>1 DEF SkipOne
  <2>3. s[1] \in Bytes /\ Tail(s) \in Seq(Bytes) /\ s = <<s[1]>> \o Tail(s)
    BY Zenon, <2>1, OneAndTail
  <2>4. <<s[1]>> \in Maybe(One(C))
    BY Zenon, <2>1 DEF Maybe, One
  <2>5. <<s[1]>> \in Seq(Bytes)
    BY <2>3
  <2> QED BY Zenon, <2>2, <2>3, <2>4, <2>5
<1>2. CASE ~Begins(s, C)
  <2>1. SkipOne(s, C) = s
    BY Zenon, <1>2 DEF SkipOne
  <2>2. s = <<>> \o s /\ <<>> \in Seq(Bytes)
    OBVIOUS
  <2>3. <<>> \in Maybe(One(C))
    BY Zenon DEF Maybe
  <2> QED BY Zenon, <2>1, <2>2, <2>3
<1> QED BY <1>1, <1>2

\* The parts of a text of two.
LEMMA JoinedIs ==
  ASSUME NEW A, NEW B, NEW c \in Joined(A, B)
  PROVE  \E a \in A : \E b \in B : c = a \o b
BY DEF Joined

\* Two parts make one.
LEMMA JoinedHas ==
  ASSUME NEW A, NEW B, NEW a \in A, NEW b \in B
  PROVE  a \o b \in Joined(A, B)
BY DEF Joined

\* To skip at most one byte is to read what may begin with one.
LEMMA SkipOneIs ==
  ASSUME NEW C \in SUBSET Bytes, NEW R \in SUBSET Seq(Bytes), NoneBegins(R, C), NEW s \in Seq(Bytes)
  PROVE  s \in Joined(Maybe(One(C)), R) <=> SkipOne(s, C) \in R
<1>1. ASSUME s \in Joined(Maybe(One(C)), R) PROVE SkipOne(s, C) \in R
  <2>1. PICK a \in Maybe(One(C)) : \E r \in R : s = a \o r
    BY SMT, <1>1, JoinedIs
  <2>2. PICK r \in R : s = a \o r
    BY Zenon, <2>1
  <2>3. r \in Seq(Bytes) /\ ~Begins(r, C)
    BY Zenon DEF NoneBegins
  <2> QED BY Zenon, <2>2, <2>3, SkipOneJoin
<1>2. ASSUME SkipOne(s, C) \in R PROVE s \in Joined(Maybe(One(C)), R)
  <2>1. PICK a \in Maybe(One(C)) : s = a \o SkipOne(s, C)
    BY Zenon, SkipOneSplit
  <2> QED BY Zenon, <1>2, <2>1, JoinedHas
<1> QED BY <1>1, <1>2

\* The digits a text begins with.
IsLeading(s, n) == /\ n \in 0 .. Len(s) /\ \A i \in 1 .. n : s[i] \in Digits
                   /\ n < Len(s) => ~(s[n + 1] \in Digits)

\* There are so many of them, and no other number of them.
LEMMA LeadingIs ==
  ASSUME NEW s \in Seq(Bytes)
  PROVE  IsLeading(s, LeadingDigits(s)) /\ \A n : IsLeading(s, n) => n = LeadingDigits(s)
<1>1. PICK l \in Nat : l = Len(s)
  OBVIOUS
<1>2. PICK T : T = {k \in 0 .. l : k < l => ~(s[k + 1] \in Digits)}
  OBVIOUS
<1>3. T \in SUBSET Nat /\ l \in T
  BY <1>2
<1>4. PICK n \in T : \A m \in T : n <= m
  BY Zenon, <1>3, LeastOf
<1>5. n \in 0 .. l /\ (n < l => ~(s[n + 1] \in Digits))
  BY <1>2, <1>4
<1>6. ASSUME NEW i \in 1 .. n PROVE s[i] \in Digits
  <2>1. i - 1 \in 0 .. l /\ i - 1 < l /\ (i - 1) + 1 = i /\ ~(n <= i - 1)
    BY <1>5
  <2>2. i - 1 \notin T
    BY <1>4, <2>1
  <2> QED BY <1>2, <2>1, <2>2
<1>7. IsLeading(s, n)
  BY Zenon, <1>1, <1>5, <1>6 DEF IsLeading
<1>8. \E k \in 0 .. Len(s) : (\A i \in 1 .. k : s[i] \in Digits) /\ (k < Len(s) => ~(s[k + 1] \in Digits))
  BY Zenon, <1>7 DEF IsLeading
<1>9. IsLeading(s, LeadingDigits(s))
  BY Zenon, <1>8 DEF LeadingDigits, IsLeading
<1>10. ASSUME NEW k, NEW m, IsLeading(s, k), IsLeading(s, m), k < m PROVE FALSE
  <2>1. k \in 0 .. l /\ m \in 0 .. l /\ (k < l => ~(s[k + 1] \in Digits)) /\ \A i \in 1 .. m : s[i] \in Digits
    BY Zenon, <1>1, <1>10 DEF IsLeading
  <2>2. k < l /\ k + 1 \in 1 .. m
    BY <1>10, <2>1
  <2> QED BY <2>1, <2>2
<1>11. ASSUME NEW k, IsLeading(s, k) PROVE k = LeadingDigits(s)
  <2>1. PICK m : m = LeadingDigits(s)
    OBVIOUS
  <2>2. k \in Int /\ m \in Int
    BY <1>9, <1>11, <2>1 DEF IsLeading
  <2>3. ~(k < m) /\ ~(m < k)
    BY Zenon, <1>9, <1>10, <1>11, <2>1
  <2> QED BY <2>1, <2>2, <2>3
<1> QED BY Zenon, <1>9, <1>11

\* Digits in front of a text that begins with none.
LEMMA LeadingJoin ==
  ASSUME NEW a \in Seq(Bytes), \A i \in 1 .. Len(a) : a[i] \in Digits, NEW r \in Seq(Bytes), ~Begins(r, Digits)
  PROVE  LeadingDigits(a \o r) = Len(a)
<1>1. PICK z : z = a \o r
  OBVIOUS
<1>2. PICK n \in Nat : n = Len(a)
  OBVIOUS
<1>3. PICK l \in Nat : l = Len(r)
  OBVIOUS
<1>4. /\ z \in Seq(Bytes) /\ Len(z) = n + l
      /\ \A i \in 1 .. n : z[i] = a[i]
      /\ \A i \in 1 .. l : z[n + i] = r[i]
  BY <1>1, <1>2, <1>3
<1>5. n \in 0 .. Len(z) /\ \A i \in 1 .. n : z[i] \in Digits
  BY <1>2, <1>4
<1>6. ASSUME n < Len(z) PROVE ~(z[n + 1] \in Digits)
  <2>1. 1 \in 1 .. l /\ r # <<>>
    BY <1>3, <1>4, <1>6
  <2>2. z[n + 1] = r[1]
    BY <1>4, <2>1
  <2> QED BY Zenon, <2>1, <2>2 DEF Begins
<1>7. IsLeading(z, n)
  BY Zenon, <1>5, <1>6 DEF IsLeading
<1> QED BY Zenon, <1>1, <1>2, <1>4, <1>7, LeadingIs

-----------------------------------------------------------------------------
(* Numbers. *)

\* Numbers as texts
NumberTexts == {n \in Seq(Bytes) : IsNumber(n)}

\* Digits are bytes.
LEMMA DigitIs == Digits \subseteq Bytes /\ Zero \in Digits /\ Zero \in Bytes
<1>1. \A d \in Digits : d \in 0 .. 255
  BY SMT DEF Digits
<1>2. Zero \in Digits
  BY SMT DEF Digits, Zero
<1> QED BY Zenon, <1>1, <1>2 DEF Bytes

\* A number is a zero, or digits that do not begin with one.
LEMMA NumberTextIs ==
  ASSUME NEW n \in NumberTexts
  PROVE  /\ n \in Seq(Bytes) /\ n # <<>> /\ Len(n) \in 1 .. 4 /\ \A i \in 1 .. Len(n) : n[i] \in Digits
         /\ n[1] = Zero => n = <<Zero>>
<1>1. n \in Seq(Bytes) /\ IsNumber(n)
  BY DEF NumberTexts
<1>2. CASE n = <<Zero>>
  <2>1. Len(n) = 1 /\ n[1] = Zero /\ n # <<>>
    BY <1>2
  <2> QED BY <1>1, <1>2, <2>1, DigitIs
<1>3. CASE n # <<Zero>>
  <2>1. n \in Seq(Digits) /\ Len(n) \in 1 .. 4 /\ n[1] # Zero
    BY Zenon, <1>1, <1>3 DEF IsNumber
  <2>2. PICK D : D = Digits
    OBVIOUS
  <2>3. n # <<>> /\ \A i \in 1 .. Len(n) : n[i] \in D
    BY <2>1, <2>2
  <2> QED BY Zenon, <1>1, <2>1, <2>2, <2>3
<1> QED BY <1>2, <1>3

\* No more digits than count.
UpToFour(n) == IF n < 4 THEN n ELSE 4

\* What skip_valid_fmt_number() skips where no zero is.
LEMMA SkipsUpToFour ==
  ASSUME NEW s, ~Begins(s, {Zero}), NEW n, n = LeadingDigits(s)
  PROVE  SkipValidNumber(s) = Drop(s, UpToFour(n))
BY Zenon DEF SkipValidNumber, UpToFour

\* Maybe a number in front of a text that begins with no digit.
LEMMA SkipNumberJoin ==
  ASSUME NEW a \in Maybe(NumberTexts), NEW r \in Seq(Bytes), ~Begins(r, Digits)
  PROVE  SkipValidNumber(a \o r) = r /\ a \in Seq(Bytes)
<1>1. PICK z : z = a \o r
  OBVIOUS
<1>2. CASE a = <<Zero>>
  <2>1. Tail(z) = r /\ z # <<>> /\ z[1] = Zero
    BY Zenon, <1>1, <1>2, DigitIs, OneIs
  <2>2. Begins(z, {Zero})
    BY Zenon, <2>1 DEF Begins
  <2>3. a \in Seq(Bytes)
    BY Zenon, <1>2, DigitIs, OneIs
  <2> QED BY Zenon, <1>1, <2>1, <2>2, <2>3 DEF SkipValidNumber
<1>3. CASE a # <<Zero>>
  <2>1. a = <<>> \/ a \in NumberTexts
    BY Zenon DEF Maybe
  <2>2. a \in Seq(Bytes) /\ Len(a) \in 0 .. 4 /\ \A i \in 1 .. Len(a) : a[i] \in Digits
    <3>1. CASE a = <<>>
      BY <3>1
    <3>2. CASE a # <<>>
      <4>1. a \in Seq(Bytes) /\ Len(a) \in 1 .. 4 /\ \A i \in 1 .. Len(a) : a[i] \in Digits
        BY Zenon, <2>1, <3>2, NumberTextIs
      <4> QED BY <4>1
    <3> QED BY <3>1, <3>2
  <2>3. LeadingDigits(z) = Len(a)
    BY Zenon, <1>1, <2>2, LeadingJoin
  <2>4. ~Begins(z, {Zero})
    <3>1. CASE a = <<>>
      <4>1. z = r
        BY <1>1, <3>1
      <4> QED BY Zenon, <4>1, DigitIs DEF Begins
    <3>2. CASE a # <<>>
      <4>1. z[1] = a[1] /\ a[1] # Zero
        BY Zenon, <1>1, <1>3, <2>1, <2>2, <3>2, NumberTextIs, BehindPart
      <4> QED BY Zenon, <4>1 DEF Begins
    <3> QED BY <3>1, <3>2
  <2>5. UpToFour(Len(a)) = Len(a)
    BY <2>2 DEF UpToFour
  <2>6. SkipValidNumber(z) = Drop(z, Len(a))
    BY Zenon, <2>3, <2>4, <2>5, SkipsUpToFour
  <2>7. Drop(z, Len(a)) = r
    BY Zenon, <1>1, <2>2, BehindPart
  <2> QED BY Zenon, <1>1, <2>2, <2>6, <2>7
<1> QED BY <1>2, <1>3

\* What is skipped is a number, if anything.
LEMMA SkipNumberSplit ==
  ASSUME NEW s \in Seq(Bytes)
  PROVE  /\ SkipValidNumber(s) \in Seq(Bytes)
         /\ \E a \in Maybe(NumberTexts) : a \in Seq(Bytes) /\ s = a \o SkipValidNumber(s)
<1>1. CASE Begins(s, {Zero})
  <2>1. s # <<>> /\ s[1] = Zero
    BY Zenon, <1>1 DEF Begins
  <2>2. SkipValidNumber(s) = Tail(s)
    BY Zenon, <1>1 DEF SkipValidNumber
  <2>3. Tail(s) \in Seq(Bytes) /\ s = <<Zero>> \o Tail(s)
    BY Zenon, <2>1, OneAndTail
  <2>4. <<Zero>> \in Seq(Bytes)
    BY Zenon, DigitIs, OneIs
  <2>5. <<Zero>> \in Maybe(NumberTexts)
    BY Zenon, <2>4 DEF Maybe, NumberTexts, IsNumber
  <2> QED BY Zenon, <2>2, <2>3, <2>4, <2>5
<1>2. CASE ~Begins(s, {Zero})
  <2>1. PICK n : n = LeadingDigits(s)
    OBVIOUS
  <2>2. n \in 0 .. Len(s) /\ \A i \in 1 .. n : s[i] \in Digits
    BY Zenon, <2>1, LeadingIs DEF IsLeading
  <2>3. PICK k : k = UpToFour(n)
    OBVIOUS
  <2>4. k \in 0 .. Len(s) /\ k <= 4 /\ \A i \in 1 .. k : i \in 1 .. n
    BY <2>2, <2>3 DEF UpToFour
  <2>5. SkipValidNumber(s) = Drop(s, k)
    BY Zenon, <1>2, <2>1, <2>3, SkipsUpToFour
  <2>6. PICK a : a = SubSeq(s, 1, k)
    OBVIOUS
  <2>7. /\ a \in Seq(Bytes) /\ Len(a) = k /\ \A i \in 1 .. k : a[i] = s[i]
        /\ Drop(s, k) \in Seq(Bytes) /\ s = a \o Drop(s, k)
    BY Zenon, <2>4, <2>6, FrontAndRest
  <2>8. \A i \in 1 .. k : a[i] \in Digits
    BY Zenon, <2>2, <2>4, <2>7
  <2>9. a \in Maybe(NumberTexts)
    <3>1. CASE k = 0
      <4>1. a = <<>>
        BY <2>7, <3>1
      <4> QED BY Zenon, <4>1 DEF Maybe
    <3>2. CASE k # 0
      <4>1. k \in 1 .. 4 /\ 1 \in 1 .. k /\ s # <<>>
        BY <2>4, <3>2
      <4>2. a[1] # Zero
        BY Zenon, <1>2, <2>7, <4>1 DEF Begins
      <4>3. PICK D : D = Digits
        OBVIOUS
      <4>4. a \in Seq(D)
        BY <2>7, <2>8, <4>3
      <4>5. IsNumber(a)
        BY Zenon, <2>7, <4>1, <4>2, <4>3, <4>4 DEF IsNumber
      <4> QED BY Zenon, <2>7, <4>5 DEF Maybe, NumberTexts
    <3> QED BY <3>1, <3>2
  <2> QED BY Zenon, <2>5, <2>7, <2>9
<1> QED BY <1>1, <1>2

\* To skip a number is to read what may begin with one.
LEMMA SkipNumberIs ==
  ASSUME NEW R \in SUBSET Seq(Bytes), NoneBegins(R, Digits), NEW s \in Seq(Bytes)
  PROVE  /\ s \in Joined(Maybe(NumberTexts), R) <=> SkipValidNumber(s) \in R
         /\ s \in Joined(NumberTexts, R) <=> SkipValidNumber(s) \in R /\ SkipValidNumber(s) # s
<1>1. ASSUME NEW a \in Maybe(NumberTexts), NEW r \in R, s = a \o r
      PROVE  SkipValidNumber(s) = r /\ (a # <<>> => r # s)
  <2>1. r \in Seq(Bytes) /\ ~Begins(r, Digits)
    BY Zenon DEF NoneBegins
  <2>2. SkipValidNumber(s) = r /\ a \in Seq(Bytes)
    BY Zenon, <1>1, <2>1, SkipNumberJoin
  <2>3. ASSUME a # <<>>, r = s PROVE FALSE
    BY <1>1, <2>1, <2>2, <2>3
  <2> QED BY <2>2, <2>3
<1>2. ASSUME s \in Joined(Maybe(NumberTexts), R) PROVE SkipValidNumber(s) \in R
  <2>1. PICK a \in Maybe(NumberTexts) : \E r \in R : s = a \o r
    BY SMT, <1>2, JoinedIs
  <2> QED BY Zenon, <1>1, <2>1
<1>3. ASSUME s \in Joined(NumberTexts, R) PROVE SkipValidNumber(s) \in R /\ SkipValidNumber(s) # s
  <2>1. PICK a \in NumberTexts : \E r \in R : s = a \o r
    BY SMT, <1>3, JoinedIs
  <2>2. a \in Maybe(NumberTexts) /\ a # <<>>
    BY Zenon, NumberTextIs DEF Maybe
  <2> QED BY Zenon, <1>1, <2>1, <2>2
<1>4. PICK a \in Maybe(NumberTexts) : s = a \o SkipValidNumber(s) /\ SkipValidNumber(s) \in Seq(Bytes)
  BY Zenon, SkipNumberSplit
<1>5. ASSUME SkipValidNumber(s) \in R PROVE s \in Joined(Maybe(NumberTexts), R)
  BY Zenon, <1>4, <1>5, JoinedHas
<1>6. ASSUME SkipValidNumber(s) \in R, SkipValidNumber(s) # s PROVE s \in Joined(NumberTexts, R)
  <2>1. a # <<>>
    BY <1>4, <1>6
  <2>2. a \in NumberTexts
    BY Zenon, <2>1 DEF Maybe
  <2> QED BY Zenon, <1>4, <1>6, <2>2, JoinedHas
<1> QED BY <1>2, <1>3, <1>5, <1>6

-----------------------------------------------------------------------------
(* Fills and aligns. *)

\* Fills and aligns as texts
FillTexts      == {f \in Seq(Bytes) : IsFill(f)}
FillAlignTexts == Maybe(Joined(Maybe(FillTexts), One(Aligns)))

\* The cases of skip_fill_align().
LEMMA SkipFillIs ==
  ASSUME NEW s, s # <<>>, NEW c, c = DecodeUtf8(s), NEW rest, rest = Drop(s, c.used)
  PROVE  /\ Begins(rest, Aligns) /\ ~(c.code \in {Open, Close}) /\ Safe(c.code) => SkipFillAlign(s) = Tail(rest)
         /\ Begins(rest, Aligns) /\ (c.code \in {Open, Close} \/ ~Safe(c.code)) => SkipFillAlign(s) = s
         /\ ~Begins(rest, Aligns) /\ c.code \in Aligns => SkipFillAlign(s) = rest
         /\ ~Begins(rest, Aligns) /\ ~(c.code \in Aligns) => SkipFillAlign(s) = s
<1>1. SkipFillAlign(s) = CASE Begins(rest, Aligns) /\ ~(c.code \in {Open, Close}) /\ Safe(c.code) -> Tail(rest)
                           [] Begins(rest, Aligns) /\ (c.code \in {Open, Close} \/ ~Safe(c.code)) -> s
                           [] ~Begins(rest, Aligns) /\ c.code \in Aligns                          -> rest
                           [] OTHER                                                               -> s
  BY Zenon DEF SkipFillAlign
<1> QED BY Zenon, <1>1

\* Aligns and fills are characters of their own.
LEMMA AlignIs == Aligns \subseteq Bytes /\ \A a \in Aligns : a \in CodePoints /\ a < 128 /\ Encode(a) = <<a>>
<1>1. \A a \in Aligns : a \in Nat /\ a < 128 /\ a \in 0 .. 255
  BY SMT DEF Aligns
<1>2. \A a \in Aligns : a \in CodePoints
  BY SMT, <1>1, IsCodePoint
<1>3. \A a \in Aligns : Encode(a) = <<a>>
  BY SMT, <1>1 DEF Encode
<1> QED BY Zenon, <1>1, <1>2, <1>3 DEF Bytes

\* What replaces a broken character is no fill.
LEMMA ReplacementIsNone == ~Safe(ReplacementChar) /\ ~(ReplacementChar \in Aligns)
BY SMT DEF Safe, SafeRanges, ReplacementChar, Aligns

\* A fill is the encoding of a safe character.
LEMMA FillTextIs ==
  ASSUME NEW f \in FillTexts
  PROVE  \E cp \in CodePoints : Safe(cp) /\ ~(cp \in {Open, Close}) /\ f = Encode(cp)
<1>1. f \in Seq(Bytes) /\ f # <<>>
  BY Zenon DEF FillTexts, IsFill, IsCharacter
<1>2. PICK cp : cp = DecodeUtf8(f).code
  OBVIOUS
<1>3. cp \in CodePoints
  BY Zenon, <1>1, <1>2, Utf8Right DEF Right
<1>4. Safe(cp) /\ ~(cp \in {Open, Close}) /\ f = Encode(cp)
  BY Zenon, <1>2 DEF FillTexts, IsFill, IsCharacter
<1> QED BY Zenon, <1>3, <1>4

\* And every such encoding is one.
LEMMA FillTextHas ==
  ASSUME NEW cp \in CodePoints, Safe(cp), ~(cp \in {Open, Close})
  PROVE  Encode(cp) \in FillTexts
<1>1. PICK e : e = Encode(cp)
  OBVIOUS
<1>2. e \in Seq(Bytes) /\ Len(e) \in 1 .. 4
  BY Zenon, <1>1, EncodedIsSequence
<1>3. e # <<>> /\ e = e \o <<>> /\ <<>> \in Seq(Bytes)
  BY SMTT(60), <1>2
<1>4. DecodeUtf8(e) = Decoded(cp, Len(e))
  BY Zenon, <1>1, <1>3, EncodedIsDecoded
<1>5. DecodeUtf8(e).code = cp
  BY SMT, <1>4 DEF Decoded
<1> QED BY Zenon, <1>1, <1>2, <1>3, <1>5 DEF FillTexts, IsFill, IsCharacter

\* A text with a length is not empty.
LEMMA NotEmpty == ASSUME NEW S, NEW s \in Seq(S), Len(s) \in 1 .. 4 PROVE s # <<>>
OBVIOUS

\* An encoded character in front of a text.
LEMMA DecodeJoin ==
  ASSUME NEW cp \in CodePoints, NEW r \in Seq(Bytes)
  PROVE  /\ Encode(cp) \o r \in Seq(Bytes) /\ Encode(cp) \o r # <<>>
         /\ DecodeUtf8(Encode(cp) \o r).code = cp
         /\ Drop(Encode(cp) \o r, DecodeUtf8(Encode(cp) \o r).used) = r
<1>1. PICK e : e = Encode(cp)
  OBVIOUS
<1>2. e \in Seq(Bytes) /\ Len(e) \in 1 .. 4
  BY Zenon, <1>1, EncodedIsSequence
<1>3. DecodeUtf8(e \o r) = Decoded(cp, Len(e))
  BY Zenon, <1>1, EncodedIsDecoded
<1>4. DecodeUtf8(e \o r).code = cp /\ DecodeUtf8(e \o r).used = Len(e)
  BY SMT, <1>3 DEF Decoded
<1>5. e # <<>>
  BY Zenon, <1>2, NotEmpty
<1>6. e \o r \in Seq(Bytes) /\ e \o r # <<>> /\ Drop(e \o r, Len(e)) = r
  BY Zenon, <1>2, <1>5, BehindPart
<1> QED BY Zenon, <1>1, <1>4, <1>6

\* No align is in a text.
NoAligns(r) == \A i \in 1 .. Len(r) : ~(r[i] \in Aligns)

\* A text without aligns begins with none.
LEMMA NoAlignsBegins ==
  ASSUME NEW r \in Seq(Bytes), NoAligns(r)
  PROVE  ~Begins(r, Aligns)
<1>1. r # <<>> => 1 \in 1 .. Len(r)
  OBVIOUS
<1> QED BY Zenon, <1>1 DEF NoAligns, Begins

\* Maybe a fill and an align in front of a text without aligns.
LEMMA SkipFillJoin ==
  ASSUME NEW a \in FillAlignTexts, NEW r \in Seq(Bytes), NoAligns(r)
  PROVE  SkipFillAlign(a \o r) = r /\ a \in Seq(Bytes)
<1>1. CASE a = <<>>
  <2>1. a \o r = r /\ a \in Seq(Bytes)
    BY <1>1
  <2>2. CASE r = <<>>
    BY Zenon, <2>1, <2>2 DEF SkipFillAlign
  <2>3. CASE r # <<>>
    <3>1. PICK c : c = DecodeUtf8(r)
      OBVIOUS
    <3>2. PICK rest : rest = Drop(r, c.used)
      OBVIOUS
    <3>3. Right(8, r, c)
      BY Zenon, <2>3, <3>1, Utf8Right
    <3>4. c.used \in 1 .. Len(r)
      BY Zenon, <3>3 DEF Right
    <3>5. ~Begins(rest, Aligns)
      <4>1. c.used \in 0 .. Len(r)
        BY <3>4
      <4>2. rest \in Seq(Bytes) /\ Len(rest) = Len(r) - c.used /\ \A i \in 1 .. Len(r) - c.used : rest[i] = r[c.used + i]
        BY Zenon, <3>2, <4>1, FrontAndRest
      <4>3. \A i \in 1 .. Len(rest) : c.used + i \in 1 .. Len(r)
        BY <3>4, <4>2
      <4>4. NoAligns(rest)
        BY Zenon, <4>2, <4>3 DEF NoAligns
      <4> QED BY Zenon, <4>2, <4>4, NoAlignsBegins
    <3>6. ASSUME c.code \in Aligns PROVE FALSE
      <4>1. c.code # ReplacementChar
        BY Zenon, <3>6, ReplacementIsNone
      <4>2. StandsAt(r, 1, EncodeIn(8, c.code))
        BY Zenon, <3>3, <4>1 DEF Right
      <4>3. EncodeIn(8, c.code) = Encode(c.code)
        BY SMT DEF EncodeIn
      <4>4. Encode(c.code) = <<c.code>>
        BY Zenon, <3>6, AlignIs
      <4>5. r[1] = c.code
        BY <4>2, <4>3, <4>4 DEF StandsAt
      <4> QED BY Zenon, <2>3, <3>6, <4>5, NoAlignsBegins DEF Begins
    <3> QED BY Zenon, <2>1, <2>3, <3>1, <3>2, <3>5, <3>6, SkipFillIs
  <2> QED BY <2>2, <2>3
<1>2. CASE a # <<>>
  <2>1. a \in Joined(Maybe(FillTexts), One(Aligns))
    BY Zenon, <1>2 DEF FillAlignTexts, Maybe
  <2>2. PICK f \in Maybe(FillTexts) : \E o \in One(Aligns) : a = f \o o
    BY SMT, <2>1, JoinedIs
  <2>3. PICK o \in One(Aligns) : a = f \o o
    BY Zenon, <2>2
  <2>4. PICK x \in Aligns : o = <<x>>
    BY Zenon DEF One
  <2>5. x \in Bytes /\ x \in CodePoints /\ Encode(x) = <<x>>
    BY Zenon, AlignIs
  <2>6. PICK t : t = <<x>> \o r
    OBVIOUS
  <2>7. t \in Seq(Bytes) /\ Tail(t) = r /\ t # <<>> /\ t[1] = x /\ <<x>> \in Seq(Bytes)
    BY Zenon, <2>5, <2>6, OneIs
  <2>8. CASE f = <<>>
    <3>1. a = <<x>>
      BY <2>3, <2>4, <2>5, <2>8
    <3>2. PICK c : c = DecodeUtf8(t)
      OBVIOUS
    <3>6. t = Encode(x) \o r
      BY Zenon, <2>5, <2>6
    <3>8. DecodeUtf8(Encode(x) \o r).code = x /\ Drop(Encode(x) \o r, DecodeUtf8(Encode(x) \o r).used) = r
      BY Zenon, <2>5, DecodeJoin
    <3>3. c.code = x /\ Drop(t, c.used) = r
      BY Zenon, <3>2, <3>6, <3>8
    <3>4. ~Begins(r, Aligns)
      BY Zenon, NoAlignsBegins
    <3>7. r = Drop(t, c.used) /\ c.code \in Aligns
      BY Zenon, <3>3
    <3>5. SkipFillAlign(t) = r
      BY Zenon, <2>7, <3>2, <3>4, <3>7, SkipFillIs
    <3> QED BY Zenon, <2>6, <2>7, <3>1, <3>5
  <2>9. CASE f # <<>>
    <3>1. f \in FillTexts
      BY Zenon, <2>9 DEF Maybe
    <3>2. PICK cp \in CodePoints : Safe(cp) /\ ~(cp \in {Open, Close}) /\ f = Encode(cp)
      BY Zenon, <3>1, FillTextIs
    <3>3. f \in Seq(Bytes)
      BY Zenon, <3>2, EncodedIsSequence
    <3>4. a \in Seq(Bytes) /\ a \o r = f \o t
      BY <2>3, <2>4, <2>6, <2>7, <3>3
    <3>5. PICK s : s = f \o t
      OBVIOUS
    <3>6. PICK c : c = DecodeUtf8(s)
      OBVIOUS
    <3>10. s = Encode(cp) \o t
      BY Zenon, <3>2, <3>5
    <3>12. /\ Encode(cp) \o t # <<>> /\ DecodeUtf8(Encode(cp) \o t).code = cp
           /\ Drop(Encode(cp) \o t, DecodeUtf8(Encode(cp) \o t).used) = t
      BY Zenon, <2>7, DecodeJoin
    <3>7. s # <<>> /\ c.code = cp /\ Drop(s, c.used) = t
      BY Zenon, <3>6, <3>10, <3>12
    <3>8. Begins(t, Aligns)
      BY Zenon, <2>7 DEF Begins
    <3>11. t = Drop(s, c.used) /\ Safe(c.code) /\ ~(c.code \in {Open, Close})
      BY Zenon, <3>2, <3>7
    <3>9. SkipFillAlign(s) = Tail(t)
      BY Zenon, <3>6, <3>7, <3>8, <3>11, SkipFillIs
    <3> QED BY Zenon, <2>7, <3>4, <3>5, <3>9
  <2> QED BY <2>8, <2>9
<1> QED BY <1>1, <1>2

\* What is skipped is a fill and an align, if anything.
LEMMA SkipFillSplit ==
  ASSUME NEW s \in Seq(Bytes)
  PROVE  /\ SkipFillAlign(s) \in Seq(Bytes)
         /\ \E a \in FillAlignTexts : a \in Seq(Bytes) /\ s = a \o SkipFillAlign(s)
<1>1. ASSUME SkipFillAlign(s) = s
      PROVE  SkipFillAlign(s) \in Seq(Bytes) /\ \E a \in FillAlignTexts : a \in Seq(Bytes) /\ s = a \o SkipFillAlign(s)
  <2>1. s = <<>> \o s /\ <<>> \in Seq(Bytes)
    OBVIOUS
  <2>2. <<>> \in FillAlignTexts
    BY Zenon DEF FillAlignTexts, Maybe
  <2> QED BY Zenon, <1>1, <2>1, <2>2
<1>2. CASE s = <<>>
  BY Zenon, <1>1, <1>2 DEF SkipFillAlign
<1>3. CASE s # <<>>
  <2>1. PICK c : c = DecodeUtf8(s)
    OBVIOUS
  <2>2. PICK rest : rest = Drop(s, c.used)
    OBVIOUS
  <2>3. Right(8, s, c)
    BY Zenon, <1>3, <2>1, Utf8Right
  <2>4. ASSUME c.code # ReplacementChar
        PROVE  c.code \in CodePoints /\ Encode(c.code) \in Seq(Bytes) /\ s = Encode(c.code) \o rest /\ rest \in Seq(Bytes)
    <3>1. c.code \in CodePoints
      BY Zenon, <2>3 DEF Right
    <3>2. StandsAt(s, 1, EncodeIn(8, c.code))
      BY Zenon, <2>3, <2>4 DEF Right
    <3>3. EncodeIn(8, c.code) = Encode(c.code)
      BY SMT DEF EncodeIn
    <3>4. Encode(c.code) \in Seq(Bytes)
      BY Zenon, <3>1, EncodedIsSequence
    <3>5. PICK r \in Seq(Bytes) : s = Encode(c.code) \o r
      <4>1. StandsAt(s, 1, Encode(c.code))
        BY Zenon, <3>2, <3>3
      <4>2. PICK e : e = Encode(c.code)
        OBVIOUS
      <4>3. e \in Seq(Bytes) /\ StandsAt(s, 1, e)
        BY Zenon, <3>4, <4>1, <4>2
      <4>4. \E r \in Seq(Bytes) : s = e \o r
        BY SMT, <4>3, StandsThenRest
      <4> QED BY Zenon, <4>2, <4>4
    <3>6. Drop(Encode(c.code) \o r, DecodeUtf8(Encode(c.code) \o r).used) = r
      BY Zenon, <3>1, DecodeJoin
    <3>7. rest = r
      BY Zenon, <2>1, <2>2, <3>5, <3>6
    <3> QED BY Zenon, <3>1, <3>4, <3>5, <3>7
  <2>5. CASE Begins(rest, Aligns) /\ ~(c.code \in {Open, Close}) /\ Safe(c.code)
    <3>1. SkipFillAlign(s) = Tail(rest)
      BY ZenonT(60), <1>3, <2>1, <2>2, <2>5, SkipFillIs
    <3>2. c.code # ReplacementChar
      BY Zenon, <2>5, ReplacementIsNone
    <3>3. PICK f : f = Encode(c.code)
      OBVIOUS
    <3>4. f \in Seq(Bytes) /\ s = f \o rest /\ rest \in Seq(Bytes) /\ f \in Maybe(FillTexts)
      BY Zenon, <2>4, <2>5, <3>2, <3>3, FillTextHas DEF Maybe
    <3>5. PICK x \in Aligns : rest # <<>> /\ x = rest[1]
      BY Zenon, <2>5 DEF Begins
    <3>6. Tail(rest) \in Seq(Bytes) /\ rest = <<x>> \o Tail(rest) /\ x \in Bytes
      BY Zenon, <3>4, <3>5, OneAndTail
    <3>7. <<x>> \in Seq(Bytes) /\ <<x>> \in One(Aligns)
      BY Zenon, <3>6, OneIs DEF One
    <3>8. PICK o : o = <<x>>
      OBVIOUS
    <3>9. PICK t : t = Tail(rest)
      OBVIOUS
    <3>10. f \o o \in Seq(Bytes) /\ s = (f \o o) \o t /\ t \in Seq(Bytes)
      <4>1. o \in Seq(Bytes) /\ t \in Seq(Bytes) /\ rest = o \o t
        BY Zenon, <3>6, <3>7, <3>8, <3>9
      <4> QED BY SMT, <3>4, <4>1
    <3>11. f \o o \in FillAlignTexts
      BY Zenon, <3>4, <3>7, <3>8, JoinedHas DEF FillAlignTexts, Maybe
    <3> QED BY Zenon, <3>1, <3>9, <3>10, <3>11
  <2>6. CASE ~Begins(rest, Aligns) /\ c.code \in Aligns
    <3>1. SkipFillAlign(s) = rest
      BY Zenon, <1>3, <2>1, <2>2, <2>6, SkipFillIs
    <3>2. c.code # ReplacementChar
      BY Zenon, <2>6, ReplacementIsNone
    <3>3. PICK o : o = <<c.code>>
      OBVIOUS
    <3>4. o = Encode(c.code)
      BY Zenon, <2>6, <3>3, AlignIs
    <3>5. o \in Seq(Bytes) /\ s = o \o rest /\ rest \in Seq(Bytes)
      BY Zenon, <2>4, <3>2, <3>4
    <3>6. o = <<>> \o o
      BY <3>5
    <3>7. o \in One(Aligns) /\ <<>> \in Maybe(FillTexts)
      BY Zenon, <2>6, <3>3 DEF One, Maybe
    <3>8. <<>> \o o \in FillAlignTexts
      BY Zenon, <3>7, JoinedHas DEF FillAlignTexts, Maybe
    <3>9. o \in FillAlignTexts
      BY Zenon, <3>6, <3>8
    <3> QED BY Zenon, <3>1, <3>5, <3>9
  <2>7. CASE Begins(rest, Aligns) /\ (c.code \in {Open, Close} \/ ~Safe(c.code))
    BY Zenon, <1>1, <1>3, <2>1, <2>2, <2>7, SkipFillIs
  <2>8. CASE ~Begins(rest, Aligns) /\ ~(c.code \in Aligns)
    BY Zenon, <1>1, <1>3, <2>1, <2>2, <2>8, SkipFillIs
  <2> QED BY Zenon, <2>5, <2>6, <2>7, <2>8
<1> QED BY <1>2, <1>3

\* To skip them is to read what may begin with them.
LEMMA SkipFillReads ==
  ASSUME NEW R \in SUBSET Seq(Bytes), \A r \in R : NoAligns(r), NEW s \in Seq(Bytes)
  PROVE  s \in Joined(FillAlignTexts, R) <=> SkipFillAlign(s) \in R
<1>1. ASSUME s \in Joined(FillAlignTexts, R) PROVE SkipFillAlign(s) \in R
  <2>1. PICK a \in FillAlignTexts : \E r \in R : s = a \o r
    BY SMT, <1>1, JoinedIs
  <2>2. PICK r \in R : s = a \o r
    BY Zenon, <2>1
  <2> QED BY Zenon, <2>2, SkipFillJoin
<1>2. ASSUME SkipFillAlign(s) \in R PROVE s \in Joined(FillAlignTexts, R)
  <2>1. PICK a \in FillAlignTexts : s = a \o SkipFillAlign(s)
    BY Zenon, SkipFillSplit
  <2> QED BY Zenon, <1>2, <2>1, JoinedHas
<1> QED BY <1>1, <1>2

-----------------------------------------------------------------------------
\* Texts without aligns, that begin with one of F if with anything.
Free       == Bytes \ Aligns
Tame(A, F) == A \subseteq Seq(Free) /\ \A a \in A : a # <<>> => a[1] \in F

\* Texts of two parts, without aligns either, begin like the first part, or like
\* the second where the first may be empty.
LEMMA TameJoined ==
  ASSUME NEW A, NEW B, NEW F, NEW G, Tame(A, F), Tame(B, G)
  PROVE  Tame(Joined(A, B), F \cup G) /\ (<<>> \notin A => Tame(Joined(A, B), F))
<1>1. ASSUME NEW c \in Joined(A, B)
      PROVE  c \in Seq(Free) /\ (c # <<>> => c[1] \in F \cup G) /\ (c # <<>> /\ <<>> \notin A => c[1] \in F)
  <2>1. PICK a \in A : \E b \in B : c = a \o b
    BY SMT, JoinedIs
  <2>2. PICK b \in B : c = a \o b
    BY Zenon, <2>1
  <2>3. a \in Seq(Free) /\ b \in Seq(Free) /\ (a # <<>> => a[1] \in F) /\ (b # <<>> => b[1] \in G)
    BY Zenon DEF Tame
  <2>4. c \in Seq(Free) /\ (a # <<>> => c[1] = a[1]) /\ (a = <<>> => c = b)
    BY SMTT(60), <2>2, <2>3
  <2> QED BY Zenon, <2>3, <2>4
<1> QED BY Zenon, <1>1 DEF Tame

\* A part that may be left out.
LEMMA TameMaybe ==
  ASSUME NEW A, NEW F, Tame(A, F)
  PROVE  Tame(Maybe(A), F)
<1>1. <<>> \in Seq(Free)
  OBVIOUS
<1> QED BY Zenon, <1>1 DEF Tame, Maybe

\* A part of one byte.
LEMMA TameOne ==
  ASSUME NEW C \in SUBSET Free
  PROVE  Tame(One(C), C)
<1>1. \A c \in C : <<c>> \in Seq(Free) /\ <<c>>[1] = c
  OBVIOUS
<1> QED BY Zenon, <1>1 DEF Tame, One

\* Numbers begin with digits, and are never empty.
LEMMA TameNumbers == Tame(NumberTexts, Digits) /\ <<>> \notin NumberTexts
<1>1. \A d \in Digits : ~(d \in Aligns)
  BY SMT DEF Digits, Aligns
<1>2. \A d \in Digits : d \in Free
  BY Zenon, <1>1, DigitIs DEF Free
<1>3. ASSUME NEW n \in NumberTexts PROVE n \in Seq(Free) /\ n # <<>> /\ n[1] \in Digits
  <2>1. n \in Seq(Bytes) /\ n # <<>> /\ Len(n) \in 1 .. 4 /\ \A i \in 1 .. Len(n) : n[i] \in Digits
    BY Zenon, NumberTextIs
  <2>2. \A i \in 1 .. Len(n) : n[i] \in Free
    BY Zenon, <1>2, <2>1
  <2>3. n \in Seq(Free)
    BY <2>1, <2>2
  <2>4. 1 \in 1 .. Len(n)
    BY <2>1
  <2> QED BY Zenon, <2>1, <2>3, <2>4
<1> QED BY Zenon, <1>3 DEF Tame

\* Such texts do not begin with what is none of F, and have no aligns.
LEMMA TameIs ==
  ASSUME NEW A, NEW F, Tame(A, F)
  PROVE  /\ A \in SUBSET Seq(Bytes) /\ \A a \in A : NoAligns(a)
         /\ \A C : F \cap C = {} => NoneBegins(A, C)
<1>1. ASSUME NEW a \in A PROVE a \in Seq(Bytes) /\ NoAligns(a)
  <2>1. a \in Seq(Free)
    BY Zenon DEF Tame
  <2>2. PICK X : X = Free
    OBVIOUS
  <2>3. \A i \in 1 .. Len(a) : a[i] \in X
    BY <2>1, <2>2
  <2>4. \A i \in 1 .. Len(a) : a[i] \in Bytes /\ ~(a[i] \in Aligns)
    BY Zenon, <2>2, <2>3 DEF Free
  <2>5. a \in Seq(Bytes)
    BY <2>1, <2>4
  <2> QED BY Zenon, <2>4, <2>5 DEF NoAligns
<1>2. ASSUME NEW C, F \cap C = {} PROVE NoneBegins(A, C)
  BY Zenon, <1>2 DEF Tame, NoneBegins, Begins
<1> QED BY Zenon, <1>1, <1>2

-----------------------------------------------------------------------------
(* A text is accepted if it is a specification. *)

\* The specifications of the formatter, from each of their parts on.
TypeTexts   == Maybe(One(Types))
LocaleOn    == Joined(Maybe(One({LocaleChar})), TypeTexts)
DotNumbers  == Joined(One({Dot}), NumberTexts)
PrecisionOn == Joined(Maybe(DotNumbers), LocaleOn)
WidthOn     == Joined(Maybe(NumberTexts), PrecisionOn)
ZeroOn      == Joined(Maybe(One({Zero})), WidthOn)
AlternateOn == Joined(Maybe(One({Hash})), ZeroOn)
SignOn      == Joined(Maybe(One(Signs)), AlternateOn)
SpecTexts   == Joined(FillAlignTexts, SignOn)

\* What they begin with.
LocaleHeads    == {LocaleChar} \cup Types
PrecisionHeads == {Dot} \cup LocaleHeads
WidthHeads     == Digits \cup PrecisionHeads
AlternateHeads == {Hash} \cup ({Zero} \cup WidthHeads)
SignHeads      == Signs \cup AlternateHeads

\* The bytes of a specification.
LEMMA LettersOfSpec ==
  /\ Types \subseteq Free /\ {LocaleChar} \subseteq Free /\ {Dot} \subseteq Free /\ {Zero} \subseteq Free
  /\ {Hash} \subseteq Free /\ Signs \subseteq Free
  /\ Types \subseteq Bytes /\ {LocaleChar} \subseteq Bytes /\ {Dot} \subseteq Bytes /\ {Zero} \subseteq Bytes
  /\ {Hash} \subseteq Bytes /\ Signs \subseteq Bytes
<1> DEFINE All == Types \cup {LocaleChar, Dot, Zero, Hash} \cup Signs
<1>1. \A c \in All : c \in 0 .. 255 /\ ~(c \in Aligns)
  BY SMT DEF Types, LocaleChar, Dot, Zero, Hash, Signs, Aligns
<1> QED BY ZenonT(60), <1>1 DEF Free, Bytes

\* No part begins like what may follow it.
LEMMA HeadsApart ==
  /\ Types \cap {LocaleChar} = {} /\ LocaleHeads \cap {Dot} = {} /\ LocaleHeads \cap Digits = {}
  /\ PrecisionHeads \cap Digits = {} /\ ({Zero} \cup WidthHeads) \cap {Hash} = {} /\ AlternateHeads \cap Signs = {}
BY SMT DEF Types, LocaleChar, Dot, Zero, Hash, Signs, Digits, LocaleHeads, PrecisionHeads, WidthHeads, AlternateHeads

\* What may begin each of the rests of a specification.
LEMMA PartsAreTame ==
  /\ Tame(TypeTexts, Types) /\ Tame(LocaleOn, LocaleHeads) /\ Tame(PrecisionOn, PrecisionHeads)
  /\ Tame(WidthOn, WidthHeads) /\ Tame(ZeroOn, {Zero} \cup WidthHeads) /\ Tame(AlternateOn, AlternateHeads)
  /\ Tame(SignOn, SignHeads)
<1>1. Tame(TypeTexts, Types)
  BY Zenon, LettersOfSpec, TameOne, TameMaybe DEF TypeTexts
<1>2. Tame(LocaleOn, LocaleHeads)
  <2>1. Tame(Maybe(One({LocaleChar})), {LocaleChar})
    BY Zenon, LettersOfSpec, TameOne, TameMaybe
  <2> QED BY Zenon, <1>1, <2>1, TameJoined DEF LocaleOn, LocaleHeads
<1>3. Tame(PrecisionOn, PrecisionHeads)
  <2>1. Tame(One({Dot}), {Dot}) /\ <<>> \notin One({Dot})
    <3>1. \A c : <<>> # <<c>>
      OBVIOUS
    <3> QED BY Zenon, <3>1, LettersOfSpec, TameOne DEF One
  <2>2. Tame(DotNumbers, {Dot})
    BY Zenon, <2>1, TameNumbers, TameJoined DEF DotNumbers
  <2>3. Tame(Maybe(DotNumbers), {Dot})
    BY Zenon, <2>2, TameMaybe
  <2> QED BY Zenon, <1>2, <2>3, TameJoined DEF PrecisionOn, PrecisionHeads
<1>4. Tame(WidthOn, WidthHeads)
  <2>1. Tame(Maybe(NumberTexts), Digits)
    BY Zenon, TameNumbers, TameMaybe
  <2> QED BY Zenon, <1>3, <2>1, TameJoined DEF WidthOn, WidthHeads
<1>5. Tame(ZeroOn, {Zero} \cup WidthHeads)
  <2>1. Tame(Maybe(One({Zero})), {Zero})
    BY Zenon, LettersOfSpec, TameOne, TameMaybe
  <2> QED BY Zenon, <1>4, <2>1, TameJoined DEF ZeroOn
<1>6. Tame(AlternateOn, AlternateHeads)
  <2>1. Tame(Maybe(One({Hash})), {Hash})
    BY Zenon, LettersOfSpec, TameOne, TameMaybe
  <2> QED BY Zenon, <1>5, <2>1, TameJoined DEF AlternateOn, AlternateHeads
<1>7. Tame(SignOn, SignHeads)
  <2>1. Tame(Maybe(One(Signs)), Signs)
    BY Zenon, LettersOfSpec, TameOne, TameMaybe
  <2> QED BY Zenon, <1>6, <2>1, TameJoined DEF SignOn, SignHeads
<1> QED BY <1>1, <1>2, <1>3, <1>4, <1>5, <1>6, <1>7

\* They are texts of bytes.
LEMMA PartsAreTexts ==
  /\ TypeTexts \in SUBSET Seq(Bytes) /\ LocaleOn \in SUBSET Seq(Bytes) /\ PrecisionOn \in SUBSET Seq(Bytes)
  /\ WidthOn \in SUBSET Seq(Bytes) /\ ZeroOn \in SUBSET Seq(Bytes) /\ AlternateOn \in SUBSET Seq(Bytes)
  /\ SignOn \in SUBSET Seq(Bytes) /\ \A r \in SignOn : NoAligns(r)
BY Zenon, PartsAreTame, TameIs

\* What each part does not begin with.
LEMMA PartsApart ==
  /\ NoneBegins(TypeTexts, {LocaleChar}) /\ NoneBegins(LocaleOn, {Dot}) /\ NoneBegins(LocaleOn, Digits)
  /\ NoneBegins(PrecisionOn, Digits) /\ NoneBegins(ZeroOn, {Hash}) /\ NoneBegins(AlternateOn, Signs)
<1>1. NoneBegins(TypeTexts, {LocaleChar})
  BY Zenon, PartsAreTame, HeadsApart, TameIs
<1>2. NoneBegins(LocaleOn, {Dot}) /\ NoneBegins(LocaleOn, Digits)
  BY Zenon, PartsAreTame, HeadsApart, TameIs
<1>3. NoneBegins(PrecisionOn, Digits)
  BY Zenon, PartsAreTame, HeadsApart, TameIs
<1>4. NoneBegins(ZeroOn, {Hash})
  BY Zenon, PartsAreTame, HeadsApart, TameIs
<1>5. NoneBegins(AlternateOn, Signs)
  BY Zenon, PartsAreTame, HeadsApart, TameIs
<1> QED BY <1>1, <1>2, <1>3, <1>4, <1>5

-----------------------------------------------------------------------------
\* What is left to be the type: nothing or one letter.
LEMMA TypeReads ==
  ASSUME NEW t \in Seq(Bytes)
  PROVE  t \in TypeTexts <=> t = <<>> \/ (Len(t) = 1 /\ t[1] \in Types)
<1>1. ASSUME NEW c, t = <<c>> PROVE Len(t) = 1 /\ t[1] = c
  BY <1>1
<1>2. ASSUME Len(t) = 1 PROVE t = <<t[1]>>
  BY <1>2
<1>3. t \in TypeTexts => t = <<>> \/ (Len(t) = 1 /\ t[1] \in Types)
  BY Zenon, <1>1 DEF TypeTexts, Maybe, One
<1>4. t = <<>> \/ (Len(t) = 1 /\ t[1] \in Types) => t \in TypeTexts
  BY Zenon, <1>2 DEF TypeTexts, Maybe, One
<1> QED BY <1>3, <1>4

\* skip L, and then a type: what accepts a locale and a type.
LEMMA LocaleReads ==
  ASSUME NEW s \in Seq(Bytes)
  PROVE  s \in LocaleOn <=> SkipOne(s, {LocaleChar}) \in TypeTexts
BY Zenon, PartsAreTexts, PartsApart, LettersOfSpec, SkipOneIs DEF LocaleOn

\* Behind a dot there has to be a number.
LEMMA PrecisionReads ==
  ASSUME NEW s \in Seq(Bytes)
  PROVE  /\ Begins(s, {Dot}) =>
              (s \in PrecisionOn <=> SkipValidNumber(Tail(s)) \in LocaleOn /\ SkipValidNumber(Tail(s)) # Tail(s))
         /\ ~Begins(s, {Dot}) => (s \in PrecisionOn <=> s \in LocaleOn)
<1>1. Dot \in Bytes
  BY Zenon, LettersOfSpec
<1>2. ASSUME NEW p \in Maybe(DotNumbers), NEW r \in LocaleOn, s = p \o r
      PROVE  \/ p = <<>> /\ s = r /\ ~Begins(s, {Dot})
             \/ Begins(s, {Dot}) /\ Tail(s) \in Joined(NumberTexts, LocaleOn)
  <2>1. r \in Seq(Bytes) /\ ~Begins(r, {Dot})
    BY Zenon, PartsAreTexts, PartsApart DEF NoneBegins
  <2>2. CASE p = <<>>
    <3>1. s = r
      BY <1>2, <2>1, <2>2
    <3> QED BY Zenon, <2>1, <2>2, <3>1
  <2>3. CASE p # <<>>
    <3>1. p \in Joined(One({Dot}), NumberTexts)
      BY Zenon, <2>3 DEF Maybe, DotNumbers
    <3>2. PICK o \in One({Dot}) : \E n \in NumberTexts : p = o \o n
      BY SMT, <3>1, JoinedIs
    <3>3. PICK n \in NumberTexts : p = o \o n
      BY Zenon, <3>2
    <3>4. o = <<Dot>> /\ n \in Seq(Bytes)
      BY Zenon, NumberTextIs DEF One
    <3>5. PICK t : t = n \o r
      OBVIOUS
    <3>6. t \in Joined(NumberTexts, LocaleOn)
      BY Zenon, <3>5, JoinedHas
    <3>7. <<Dot>> \in Seq(Bytes)
      BY Zenon, <1>1, OneIs
    <3>8. t \in Seq(Bytes) /\ s = <<Dot>> \o t
      BY SMT, <1>2, <2>1, <3>3, <3>4, <3>5, <3>7
    <3>9. s # <<>> /\ s[1] = Dot /\ Tail(s) = t
      BY Zenon, <1>1, <3>8, OneIs
    <3> QED BY Zenon, <3>6, <3>9 DEF Begins
  <2> QED BY <2>2, <2>3
<1>3. ASSUME s \in PrecisionOn
      PROVE  \/ s \in LocaleOn /\ ~Begins(s, {Dot})
             \/ Begins(s, {Dot}) /\ Tail(s) \in Joined(NumberTexts, LocaleOn)
  <2>1. PICK p \in Maybe(DotNumbers) : \E r \in LocaleOn : s = p \o r
    BY SMT, <1>3, JoinedIs DEF PrecisionOn
  <2> QED BY Zenon, <1>2, <2>1
<1>4. CASE Begins(s, {Dot})
  <2>1. s # <<>> /\ s[1] = Dot
    BY Zenon, <1>4 DEF Begins
  <2>2. Tail(s) \in Seq(Bytes) /\ s = <<Dot>> \o Tail(s)
    BY Zenon, <2>1, OneAndTail
  <2>3. Tail(s) \in Joined(NumberTexts, LocaleOn) <=>
          SkipValidNumber(Tail(s)) \in LocaleOn /\ SkipValidNumber(Tail(s)) # Tail(s)
    BY Zenon, <2>2, PartsAreTexts, PartsApart, SkipNumberIs
  <2>4. ASSUME Tail(s) \in Joined(NumberTexts, LocaleOn) PROVE s \in PrecisionOn
    <3>0. PICK t : t = Tail(s)
      OBVIOUS
    <3>8. t \in Joined(NumberTexts, LocaleOn)
      BY Zenon, <2>4, <3>0
    <3>1. PICK n \in NumberTexts : \E r \in LocaleOn : t = n \o r
      BY SMT, <3>8, JoinedIs
    <3>2. PICK r \in LocaleOn : Tail(s) = n \o r
      BY Zenon, <3>0, <3>1
    <3>3. PICK o : o = <<Dot>>
      OBVIOUS
    <3>4. o \in Seq(Bytes) /\ n \in Seq(Bytes) /\ r \in Seq(Bytes)
      BY Zenon, <1>1, <3>3, OneIs, NumberTextIs, PartsAreTexts
    <3>5. s = o \o (n \o r)
      BY Zenon, <2>2, <3>2, <3>3
    <3>6. s = (o \o n) \o r
      BY SMT, <3>4, <3>5
    <3>7. o \o n \in Maybe(DotNumbers)
      BY Zenon, <3>3, JoinedHas DEF Maybe, DotNumbers, One
    <3> QED BY Zenon, <3>6, <3>7, JoinedHas DEF PrecisionOn
  <2> QED BY Zenon, <1>3, <1>4, <2>3, <2>4
<1>5. CASE ~Begins(s, {Dot})
  <2>1. ASSUME s \in LocaleOn PROVE s \in PrecisionOn
    <3>1. s = <<>> \o s
      OBVIOUS
    <3>2. <<>> \in Maybe(DotNumbers)
      BY Zenon DEF Maybe
    <3>3. <<>> \o s \in PrecisionOn
      BY Zenon, <2>1, <3>2, JoinedHas DEF PrecisionOn
    <3> QED BY Zenon, <3>1, <3>3
  <2> QED BY Zenon, <1>3, <1>5, <2>1
<1> QED BY <1>4, <1>5

\* skip_valid_fmt_number(), and then the rest: what accepts a width and more.
LEMMA WidthReads ==
  ASSUME NEW s \in Seq(Bytes)
  PROVE  s \in WidthOn <=> SkipValidNumber(s) \in PrecisionOn
BY Zenon, PartsAreTexts, PartsApart, SkipNumberIs DEF WidthOn

\* A zero in front of the width; a width that is a zero is read as one.
LEMMA ZeroReads ==
  ASSUME NEW s \in Seq(Bytes)
  PROVE  s \in ZeroOn <=> SkipOne(s, {Zero}) \in WidthOn
<1>1. ASSUME SkipOne(s, {Zero}) \in WidthOn PROVE s \in ZeroOn
  <2>1. PICK a \in Maybe(One({Zero})) : s = a \o SkipOne(s, {Zero})
    BY Zenon, LettersOfSpec, SkipOneSplit
  <2> QED BY Zenon, <1>1, <2>1, JoinedHas DEF ZeroOn
<1>2. ASSUME s \in ZeroOn PROVE SkipOne(s, {Zero}) \in WidthOn
  <2>1. PICK z \in Maybe(One({Zero})) : \E t \in WidthOn : s = z \o t
    BY SMT, <1>2, JoinedIs DEF ZeroOn
  <2>2. PICK t \in WidthOn : s = z \o t
    BY Zenon, <2>1
  <2>3. t \in Seq(Bytes)
    BY Zenon, PartsAreTexts
  <2>4. CASE z # <<>>
    <3>1. z = <<Zero>>
      BY Zenon, <2>4 DEF Maybe, One
    <3>2. s # <<>> /\ s[1] = Zero /\ Tail(s) = t
      BY Zenon, <2>2, <2>3, <3>1, DigitIs, OneIs
    <3>3. SkipOne(s, {Zero}) = t
      BY Zenon, <3>2 DEF SkipOne, Begins
    <3> QED BY Zenon, <3>3
  <2>5. CASE z = <<>> /\ ~Begins(s, {Zero})
    <3>1. s = t
      BY <2>2, <2>3, <2>5
    <3>2. SkipOne(s, {Zero}) = s
      BY Zenon, <2>5 DEF SkipOne
    <3> QED BY Zenon, <3>1, <3>2
  <2>6. CASE z = <<>> /\ Begins(s, {Zero})
    <3>1. s = t
      BY <2>2, <2>3, <2>6
    <3>2. SkipValidNumber(s) \in PrecisionOn
      BY Zenon, <2>3, <3>1, WidthReads
    <3>3. SkipValidNumber(s) = SkipOne(s, {Zero})
      BY Zenon, <2>6 DEF SkipValidNumber, SkipOne
    <3>4. PICK r : r = SkipOne(s, {Zero})
      OBVIOUS
    <3>5. r \in PrecisionOn /\ r = <<>> \o r
      <4>1. r \in PrecisionOn /\ r \in Seq(Bytes)
        BY Zenon, <3>2, <3>3, <3>4, PartsAreTexts
      <4> QED BY <4>1
    <3>6. <<>> \in Maybe(NumberTexts)
      BY Zenon DEF Maybe
    <3>7. <<>> \o r \in WidthOn
      BY Zenon, <3>5, <3>6, JoinedHas DEF WidthOn
    <3> QED BY Zenon, <3>4, <3>5, <3>7
  <2> QED BY <2>4, <2>5, <2>6
<1> QED BY <1>1, <1>2

\* The same of #.
LEMMA AlternateReads ==
  ASSUME NEW s \in Seq(Bytes)
  PROVE  s \in AlternateOn <=> SkipOne(s, {Hash}) \in ZeroOn
BY Zenon, PartsAreTexts, PartsApart, LettersOfSpec, SkipOneIs DEF AlternateOn

\* The same of a sign.
LEMMA SignReads ==
  ASSUME NEW s \in Seq(Bytes)
  PROVE  s \in SignOn <=> SkipOne(s, Signs) \in AlternateOn
BY Zenon, PartsAreTexts, PartsApart, LettersOfSpec, SkipOneIs DEF SignOn

\* The same of fill and align: skip_fill_align() leaves the rest of a specification.
LEMMA FillReads ==
  ASSUME NEW s \in Seq(Bytes)
  PROVE  s \in SpecTexts <=> SkipFillAlign(s) \in SignOn
BY Zenon, PartsAreTexts, SkipFillReads DEF SpecTexts

\* The cases of valid_format_spec().
LEMMA ValidCases ==
  ASSUME NEW s, NEW w, w = SkipValidNumber(SkipSignAlt0(SkipFillAlign(s)))
  PROVE  /\ Begins(w, {Dot}) =>
              (ValidFormatSpec(s) <=>
                 LET t == SkipOne(SkipValidNumber(Tail(w)), {LocaleChar})
                 IN  SkipValidNumber(Tail(w)) # Tail(w) /\ (t = <<>> \/ (Len(t) = 1 /\ t[1] \in Types)))
         /\ ~Begins(w, {Dot}) =>
              (ValidFormatSpec(s) <=>
                 LET t == SkipOne(w, {LocaleChar})
                 IN  t = <<>> \/ (Len(t) = 1 /\ t[1] \in Types))
<1>1. CASE Begins(w, {Dot})
  <2>1. PICK p : p = SkipValidNumber(Tail(w))
    OBVIOUS
  <2>2. p = IF Begins(w, {Dot}) THEN SkipValidNumber(Tail(w)) ELSE w
    BY Zenon, <1>1, <2>1
  <2>3. ValidFormatSpec(s) <=>
          LET t == SkipOne(p, {LocaleChar})
          IN  /\ Begins(w, {Dot}) => p # Tail(w)
              /\ t = <<>> \/ (Len(t) = 1 /\ t[1] \in Types)
    BY Zenon, <2>2 DEF ValidFormatSpec
  <2> QED BY Zenon, <1>1, <2>1, <2>3
<1>2. CASE ~Begins(w, {Dot})
  <2>2. w = IF Begins(w, {Dot}) THEN SkipValidNumber(Tail(w)) ELSE w
    BY Zenon, <1>2
  <2>3. ValidFormatSpec(s) <=>
          LET t == SkipOne(w, {LocaleChar})
          IN  /\ Begins(w, {Dot}) => w # Tail(w)
              /\ t = <<>> \/ (Len(t) = 1 /\ t[1] \in Types)
    BY Zenon, <2>2 DEF ValidFormatSpec
  <2> QED BY Zenon, <1>2, <2>3
<1> QED BY Zenon, <1>1, <1>2

\* valid_format_spec() accepts what has the parts of a specification, in their
\* order, and nothing else: every text of bytes.
THEOREM ValidIsSpec ==
  ASSUME NEW s \in Seq(Bytes)
  PROVE  ValidFormatSpec(s) <=> s \in SpecTexts
<1>1. PICK a : a = SkipFillAlign(s)
  OBVIOUS
<1>2. PICK b : b = SkipOne(a, Signs)
  OBVIOUS
<1>3. PICK c : c = SkipOne(b, {Hash})
  OBVIOUS
<1>4. PICK d : d = SkipOne(c, {Zero})
  OBVIOUS
<1>5. PICK w : w = SkipValidNumber(d)
  OBVIOUS
<1>6. a \in Seq(Bytes) /\ b \in Seq(Bytes) /\ c \in Seq(Bytes) /\ d \in Seq(Bytes) /\ w \in Seq(Bytes)
  <2>1. a \in Seq(Bytes)
    BY Zenon, <1>1, SkipFillSplit
  <2>2. b \in Seq(Bytes)
    BY Zenon, <1>2, <2>1, LettersOfSpec, SkipOneSplit
  <2>3. c \in Seq(Bytes)
    BY Zenon, <1>3, <2>2, LettersOfSpec, SkipOneSplit
  <2>4. d \in Seq(Bytes)
    BY Zenon, <1>4, <2>3, LettersOfSpec, SkipOneSplit
  <2>5. w \in Seq(Bytes)
    BY Zenon, <1>5, <2>4, SkipNumberSplit
  <2> QED BY <2>1, <2>2, <2>3, <2>4, <2>5
<1>7. s \in SpecTexts <=> w \in PrecisionOn
  <2>1. s \in SpecTexts <=> a \in SignOn
    BY Zenon, <1>1, FillReads
  <2>2. a \in SignOn <=> b \in AlternateOn
    BY Zenon, <1>2, <1>6, SignReads
  <2>3. b \in AlternateOn <=> c \in ZeroOn
    BY Zenon, <1>3, <1>6, AlternateReads
  <2>4. c \in ZeroOn <=> d \in WidthOn
    BY Zenon, <1>4, <1>6, ZeroReads
  <2>5. d \in WidthOn <=> w \in PrecisionOn
    BY Zenon, <1>5, <1>6, WidthReads
  <2> QED BY Zenon, <2>1, <2>2, <2>3, <2>4, <2>5
<1>8. w = SkipValidNumber(SkipSignAlt0(SkipFillAlign(s)))
  BY Zenon, <1>1, <1>2, <1>3, <1>4, <1>5 DEF SkipSignAlt0
<1>9. CASE Begins(w, {Dot})
  <2>1. PICK p : p = SkipValidNumber(Tail(w))
    OBVIOUS
  <2>2. PICK t : t = SkipOne(p, {LocaleChar})
    OBVIOUS
  <2>3. p \in Seq(Bytes) /\ t \in Seq(Bytes)
    <3>1. w # <<>>
      BY Zenon, <1>9 DEF Begins
    <3>2. Tail(w) \in Seq(Bytes)
      BY Zenon, <1>6, <3>1, OneAndTail
    <3>3. p \in Seq(Bytes)
      BY Zenon, <2>1, <3>2, SkipNumberSplit
    <3> QED BY Zenon, <2>2, <3>3, LettersOfSpec, SkipOneSplit
  <2>4. ValidFormatSpec(s) <=> p # Tail(w) /\ (t = <<>> \/ (Len(t) = 1 /\ t[1] \in Types))
    BY Zenon, <1>8, <1>9, <2>1, <2>2, ValidCases
  <2>5. w \in PrecisionOn <=> p \in LocaleOn /\ p # Tail(w)
    BY Zenon, <1>6, <1>9, <2>1, PrecisionReads
  <2>6. p \in LocaleOn <=> t \in TypeTexts
    BY Zenon, <2>2, <2>3, LocaleReads
  <2>7. t \in TypeTexts <=> t = <<>> \/ (Len(t) = 1 /\ t[1] \in Types)
    BY Zenon, <2>3, TypeReads
  <2> QED BY Zenon, <1>7, <2>4, <2>5, <2>6, <2>7
<1>10. CASE ~Begins(w, {Dot})
  <2>1. PICK t : t = SkipOne(w, {LocaleChar})
    OBVIOUS
  <2>2. t \in Seq(Bytes)
    BY Zenon, <1>6, <2>1, LettersOfSpec, SkipOneSplit
  <2>3. ValidFormatSpec(s) <=> t = <<>> \/ (Len(t) = 1 /\ t[1] \in Types)
    BY Zenon, <1>8, <1>10, <2>1, ValidCases
  <2>4. w \in PrecisionOn <=> w \in LocaleOn
    BY Zenon, <1>6, <1>10, PrecisionReads
  <2>5. w \in LocaleOn <=> t \in TypeTexts
    BY Zenon, <1>6, <2>1, LocaleReads
  <2>6. t \in TypeTexts <=> t = <<>> \/ (Len(t) = 1 /\ t[1] \in Types)
    BY Zenon, <2>2, TypeReads
  <2> QED BY Zenon, <1>7, <2>3, <2>4, <2>5, <2>6
<1> QED BY <1>9, <1>10

-----------------------------------------------------------------------------
(* The specifications of an alphabet, up to a length. *)

\* The texts of the alphabet, and no longer than MaxLength; sets with the same
\* texts among them.
Short           == {s \in Seq(Alphabet) : Len(s) <= MaxLength}
SameShort(A, K) == A \subseteq Seq(Bytes) /\ K \subseteq Seq(Bytes) /\ A \cap Short = K \cap Short

\* A text of one byte.
LEMMA LetterIs == ASSUME NEW c \in Bytes PROVE <<c>> \in Seq(Bytes)
OBVIOUS

\* The same parts may be left out.
LEMMA SameMaybe ==
  ASSUME NEW A, NEW K, SameShort(A, K)
  PROVE  SameShort(Maybe(A), Maybe(K))
<1>1. <<>> \in Seq(Bytes)
  OBVIOUS
<1>2. Maybe(A) \subseteq Seq(Bytes) /\ Maybe(K) \subseteq Seq(Bytes)
  BY Zenon, <1>1 DEF SameShort, Maybe
<1>3. Maybe(A) \cap Short = Maybe(K) \cap Short
  BY Zenon DEF SameShort, Maybe
<1> QED BY Zenon, <1>2, <1>3 DEF SameShort

\* The same sets may be joined.
LEMMA SameUnion ==
  ASSUME NEW A, NEW K, SameShort(A, K), NEW B, NEW L, SameShort(B, L)
  PROVE  SameShort(A \cup B, K \cup L)
<1>1. A \cup B \subseteq Seq(Bytes) /\ K \cup L \subseteq Seq(Bytes)
  BY Zenon DEF SameShort
<1>2. (A \cup B) \cap Short = (K \cup L) \cap Short
  BY Zenon DEF SameShort
<1> QED BY Zenon, <1>1, <1>2 DEF SameShort

\* The same bytes are a part.
LEMMA SameOne ==
  ASSUME NEW C \in SUBSET Bytes
  PROVE  SameShort(Letters(C), One(C))
<1>1. \A c \in Bytes : <<c>> \in Seq(Bytes)
  OBVIOUS
<1>2. \A c : <<c>> \in Seq(Alphabet) => c \in Alphabet
  <2>1. SUFFICES ASSUME NEW c, <<c>> \in Seq(Alphabet) PROVE c \in Alphabet
    OBVIOUS
  <2>2. PICK o : o = <<c>>
    OBVIOUS
  <2>3. 1 \in 1 .. Len(o) /\ o[1] = c
    BY <2>2
  <2>4. o \in Seq(Alphabet)
    BY <2>1, <2>2
  <2> QED BY <2>3, <2>4
<1>3. \A c : <<c>> \in Short => c \in Alphabet
  BY Zenon, <1>2 DEF Short
<1>4. Letters(C) \subseteq Seq(Bytes) /\ One(C) \subseteq Seq(Bytes)
  BY Zenon, <1>1 DEF Letters, One
<1>5. Letters(C) \cap Short = One(C) \cap Short
  BY Zenon, <1>3 DEF Letters, One
<1> QED BY Zenon, <1>4, <1>5 DEF SameShort

\* A text of two parts is not too long.
LEMMA CatIs ==
  ASSUME NEW A, NEW B, NEW c
  PROVE  c \in Cat(A, B) <=> c \in Joined(A, B) /\ Len(c) <= MaxLength
BY DEF Cat, Joined

\* The parts of a text of the alphabet are such texts.
LEMMA ShortParts ==
  ASSUME NEW a \in Seq(Bytes), NEW b \in Seq(Bytes), a \o b \in Short
  PROVE  a \in Short /\ b \in Short
<1>1. PICK z : z = a \o b
  OBVIOUS
<1>2. z \in Seq(Alphabet) /\ Len(z) <= MaxLength /\ MaxLength \in Nat
  BY Zenon, <1>1, FormatSpecAssumption DEF Short, FormatSpecAssumption
<1>3. PICK n \in Nat : n = Len(a)
  OBVIOUS
<1>4. PICK l \in Nat : l = Len(b)
  OBVIOUS
<1>5. Len(z) = n + l /\ (\A i \in 1 .. n : z[i] = a[i]) /\ (\A i \in 1 .. l : z[n + i] = b[i])
  BY <1>1, <1>3, <1>4
<1>6. \A i \in 1 .. n : a[i] \in Alphabet
  BY <1>2, <1>5
<1>7. \A i \in 1 .. l : b[i] \in Alphabet
  BY <1>2, <1>5
<1>8. a \in Seq(Alphabet) /\ b \in Seq(Alphabet)
  BY <1>3, <1>4, <1>6, <1>7
<1>9. Len(a) <= MaxLength /\ Len(b) <= MaxLength
  BY <1>2, <1>3, <1>4, <1>5
<1> QED BY Zenon, <1>8, <1>9 DEF Short

\* A product of languages, as far as the alphabet and the length go.
LEMMA SameCat ==
  ASSUME NEW A, NEW K, SameShort(A, K), NEW B, NEW L, SameShort(B, L)
  PROVE  SameShort(Cat(A, B), Joined(K, L))
<1>1. ASSUME NEW X, NEW Y, X \subseteq Seq(Bytes), Y \subseteq Seq(Bytes), NEW c \in Joined(X, Y)
      PROVE  c \in Seq(Bytes) /\ (c \in Short => c \in Joined(X \cap Short, Y \cap Short))
  <2>1. PICK x \in X : \E y \in Y : c = x \o y
    BY SMT, JoinedIs
  <2>2. PICK y \in Y : c = x \o y
    BY Zenon, <2>1
  <2>3. x \in Seq(Bytes) /\ y \in Seq(Bytes)
    BY Zenon, <1>1
  <2>4. c \in Seq(Bytes)
    BY Zenon, <2>2, <2>3, BehindPart
  <2>5. ASSUME c \in Short PROVE c \in Joined(X \cap Short, Y \cap Short)
    <3>1. x \in X \cap Short /\ y \in Y \cap Short
      BY Zenon, <2>2, <2>3, <2>5, ShortParts
    <3> QED BY Zenon, <2>2, <3>1, JoinedHas
  <2> QED BY <2>4, <2>5
<1>2. A \subseteq Seq(Bytes) /\ B \subseteq Seq(Bytes) /\ K \subseteq Seq(Bytes) /\ L \subseteq Seq(Bytes)
  BY Zenon DEF SameShort
<1>3. Cat(A, B) \subseteq Seq(Bytes) /\ Joined(K, L) \subseteq Seq(Bytes)
  BY Zenon, <1>1, <1>2, CatIs
<1>4. \A X, Y, V, W : X \cap Short \subseteq V /\ Y \cap Short \subseteq W =>
        Joined(X \cap Short, Y \cap Short) \subseteq Joined(V, W)
  BY SMT DEF Joined
<1>5. Joined(A \cap Short, B \cap Short) \subseteq Joined(K, L) /\ Joined(K \cap Short, L \cap Short) \subseteq Joined(A, B)
  <2>1. A \cap Short \subseteq K /\ B \cap Short \subseteq L /\ K \cap Short \subseteq A /\ L \cap Short \subseteq B
    BY Zenon DEF SameShort
  <2> QED BY Zenon, <1>4, <2>1
<1>6. ASSUME NEW c \in Short PROVE c \in Cat(A, B) <=> c \in Joined(K, L)
  <2>1. Len(c) <= MaxLength
    BY Zenon DEF Short
  <2>2. c \in Cat(A, B) <=> c \in Joined(A, B)
    BY Zenon, <2>1, CatIs
  <2> QED BY Zenon, <1>1, <1>2, <1>5, <2>2
<1> QED BY Zenon, <1>3, <1>6 DEF SameShort

\* The digits behind the first
SomeDigits  == {x \in Seq(Bytes) : Len(x) <= 3 /\ \A i \in 1 .. Len(x) : x[i] \in Digits}
ShortDigits == UNION {[1 .. k -> Digits \cap Alphabet] : k \in 0 .. 3}

\* The same digits may follow the first one.
LEMMA SameDigits == SameShort(ShortDigits, SomeDigits)
<1>1. ASSUME NEW x \in ShortDigits PROVE x \in Seq(Bytes) /\ x \in SomeDigits
  <2>1. PICK n \in 0 .. 3 : x \in [1 .. n -> Digits \cap Alphabet]
    BY DEF ShortDigits
  <2>2. \A i \in 1 .. n : x[i] \in Digits /\ x[i] \in Bytes
    BY Zenon, <2>1, DigitIs
  <2>3. PICK D : D = Digits \cap Alphabet
    OBVIOUS
  <2>4. x \in Seq(D) /\ Len(x) = n
    BY <2>1, <2>3
  <2>5. x \in Seq(Bytes)
    BY <2>2, <2>4
  <2> QED BY <2>2, <2>4, <2>5 DEF SomeDigits
<1>2. ASSUME NEW x \in SomeDigits, x \in Short PROVE x \in ShortDigits
  <2>1. x \in Seq(Alphabet)
    BY Zenon, <1>2 DEF Short
  <2>2. Len(x) \in 0 .. 3 /\ \A i \in 1 .. Len(x) : x[i] \in Digits
    <3>1. Len(x) <= 3 /\ \A i \in 1 .. Len(x) : x[i] \in Digits
      BY Zenon DEF SomeDigits
    <3>2. PICK l \in Nat : l = Len(x)
      BY SMT, <2>1
    <3>3. l <= 3
      BY Zenon, <3>1, <3>2
    <3>4. l \in 0 .. 3
      BY SMT, <3>3
    <3> QED BY Zenon, <3>1, <3>2, <3>4
  <2>3. \A i \in 1 .. Len(x) : x[i] \in Alphabet
    BY <2>1
  <2>4. x \in [1 .. Len(x) -> Digits \cap Alphabet]
    BY <2>1, <2>2, <2>3
  <2> QED BY Zenon, <2>2, <2>4 DEF ShortDigits
<1>3. SomeDigits \subseteq Seq(Bytes)
  BY Zenon DEF SomeDigits
<1> QED BY Zenon, <1>1, <1>2, <1>3 DEF SameShort

\* A number is a zero, or a digit that is none and up to three more.
LEMMA NumberTextsAre == NumberTexts = One({Zero}) \cup Joined(One(Digits \ {Zero}), SomeDigits)
<1>1. ASSUME NEW n \in NumberTexts, n # <<Zero>> PROVE n \in Joined(One(Digits \ {Zero}), SomeDigits)
  <2>1. /\ n \in Seq(Bytes) /\ n # <<>> /\ Len(n) \in 1 .. 4 /\ \A i \in 1 .. Len(n) : n[i] \in Digits
        /\ n[1] # Zero
    BY Zenon, <1>1, NumberTextIs
  <2>2. PICK t : t = Tail(n)
    OBVIOUS
  <2>3. t \in Seq(Bytes) /\ Len(t) = Len(n) - 1 /\ n = <<n[1]>> \o t
    BY Zenon, <2>1, <2>2, OneAndTail
  <2>4. \A i \in 1 .. Len(t) : t[i] = n[i + 1] /\ i + 1 \in 1 .. Len(n)
    BY <2>1, <2>2, <2>3
  <2>5. Len(t) <= 3 /\ 1 \in 1 .. Len(n)
    BY <2>1, <2>3
  <2>6. t \in SomeDigits
    BY Zenon, <2>1, <2>3, <2>4, <2>5 DEF SomeDigits
  <2>7. <<n[1]>> \in One(Digits \ {Zero})
    BY Zenon, <2>1, <2>5 DEF One
  <2> QED BY Zenon, <2>3, <2>6, <2>7, JoinedHas
<1>2. ASSUME NEW n \in Joined(One(Digits \ {Zero}), SomeDigits) PROVE n \in NumberTexts
  <2>1. PICK o \in One(Digits \ {Zero}) : \E t \in SomeDigits : n = o \o t
    BY SMT, JoinedIs
  <2>2. PICK t \in SomeDigits : n = o \o t
    BY Zenon, <2>1
  <2>3. PICK d \in Digits : d # Zero /\ o = <<d>>
    BY Zenon DEF One
  <2>4. t \in Seq(Bytes) /\ Len(t) <= 3 /\ \A i \in 1 .. Len(t) : t[i] \in Digits
    BY Zenon DEF SomeDigits
  <2>5. PICK D : D = Digits
    OBVIOUS
  <2>6. t \in Seq(D)
    BY <2>4, <2>5
  <2>7. d \in D
    BY Zenon, <2>5
  <2>8. n \in Seq(D) /\ Len(n) \in 1 .. 4 /\ n[1] = d
    BY SMT, <2>2, <2>3, <2>4, <2>6, <2>7
  <2>9. IsNumber(n)
    BY Zenon, <2>3, <2>5, <2>8 DEF IsNumber
  <2>10. n \in Seq(Bytes)
    <3>1. o \in Seq(Bytes)
      BY Zenon, <2>3, DigitIs, LetterIs
    <3> QED BY Zenon, <2>2, <2>4, <3>1, BehindPart
  <2> QED BY Zenon, <2>9, <2>10 DEF NumberTexts
<1>3. <<Zero>> \in NumberTexts
  <2>1. <<Zero>> \in Seq(Bytes)
    BY Zenon, DigitIs, LetterIs
  <2> QED BY Zenon, <2>1 DEF NumberTexts, IsNumber
<1> QED BY Zenon, <1>1, <1>2, <1>3 DEF One

\* The same numbers may be written.
LEMMA SameNumbers == SameShort(Numbers, NumberTexts)
<1>1. SameShort(Letters({Zero}), One({Zero}))
  BY Zenon, LettersOfSpec, SameOne
<1>2. SameShort(Letters(Digits \ {Zero}), One(Digits \ {Zero}))
  <2>1. Digits \ {Zero} \subseteq Bytes
    BY Zenon, DigitIs
  <2> QED BY Zenon, <2>1, SameOne
<1>3. SameShort(Cat(Letters(Digits \ {Zero}), ShortDigits), Joined(One(Digits \ {Zero}), SomeDigits))
  BY Zenon, <1>2, SameDigits, SameCat
<1>4. Numbers = Letters({Zero}) \cup Cat(Letters(Digits \ {Zero}), ShortDigits)
  BY Zenon DEF Numbers, DigitTexts, ShortDigits
<1> QED BY Zenon, <1>1, <1>3, <1>4, NumberTextsAre, SameUnion

\* The same fills may be written.
LEMMA SameFills == SameShort(Fills, FillTexts)
<1>0. Fills = {f \in UNION {[1 .. n -> Alphabet] : n \in 1 .. 4} : IsFill(f)}
  BY Zenon DEF Fills, FillTextsOf
<1>1. ASSUME NEW f \in Fills PROVE f \in FillTexts
  <2>1. IsFill(f)
    BY Zenon, <1>0
  <2>2. f \in Seq(Bytes)
    BY Zenon, <2>1 DEF IsFill, IsCharacter
  <2> QED BY Zenon, <2>1, <2>2 DEF FillTexts
<1>2. ASSUME NEW f \in FillTexts, f \in Short PROVE f \in Fills
  <2>1. f \in Seq(Alphabet)
    BY Zenon, <1>2 DEF Short
  <2>2. Len(f) \in 1 .. 4
    BY Zenon, FillTextIs, EncodedIsSequence
  <2>3. f \in [1 .. Len(f) -> Alphabet]
    BY <2>1
  <2>4. IsFill(f)
    BY Zenon DEF FillTexts
  <2>5. f \in UNION {[1 .. n -> Alphabet] : n \in 1 .. 4}
    BY Zenon, <2>2, <2>3
  <2> QED BY Zenon, <1>0, <2>4, <2>5
<1>3. FillTexts \subseteq Seq(Bytes)
  BY Zenon DEF FillTexts
<1> QED BY Zenon, <1>1, <1>2, <1>3 DEF SameShort

\* Which part is joined to the next one first makes no difference.
LEMMA JoinedTwice ==
  ASSUME NEW A \in SUBSET Seq(Bytes), NEW B \in SUBSET Seq(Bytes), NEW C \in SUBSET Seq(Bytes)
  PROVE  Joined(Joined(A, B), C) = Joined(A, Joined(B, C))
<1>1. ASSUME NEW a \in Seq(Bytes), NEW b \in Seq(Bytes), NEW c \in Seq(Bytes) PROVE (a \o b) \o c = a \o (b \o c)
  OBVIOUS
<1>2. ASSUME NEW X, NEW Y, NEW z \in Joined(X, Y) PROVE \E x \in X : \E y \in Y : z = x \o y
  BY SMT, JoinedIs
<1>3. PICK D : D = Joined(A, B)
  OBVIOUS
<1>4. PICK E : E = Joined(B, C)
  OBVIOUS
<1>5. ASSUME NEW y \in D PROVE \E a \in A : \E b \in B : y = a \o b
  <2>1. y \in Joined(A, B)
    BY Zenon, <1>3
  <2> QED BY SMT, <2>1, JoinedIs
<1>6. ASSUME NEW y \in E PROVE \E b \in B : \E c \in C : y = b \o c
  <2>1. y \in Joined(B, C)
    BY Zenon, <1>4
  <2> QED BY SMT, <2>1, JoinedIs
<1>7. ASSUME NEW z \in Joined(D, C) PROVE z \in Joined(A, E)
  <2>1. PICK y \in D : \E c \in C : z = y \o c
    BY SMT, <1>2
  <2>2. PICK c \in C : z = y \o c
    BY Zenon, <2>1
  <2>3. PICK a \in A : \E b \in B : y = a \o b
    BY Zenon, <1>5
  <2>4. PICK b \in B : y = a \o b
    BY Zenon, <2>3
  <2>5. z = a \o (b \o c)
    BY Zenon, <1>1, <2>2, <2>4
  <2> QED BY Zenon, <1>4, <2>5, JoinedHas
<1>8. ASSUME NEW z \in Joined(A, E) PROVE z \in Joined(D, C)
  <2>1. PICK a \in A : \E y \in E : z = a \o y
    BY SMT, <1>2
  <2>2. PICK y \in E : z = a \o y
    BY Zenon, <2>1
  <2>3. PICK b \in B : \E c \in C : y = b \o c
    BY Zenon, <1>6
  <2>4. PICK c \in C : y = b \o c
    BY Zenon, <2>3
  <2>5. z = (a \o b) \o c
    BY Zenon, <1>1, <2>2, <2>4
  <2> QED BY Zenon, <1>3, <2>5, JoinedHas
<1> QED BY Zenon, <1>3, <1>4, <1>7, <1>8

\* The specifications of the formatter, as far as the alphabet and the length go,
\* are those of their parts.
LEMMA LanguageIsSpec ==
  ASSUME NEW s \in Short
  PROVE  s \in Language <=> s \in SpecTexts
<1>1. SameShort(LocaleAndType, LocaleOn)
  <2>1. SameShort(Maybe(Letters({LocaleChar})), Maybe(One({LocaleChar})))
    BY Zenon, LettersOfSpec, SameOne, SameMaybe
  <2>2. SameShort(Maybe(Letters(Types)), TypeTexts)
    BY Zenon, LettersOfSpec, SameOne, SameMaybe DEF TypeTexts
  <2> QED BY Zenon, <2>1, <2>2, SameCat DEF LocaleAndType, LocaleOn
<1>2. PICK P : P = Cat(Maybe(Cat(Letters({Dot}), Numbers)), LocaleAndType)
  OBVIOUS
<1>3. SameShort(P, PrecisionOn)
  <2>1. SameShort(Letters({Dot}), One({Dot}))
    BY Zenon, LettersOfSpec, SameOne
  <2>2. SameShort(Cat(Letters({Dot}), Numbers), DotNumbers)
    BY Zenon, <2>1, SameNumbers, SameCat DEF DotNumbers
  <2>3. SameShort(Maybe(Cat(Letters({Dot}), Numbers)), Maybe(DotNumbers))
    BY Zenon, <2>2, SameMaybe
  <2> QED BY Zenon, <1>1, <1>2, <2>3, SameCat DEF PrecisionOn
<1>4. SameShort(Cat(Widths, P), ZeroOn)
  <2>1. PICK Z : Z = Maybe(One({Zero}))
    OBVIOUS
  <2>2. PICK N : N = Maybe(NumberTexts)
    OBVIOUS
  <2>3. SameShort(Maybe(Letters({Zero})), Z)
    BY Zenon, <2>1, LettersOfSpec, SameOne, SameMaybe
  <2>4. SameShort(Maybe(Numbers), N)
    BY Zenon, <2>2, SameNumbers, SameMaybe
  <2>5. SameShort(Cat(Widths, P), Joined(Joined(Z, N), PrecisionOn))
    BY Zenon, <1>3, <2>3, <2>4, SameCat DEF Widths
  <2>6. Z \in SUBSET Seq(Bytes) /\ N \in SUBSET Seq(Bytes)
    BY Zenon, <2>3, <2>4 DEF SameShort
  <2>7. Joined(Joined(Z, N), PrecisionOn) = Joined(Z, Joined(N, PrecisionOn))
    <3>1. PrecisionOn \in SUBSET Seq(Bytes)
      BY Zenon, PartsAreTexts
    <3> QED BY Zenon, <2>6, <3>1, JoinedTwice
  <2>8. ZeroOn = Joined(Z, Joined(N, PrecisionOn))
    BY Zenon, <2>1, <2>2 DEF ZeroOn, WidthOn
  <2> QED BY Zenon, <2>5, <2>7, <2>8
<1>5. PICK W : W = Cat(Widths, P)
  OBVIOUS
<1>6. PICK S : S = Cat(Maybe(Letters(Signs)), Cat(Maybe(Letters({Hash})), W))
  OBVIOUS
<1>7. SameShort(S, SignOn)
  <2>1. SameShort(Maybe(Letters(Signs)), Maybe(One(Signs)))
    BY Zenon, LettersOfSpec, SameOne, SameMaybe
  <2>2. SameShort(Maybe(Letters({Hash})), Maybe(One({Hash})))
    BY Zenon, LettersOfSpec, SameOne, SameMaybe
  <2>3. SameShort(W, ZeroOn)
    BY Zenon, <1>4, <1>5
  <2>4. SameShort(Cat(Maybe(Letters({Hash})), W), AlternateOn)
    BY Zenon, <2>2, <2>3, SameCat DEF AlternateOn
  <2> QED BY Zenon, <1>6, <2>1, <2>4, SameCat DEF SignOn
<1>8. PICK A : A = Maybe(Cat(Maybe(Fills), Letters(Aligns)))
  OBVIOUS
<1>9. SameShort(A, FillAlignTexts)
  <2>1. SameShort(Maybe(Fills), Maybe(FillTexts))
    BY Zenon, SameFills, SameMaybe
  <2>2. SameShort(Letters(Aligns), One(Aligns))
    BY Zenon, AlignIs, SameOne
  <2>3. SameShort(Cat(Maybe(Fills), Letters(Aligns)), Joined(Maybe(FillTexts), One(Aligns)))
    BY Zenon, <2>1, <2>2, SameCat
  <2> QED BY Zenon, <1>8, <2>3, SameMaybe DEF FillAlignTexts
<1>10. Language = Cat(A, S)
  BY Zenon, <1>2, <1>5, <1>6, <1>8 DEF Language, SpecsOf
<1>11. SameShort(Language, SpecTexts)
  BY Zenon, <1>7, <1>9, <1>10, SameCat DEF SpecTexts
<1> QED BY Zenon, <1>11 DEF SameShort

-----------------------------------------------------------------------------
(* What the formatter accepts, and std::format. *)

\* A product of languages has the texts of two parts that are not too long.
LEMMA CatHas ==
  ASSUME NEW A, NEW B, NEW a \in A, NEW b \in B, Len(a \o b) <= MaxLength
  PROVE  a \o b \in Cat(A, B)
BY DEF Cat

\* A product of languages has more texts where a factor has.
LEMMA CatGrows ==
  \A A, B, C : A \subseteq B => Cat(A, C) \subseteq Cat(B, C) /\ Cat(C, A) \subseteq Cat(C, B)
BY DEF Cat

\* Where a factor is a union, its texts are those of the products of its sets.
LEMMA CatOfUnion ==
  \A A, B, C : Cat(A, B \cup C) \subseteq Cat(A, B) \cup Cat(A, C) /\ Cat(A \cup B, C) \subseteq Cat(A, C) \cup Cat(B, C)
BY DEF Cat

\* What may be left out is more, too.
LEMMA MaybeGrows == ASSUME NEW A, NEW C, A \subseteq C PROVE Maybe(A) \subseteq Maybe(C)
BY DEF Maybe

\* The specifications with more fills, widths and precisions are more.
LEMMA SpecsGrow ==
  ASSUME NEW F, NEW G, NEW W, NEW X, NEW N, NEW M, F \subseteq G, W \subseteq X, N \subseteq M
  PROVE  SpecsOf(F, W, N) \subseteq SpecsOf(G, X, M)
<1>1. ASSUME NEW A, NEW B, NEW C, NEW D, A \subseteq C, B \subseteq D PROVE Cat(A, B) \subseteq Cat(C, D)
  <2>1. Cat(A, B) \subseteq Cat(C, B) /\ Cat(C, B) \subseteq Cat(C, D)
    BY Zenon, <1>1, CatGrows
  <2> QED BY Zenon, <2>1
<1>2. PICK O : O = Letters({Dot})
  OBVIOUS
<1>3. PICK R : R = LocaleAndType
  OBVIOUS
<1>4. PICK P : P = Cat(Maybe(Cat(O, N)), R)
  OBVIOUS
<1>5. PICK Q : Q = Cat(Maybe(Cat(O, M)), R)
  OBVIOUS
<1>6. P \subseteq Q
  <2>1. Cat(O, N) \subseteq Cat(O, M)
    BY Zenon, CatGrows
  <2>2. Maybe(Cat(O, N)) \subseteq Maybe(Cat(O, M))
    BY Zenon, <2>1, MaybeGrows
  <2> QED BY Zenon, <1>4, <1>5, <2>2, CatGrows
<1>7. PICK H : H = Maybe(Letters({Hash}))
  OBVIOUS
<1>8. PICK S : S = Maybe(Letters(Signs))
  OBVIOUS
<1>9. Cat(W, P) \subseteq Cat(X, Q)
  BY Zenon, <1>1, <1>6
<1>10. Cat(H, Cat(W, P)) \subseteq Cat(H, Cat(X, Q))
  BY Zenon, <1>9, CatGrows
<1>11. Cat(S, Cat(H, Cat(W, P))) \subseteq Cat(S, Cat(H, Cat(X, Q)))
  BY Zenon, <1>10, CatGrows
<1>12. PICK L : L = Letters(Aligns)
  OBVIOUS
<1>13. Maybe(Cat(Maybe(F), L)) \subseteq Maybe(Cat(Maybe(G), L))
  <2>1. Maybe(F) \subseteq Maybe(G)
    BY Zenon, MaybeGrows
  <2>2. Cat(Maybe(F), L) \subseteq Cat(Maybe(G), L)
    BY Zenon, <2>1, CatGrows
  <2> QED BY Zenon, <2>2, MaybeGrows
<1>14. PICK K : K = Cat(Maybe(Cat(Maybe(F), L)), Cat(S, Cat(H, Cat(W, P))))
  OBVIOUS
<1>15. PICK J : J = Cat(Maybe(Cat(Maybe(G), L)), Cat(S, Cat(H, Cat(X, Q))))
  OBVIOUS
<1>16. K \subseteq J
  <2>1. PICK U : U = Maybe(Cat(Maybe(F), L))
    OBVIOUS
  <2>2. PICK V : V = Maybe(Cat(Maybe(G), L))
    OBVIOUS
  <2>3. PICK Y : Y = Cat(S, Cat(H, Cat(W, P)))
    OBVIOUS
  <2>4. PICK Z : Z = Cat(S, Cat(H, Cat(X, Q)))
    OBVIOUS
  <2>5. U \subseteq V /\ Y \subseteq Z
    BY Zenon, <1>11, <1>13, <2>1, <2>2, <2>3, <2>4
  <2>6. Cat(U, Y) \subseteq Cat(V, Z)
    BY Zenon, <1>1, <2>5
  <2> QED BY Zenon, <1>14, <1>15, <2>1, <2>2, <2>3, <2>4, <2>6
<1>17. SpecsOf(F, W, N) = K
  BY Zenon, <1>2, <1>3, <1>4, <1>7, <1>8, <1>12, <1>14 DEF SpecsOf
<1>18. SpecsOf(G, X, M) = J
  BY Zenon, <1>2, <1>3, <1>5, <1>7, <1>8, <1>12, <1>15 DEF SpecsOf
<1> QED BY Zenon, <1>16, <1>17, <1>18

\* Each width of two sets is one of either.
LEMMA SpecsOfUnion ==
  ASSUME NEW F, NEW W, NEW X, NEW N
  PROVE  SpecsOf(F, W \cup X, N) \subseteq SpecsOf(F, W, N) \cup SpecsOf(F, X, N)
<1>1. PICK P : P = Cat(Maybe(Cat(Letters({Dot}), N)), LocaleAndType)
  OBVIOUS
<1>2. PICK A : A = Maybe(Cat(Maybe(F), Letters(Aligns)))
  OBVIOUS
<1>3. PICK S : S = Maybe(Letters(Signs))
  OBVIOUS
<1>4. PICK H : H = Maybe(Letters({Hash}))
  OBVIOUS
<1>5. \A Y : SpecsOf(F, Y, N) = Cat(A, Cat(S, Cat(H, Cat(Y, P))))
  BY Zenon, <1>1, <1>2, <1>3, <1>4 DEF SpecsOf
<1>6. Cat(W \cup X, P) \subseteq Cat(W, P) \cup Cat(X, P)
  BY Zenon, CatOfUnion
<1>7. ASSUME NEW B, NEW C, NEW D, NEW E, C \subseteq D \cup E PROVE Cat(B, C) \subseteq Cat(B, D) \cup Cat(B, E)
  <2>1. Cat(B, C) \subseteq Cat(B, D \cup E)
    BY Zenon, <1>7, CatGrows
  <2> QED BY Zenon, <2>1, CatOfUnion
<1>8. PICK U : U = Cat(H, Cat(W \cup X, P))
  OBVIOUS
<1>9. PICK K : K = Cat(H, Cat(W, P))
  OBVIOUS
<1>10. PICK L : L = Cat(H, Cat(X, P))
  OBVIOUS
<1>11. U \subseteq K \cup L
  <2>1. Cat(H, Cat(W \cup X, P)) \subseteq Cat(H, Cat(W, P)) \cup Cat(H, Cat(X, P))
    BY Zenon, <1>6, <1>7
  <2> QED BY Zenon, <1>8, <1>9, <1>10, <2>1
<1>12. Cat(S, U) \subseteq Cat(S, K) \cup Cat(S, L)
  BY Zenon, <1>7, <1>11
<1>13. Cat(A, Cat(S, U)) \subseteq Cat(A, Cat(S, K)) \cup Cat(A, Cat(S, L))
  BY Zenon, <1>7, <1>12
<1>14. /\ SpecsOf(F, W \cup X, N) = Cat(A, Cat(S, U))
       /\ SpecsOf(F, W, N) = Cat(A, Cat(S, K)) /\ SpecsOf(F, X, N) = Cat(A, Cat(S, L))
  BY Zenon, <1>5, <1>8, <1>9, <1>10
<1> QED BY Zenon, <1>13, <1>14

\* Texts of up to three more digits are digits, as far as the length goes.
LEMMA DigitsGrow ==
  ASSUME NEW C, NEW D, C \subseteq D
  PROVE  DigitTexts(C, 3) \subseteq DigitTexts(D, MaxLength)
<1>1. ASSUME NEW z \in DigitTexts(C, 3) PROVE z \in DigitTexts(D, MaxLength)
  <2>1. PICK o \in Letters(C), t \in UNION {[1 .. k -> Digits \cap Alphabet] : k \in 0 .. 3} : z = o \o t /\ Len(z) <= MaxLength
    BY DEF DigitTexts, Cat
  <2>2. PICK k \in 0 .. 3 : t \in [1 .. k -> Digits \cap Alphabet]
    BY <2>1
  <2>3. PICK c \in C \cap Alphabet : o = <<c>>
    BY Zenon DEF Letters
  <2>4. PICK E : E = Digits \cap Alphabet
    OBVIOUS
  <2>5. Len(z) = k + 1
    <3>1. t \in Seq(E) /\ Len(t) = k
      BY <2>2, <2>4
    <3>2. PICK S : S = E \cup {c}
      OBVIOUS
    <3>3. t \in Seq(S) /\ o \in Seq(S) /\ Len(o) = 1
      BY <2>3, <3>1, <3>2
    <3>4. z = o \o t
      BY Zenon, <2>1
    <3>5. ASSUME NEW x \in Seq(S), NEW y \in Seq(S) PROVE Len(x \o y) = Len(x) + Len(y)
      OBVIOUS
    <3>6. Len(z) = 1 + k
      BY Zenon, <3>1, <3>3, <3>4, <3>5
    <3> QED BY SMT, <3>6
  <2>6. k \in 0 .. MaxLength
    <3>1. MaxLength \in Nat
      BY Zenon, FormatSpecAssumption DEF FormatSpecAssumption
    <3> QED BY <2>1, <2>5, <3>1
  <2>7. t \in UNION {[1 .. n -> Digits \cap Alphabet] : n \in 0 .. MaxLength}
    BY Zenon, <2>2, <2>6
  <2>8. o \in Letters(D)
    BY Zenon, <2>3 DEF Letters
  <2> QED BY Zenon, <2>1, <2>7, <2>8, CatHas DEF DigitTexts
<1> QED BY Zenon, <1>1

\* What valid_format_spec() accepts is a specification of std::format, or its width
\* is a zero behind the flag "0".
LEMMA AcceptedIsStd == Language \subseteq StdLanguage \cup ZeroWidths
<1>1. PICK Z : Z = Letters({Zero})
  OBVIOUS
<1>2. Numbers = Z \cup DigitTexts(Digits \ {Zero}, 3) /\ DigitTexts(Digits \ {Zero}, 3) \subseteq Positives
  <2>1. DigitTexts(Digits \ {Zero}, 3) \subseteq Positives
    BY Zenon, DigitsGrow DEF Positives
  <2> QED BY Zenon, <1>1, <2>1 DEF Numbers
<1>3. Widths \subseteq StdWidths \cup Cat(Z, Z)
  <2>1. Maybe(Numbers) \subseteq Maybe(Positives) \cup Z
    BY Zenon, <1>2 DEF Maybe
  <2>2. Widths \subseteq Cat(Maybe(Z), Maybe(Positives)) \cup Cat(Maybe(Z), Z)
    <3>1. Widths \subseteq Cat(Maybe(Z), Maybe(Positives) \cup Z)
      BY Zenon, <1>1, <2>1, CatGrows DEF Widths
    <3> QED BY Zenon, <3>1, CatOfUnion
  <2>3. Cat(Maybe(Z), Z) \subseteq Cat({<<>>}, Z) \cup Cat(Z, Z)
    BY Zenon, CatOfUnion DEF Maybe
  <2>4. Cat({<<>>}, Z) \subseteq Cat(Maybe(Z), Maybe(Positives))
    <3>1. ASSUME NEW z \in Cat({<<>>}, Z) PROVE z \in Cat(Maybe(Z), Maybe(Positives))
      <4>1. PICK o \in Z : z = <<>> \o o /\ Len(z) <= MaxLength
        BY DEF Cat
      <4>2. o = <<Zero>>
        BY Zenon, <1>1 DEF Letters
      <4>3. <<>> \o o = o \o <<>>
        BY <4>2
      <4>4. o \in Maybe(Z) /\ <<>> \in Maybe(Positives)
        BY Zenon DEF Maybe
      <4>5. z = o \o <<>>
        BY Zenon, <4>1, <4>3
      <4> QED BY Zenon, <4>1, <4>4, <4>5, CatHas
    <3> QED BY Zenon, <3>1
  <2> QED BY Zenon, <1>1, <2>2, <2>3, <2>4 DEF StdWidths
<1>4. Language \subseteq SpecsOf(Fills, StdWidths, Numbers) \cup SpecsOf(Fills, Cat(Z, Z), Numbers)
  <2>1. Language \subseteq SpecsOf(Fills, StdWidths \cup Cat(Z, Z), Numbers)
    BY Zenon, <1>3, SpecsGrow DEF Language
  <2> QED BY Zenon, <2>1, SpecsOfUnion
<1>5. SpecsOf(Fills, StdWidths, Numbers) \subseteq StdLanguage
  <2>1. Fills \subseteq FillTextsOf(IsCharacter)
    BY Zenon DEF Fills, FillTextsOf, IsFill
  <2>2. Numbers \subseteq DigitTexts(Digits, MaxLength)
    <3>1. DigitTexts(Digits \ {Zero}, 3) \subseteq DigitTexts(Digits, MaxLength)
      <4>1. Digits \ {Zero} \subseteq Digits
        OBVIOUS
      <4> QED BY Zenon, <4>1, DigitsGrow
    <3>2. ASSUME NEW z \in Z PROVE z \in DigitTexts(Digits, MaxLength)
      <4>1. z = <<Zero>> /\ Zero \in Alphabet
        BY Zenon, <1>1 DEF Letters
      <4>2. z \in Letters(Digits)
        BY Zenon, <4>1, DigitIs DEF Letters
      <4>3. z = z \o <<>> /\ Len(z) = 1
        BY <4>1
      <4>4. MaxLength \in Nat \ {0}
        BY Zenon, FormatSpecAssumption DEF FormatSpecAssumption
      <4>5. Len(z) <= MaxLength /\ 0 \in 0 .. MaxLength
        BY <4>3, <4>4
      <4>6. <<>> \in [1 .. 0 -> Digits \cap Alphabet]
        OBVIOUS
      <4>7. <<>> \in UNION {[1 .. k -> Digits \cap Alphabet] : k \in 0 .. MaxLength}
        BY Zenon, <4>5, <4>6
      <4>8. PICK K : K = UNION {[1 .. k -> Digits \cap Alphabet] : k \in 0 .. MaxLength}
        OBVIOUS
      <4>9. z \o <<>> \in Cat(Letters(Digits), K)
        BY Zenon, <4>2, <4>3, <4>5, <4>7, <4>8, CatHas
      <4> QED BY Zenon, <4>3, <4>8, <4>9 DEF DigitTexts
    <3> QED BY Zenon, <1>2, <3>1, <3>2
  <2> QED BY Zenon, <2>1, <2>2, SpecsGrow DEF StdLanguage
<1> QED BY Zenon, <1>1, <1>4, <1>5 DEF ZeroWidths

-----------------------------------------------------------------------------
\* A number in front of a text that begins with no digit.
LEMMA UintJoin ==
  ASSUME NEW a \in Maybe(NumberTexts), NEW r \in Seq(Bytes), ~Begins(r, Digits), NEW default \in Nat
  PROVE  /\ a = <<>> => UintFromChars(a \o r, default).value = default
         /\ a # <<>> => UintFromChars(a \o r, default).value = Number(a)
         /\ UintFromChars(a \o r, default).rest = r
<1>1. PICK z : z = a \o r
  OBVIOUS
<1>2. a \in Seq(Bytes) /\ \A i \in 1 .. Len(a) : a[i] \in Digits
  <2>1. CASE a = <<>>
    BY <2>1
  <2>2. CASE a # <<>>
    BY Zenon, <2>2, NumberTextIs DEF Maybe
  <2> QED BY <2>1, <2>2
<1>3. PICK n : n = Len(a)
  OBVIOUS
<1>4. LeadingDigits(z) = n
  BY Zenon, <1>1, <1>2, <1>3, LeadingJoin
<1>5. Drop(z, n) = r /\ SubSeq(z, 1, n) = a
  BY Zenon, <1>1, <1>2, <1>3, BehindPart
<1>6. n = 0 <=> a = <<>>
  BY <1>2, <1>3
<1>7. UintFromChars(z, default) = [value |-> IF n = 0 THEN default ELSE Number(a), rest |-> r]
  BY Zenon, <1>4, <1>5 DEF UintFromChars
<1>8. PICK v : v = IF n = 0 THEN default ELSE Number(a)
  OBVIOUS
<1>9. UintFromChars(z, default) = [value |-> v, rest |-> r]
  BY Zenon, <1>7, <1>8
<1>10. UintFromChars(z, default).value = v /\ UintFromChars(z, default).rest = r
  BY SMT, <1>9
<1> QED BY Zenon, <1>1, <1>6, <1>8, <1>10

\* The fields of a format.
HasFields(f, filled, signs, width, precision) ==
  /\ f.width = width.value /\ f.precision = precision.value
  /\ Begins(signs, Signs) => f.sign = signs[1]
  /\ ~Begins(signs, Signs) => f.sign = 45
  /\ f.alternate = Begins(SkipOne(signs, Signs), {Hash})
  /\ precision.rest # <<>> => f.type = Last(precision.rest)
  /\ precision.rest = <<>> => f.type = 0
  /\ width.value # 0 /\ filled # <<>> => f.align = Last(filled)
  /\ width.value = 0 \/ filled = <<>> => f.align = 0 /\ f.fill = <<Space>>
  /\ width.value # 0 /\ filled # <<>> /\ Len(filled) > 1 => f.fill = Front(filled)
  /\ width.value # 0 /\ filled # <<>> /\ ~(Len(filled) > 1) => f.fill = <<Space>>

\* The format of what is skipped and read has them.
LEMMA FormatOfIs ==
  \A filled, signs, width, precision :
    HasFields(FormatOf(filled, signs, width, precision), filled, signs, width, precision)
<1> TAKE filled, signs, width, precision
<1>0. PICK f : f = FormatOf(filled, signs, width, precision)
  OBVIOUS
<1>1. PICK w : w = width.value
  OBVIOUS
<1>2. PICK p : p = precision.value
  OBVIOUS
<1>3. PICK alt : alt = Begins(SkipOne(signs, Signs), {Hash})
  OBVIOUS
<1>4. PICK front : front = Front(filled)
  OBVIOUS
<1>5. PICK last : last = Last(filled)
  OBVIOUS
<1>6. PICK fill : fill = IF Len(filled) > 1 THEN front ELSE <<Space>>
  OBVIOUS
<1>7. PICK cond \in BOOLEAN : cond <=> width.value # 0 /\ filled # <<>>
  OBVIOUS
<1>8. PICK sign : sign = IF Begins(signs, Signs) THEN signs[1] ELSE 45
  OBVIOUS
<1>9. PICK type : type = IF precision.rest # <<>> THEN Last(precision.rest) ELSE 0
  OBVIOUS
<1>10. PICK base : base = IF cond THEN SetFillAlign(DefaultFormat, filled) ELSE DefaultFormat
  OBVIOUS
<1>11. PICK space : space = <<Space>>
  OBVIOUS
<1>12. DefaultFormat = [fill |-> space, align |-> 0, sign |-> 45, alternate |-> FALSE, width |-> 0,
                        precision |-> MaxPrecision, type |-> 0]
  BY Zenon, <1>11 DEF DefaultFormat
<1>13. f = [base EXCEPT !.sign = IF Begins(signs, Signs) THEN signs[1] ELSE @, !.alternate = alt, !.width = w,
                        !.precision = p, !.type = IF precision.rest # <<>> THEN Last(precision.rest) ELSE @]
  BY Zenon, <1>0, <1>1, <1>2, <1>3, <1>7, <1>10 DEF FormatOf
<1>14. ASSUME base.sign = 45, base.type = 0
       PROVE  f = [base EXCEPT !.sign = sign, !.alternate = alt, !.width = w, !.precision = p, !.type = type]
  BY SMT, <1>8, <1>9, <1>13, <1>14
<1>15. ASSUME cond
       PROVE  /\ f.width = w /\ f.precision = p /\ f.sign = sign /\ f.alternate = alt /\ f.type = type
              /\ f.align = last /\ f.fill = fill
  <2>1. PICK long \in BOOLEAN : long <=> Len(filled) > 1
    OBVIOUS
  <2>2. base = [DefaultFormat EXCEPT !.align = last, !.fill = IF long THEN front ELSE @]
    <3>1. base = [DefaultFormat EXCEPT !.align = last, !.fill = IF Len(filled) > 1 THEN front ELSE @]
      BY Zenon, <1>4, <1>5, <1>10, <1>15 DEF SetFillAlign
    <3> QED BY Zenon, <2>1, <3>1
  <2>3. fill = IF long THEN front ELSE space
    BY Zenon, <1>6, <1>11, <2>1
  <2>4. base.sign = 45 /\ base.type = 0
    BY SMT, <1>12, <2>2
  <2>5. f = [base EXCEPT !.sign = sign, !.alternate = alt, !.width = w, !.precision = p, !.type = type]
    BY Zenon, <1>14, <2>4
  <2>6. /\ f.fill = (IF long THEN front ELSE space) /\ f.align = last /\ f.sign = sign /\ f.type = type
        /\ f.width = w /\ f.precision = p /\ f.alternate = alt
    BY SMT, <1>12, <2>2, <2>5
  <2>7. f.fill = fill
    BY Zenon, <2>3, <2>6
  <2> QED BY Zenon, <1>15, <2>6, <2>7
<1>20. ASSUME ~cond
       PROVE  /\ f.width = w /\ f.precision = p /\ f.sign = sign /\ f.alternate = alt /\ f.type = type
              /\ f.align = 0 /\ f.fill = space
  <2>1. base = DefaultFormat
    BY Zenon, <1>10, <1>20
  <2>2. base.sign = 45 /\ base.type = 0
    BY SMT, <1>12, <2>1
  <2>3. f = [base EXCEPT !.sign = sign, !.alternate = alt, !.width = w, !.precision = p, !.type = type]
    BY Zenon, <1>14, <2>2
  <2>4. /\ f.fill = space /\ f.align = 0 /\ f.sign = sign /\ f.type = type
        /\ f.width = w /\ f.precision = p /\ f.alternate = alt
    BY SMT, <1>12, <2>1, <2>3
  <2> QED BY Zenon, <1>20, <2>4
<1>16. f.width = w /\ f.precision = p /\ f.sign = sign /\ f.alternate = alt /\ f.type = type
  BY Zenon, <1>15, <1>20
<1>17. f.width = width.value /\ f.precision = precision.value /\ f.alternate = Begins(SkipOne(signs, Signs), {Hash})
  BY Zenon, <1>1, <1>2, <1>3, <1>16
<1>18. (Begins(signs, Signs) => f.sign = signs[1]) /\ (~Begins(signs, Signs) => f.sign = 45)
  BY Zenon, <1>8, <1>16
<1>19. (precision.rest # <<>> => f.type = Last(precision.rest)) /\ (precision.rest = <<>> => f.type = 0)
  BY Zenon, <1>9, <1>16
<1>21. ASSUME width.value # 0, filled # <<>>
       PROVE  /\ f.align = Last(filled) /\ (Len(filled) > 1 => f.fill = Front(filled))
              /\ ~(Len(filled) > 1) => f.fill = <<Space>>
  <2>1. f.align = last /\ f.fill = fill
    BY Zenon, <1>7, <1>15, <1>21
  <2> QED BY Zenon, <1>4, <1>5, <1>6, <2>1
<1>22. ASSUME width.value = 0 \/ filled = <<>> PROVE f.align = 0 /\ f.fill = <<Space>>
  <2>1. ~cond
    BY Zenon, <1>7, <1>22
  <2> QED BY Zenon, <1>11, <1>20, <2>1
<1>23. HasFields(f, filled, signs, width, precision)
  BY Zenon, <1>17, <1>18, <1>19, <1>21, <1>22 DEF HasFields
<1> QED BY Zenon, <1>0, <1>23

-----------------------------------------------------------------------------
(* What is written is read. *)

\* The text of parts, from each of them on.
FillAlignOf(p)   == p.fill \o p.align
LocaleRest(p)    == p.locale \o p.type
PrecisionRest(p) == p.precision \o LocaleRest(p)
WidthRest(p)     == p.width \o PrecisionRest(p)
ZeroRest(p)      == p.zero \o WidthRest(p)
AlternateRest(p) == p.alternate \o ZeroRest(p)
SignRest(p)      == p.sign \o AlternateRest(p)

\* Parts are joined to a fill and an align, and the rest.
LEMMA JoinIs == ASSUME NEW p PROVE Join(p) = FillAlignOf(p) \o SignRest(p)
BY Zenon DEF Join, FillAlignOf, SignRest, AlternateRest, ZeroRest, WidthRest, PrecisionRest, LocaleRest

\* Numbers are texts.
LEMMA IsNumberIs ==
  ASSUME NEW n, IsNumber(n)
  PROVE  n \in NumberTexts
<1>1. CASE n = <<Zero>>
  <2>1. n \in Seq(Bytes)
    BY Zenon, <1>1, DigitIs, LetterIs
  <2> QED BY Zenon, <2>1 DEF NumberTexts
<1>2. CASE n # <<Zero>>
  <2>1. n \in Seq(Digits)
    BY Zenon, <1>2 DEF IsNumber
  <2>2. PICK D : D = Digits
    OBVIOUS
  <2>3. \A d \in D : d \in Bytes
    BY Zenon, <2>2, DigitIs
  <2>4. n \in Seq(D)
    BY Zenon, <2>1, <2>2
  <2>5. n \in Seq(Bytes)
    BY <2>3, <2>4
  <2> QED BY Zenon, <2>5 DEF NumberTexts
<1> QED BY <1>1, <1>2

\* At most one letter is a part that may be left out.
LEMMA AtMostOneIs == ASSUME NEW C, NEW x, IsAtMostOne(x, C) PROVE x \in Maybe(One(C))
BY Zenon DEF IsAtMostOne, Maybe, One

\* Digits, as many as there are
DigitStrings == {n \in Seq(Bytes) : n # <<>> /\ \A i \in 1 .. Len(n) : n[i] \in Digits}

\* What is digits is such a text.
LEMMA IsDigitsIs ==
  ASSUME NEW n, IsDigits(n)
  PROVE  n \in DigitStrings
<1>1. n \in Seq(Digits) /\ n # <<>>
  BY Zenon DEF IsDigits
<1>2. PICK D : D = Digits
  OBVIOUS
<1>3. \A d \in D : d \in Bytes
  BY Zenon, <1>2, DigitIs
<1>4. n \in Seq(D)
  BY Zenon, <1>1, <1>2
<1>5. n \in Seq(Bytes) /\ \A i \in 1 .. Len(n) : n[i] \in D
  BY <1>3, <1>4
<1> QED BY Zenon, <1>1, <1>2, <1>5 DEF DigitStrings

\* Parts are where they belong; numbers are digits, and a width does not begin
\* with a zero.
LEMMA PartsIn ==
  ASSUME NEW p \in Parts
  PROVE  /\ p.align \in Maybe(One(Aligns)) /\ (p.fill # <<>> => p.align # <<>> /\ IsCharacter(p.fill))
         /\ p.sign \in Maybe(One(Signs)) /\ p.alternate \in Maybe(One({Hash})) /\ p.zero \in Maybe(One({Zero}))
         /\ p.width # <<>> => p.width \in DigitStrings /\ p.width[1] # Zero
         /\ p.locale \in Maybe(One({LocaleChar})) /\ p.type \in TypeTexts
         /\ p.precision # <<>> => Tail(p.precision) \in DigitStrings /\ p.precision = <<Dot>> \o Tail(p.precision)
<1>1. IsParts(p)
  BY Zenon, FormatSpecAssumption DEF FormatSpecAssumption
<1>2. /\ p.align \in Maybe(One(Aligns)) /\ p.sign \in Maybe(One(Signs)) /\ p.alternate \in Maybe(One({Hash}))
      /\ p.zero \in Maybe(One({Zero})) /\ p.locale \in Maybe(One({LocaleChar})) /\ p.type \in TypeTexts
  BY Zenon, <1>1, AtMostOneIs DEF IsParts, TypeTexts
<1>3. p.fill # <<>> => p.align # <<>> /\ IsCharacter(p.fill)
  BY Zenon, <1>1 DEF IsParts
<1>4. p.width # <<>> => p.width \in DigitStrings /\ p.width[1] # Zero
  BY Zenon, <1>1, IsDigitsIs DEF IsParts
<1>5. p.precision # <<>> => Tail(p.precision) \in DigitStrings /\ p.precision = <<Dot>> \o Tail(p.precision)
  <2>1. p.precision = <<>> \/ \E n \in {Tail(p.precision)} : IsDigits(n) /\ p.precision = <<Dot>> \o n
    BY Zenon, <1>1 DEF IsParts
  <2> QED BY Zenon, <2>1, IsDigitsIs
<1> QED BY <1>2, <1>3, <1>4, <1>5

\* Those that are taken are safe, and numbers of the formatter.
LEMMA TakenIn ==
  ASSUME NEW p \in Parts, AreTaken(p)
  PROVE  /\ p.fill \in Maybe(FillTexts) /\ (p.align = <<>> => p.fill = <<>>)
         /\ p.width \in Maybe(NumberTexts)
         /\ p.precision # <<>> => Tail(p.precision) \in NumberTexts /\ p.precision = <<Dot>> \o Tail(p.precision)
<1>1. p.fill \in Maybe(FillTexts)
  <2>1. IsFill(p.fill) => p.fill \in FillTexts
    BY Zenon DEF IsFill, IsCharacter, FillTexts
  <2> QED BY Zenon, <2>1 DEF AreTaken, Maybe
<1>2. p.align = <<>> => p.fill = <<>>
  BY Zenon, PartsIn
<1>3. p.width \in Maybe(NumberTexts)
  BY Zenon, IsNumberIs DEF AreTaken, Maybe
<1>4. p.precision # <<>> => Tail(p.precision) \in NumberTexts /\ p.precision = <<Dot>> \o Tail(p.precision)
  BY Zenon, PartsIn, IsNumberIs DEF AreTaken
<1> QED BY Zenon, <1>1, <1>2, <1>3, <1>4

\* What may be one byte is a text.
LEMMA MaybeOneIs ==
  ASSUME NEW C \in SUBSET Bytes, NEW x \in Maybe(One(C))
  PROVE  x \in Seq(Bytes) /\ (x # <<>> => x[1] \in C /\ x = <<x[1]>>)
<1>1. CASE x = <<>>
  BY <1>1
<1>2. CASE x # <<>>
  <2>1. PICK c \in C : x = <<c>>
    BY Zenon, <1>2 DEF Maybe, One
  <2>2. x \in Seq(Bytes) /\ x[1] = c
    BY <2>1
  <2> QED BY Zenon, <2>1, <2>2
<1> QED BY <1>1, <1>2

\* A fill that is safe, and an align.
LEMMA FillAlignIs ==
  ASSUME NEW p \in Parts, p.fill \in Maybe(FillTexts)
  PROVE  FillAlignOf(p) \in FillAlignTexts
<1>1. CASE p.align = <<>>
  <2>1. FillAlignOf(p) = <<>> \o <<>>
    BY Zenon, <1>1, PartsIn DEF FillAlignOf
  <2>2. <<>> \o <<>> = <<>>
    OBVIOUS
  <2> QED BY Zenon, <2>1, <2>2 DEF FillAlignTexts, Maybe
<1>2. CASE p.align # <<>>
  <2>1. p.align \in One(Aligns) /\ p.fill \in Maybe(FillTexts)
    BY Zenon, <1>2, PartsIn DEF Maybe
  <2>2. FillAlignOf(p) \in Joined(Maybe(FillTexts), One(Aligns))
    BY Zenon, <2>1, JoinedHas DEF FillAlignOf
  <2> QED BY Zenon, <2>2 DEF FillAlignTexts, Maybe
<1> QED BY <1>1, <1>2

\* What is taken is a specification of the formatter, from each part on.
LEMMA RestsAre ==
  ASSUME NEW p \in Parts, AreTaken(p)
  PROVE  /\ LocaleRest(p) \in LocaleOn /\ PrecisionRest(p) \in PrecisionOn /\ WidthRest(p) \in WidthOn
         /\ ZeroRest(p) \in ZeroOn /\ AlternateRest(p) \in AlternateOn /\ SignRest(p) \in SignOn
         /\ FillAlignOf(p) \in FillAlignTexts /\ Join(p) \in SpecTexts
<1>1. LocaleRest(p) \in LocaleOn
  BY Zenon, PartsIn, JoinedHas DEF LocaleRest, LocaleOn
<1>2. PrecisionRest(p) \in PrecisionOn
  <2>1. p.precision \in Maybe(DotNumbers)
    <3>1. CASE p.precision = <<>>
      BY Zenon, <3>1 DEF Maybe
    <3>2. CASE p.precision # <<>>
      <4>1. Tail(p.precision) \in NumberTexts /\ p.precision = <<Dot>> \o Tail(p.precision)
        BY Zenon, <3>2, TakenIn
      <4>2. <<Dot>> \in One({Dot})
        BY Zenon DEF One
      <4>3. <<Dot>> \o Tail(p.precision) \in DotNumbers
        BY Zenon, <4>1, <4>2, JoinedHas DEF DotNumbers
      <4> QED BY Zenon, <4>1, <4>3 DEF Maybe
    <3> QED BY <3>1, <3>2
  <2> QED BY Zenon, <1>1, <2>1, JoinedHas DEF PrecisionRest, PrecisionOn
<1>3. WidthRest(p) \in WidthOn
  BY Zenon, <1>2, TakenIn, JoinedHas DEF WidthRest, WidthOn
<1>4. ZeroRest(p) \in ZeroOn
  BY Zenon, <1>3, PartsIn, JoinedHas DEF ZeroRest, ZeroOn
<1>5. AlternateRest(p) \in AlternateOn
  BY Zenon, <1>4, PartsIn, JoinedHas DEF AlternateRest, AlternateOn
<1>6. SignRest(p) \in SignOn
  BY Zenon, <1>5, PartsIn, JoinedHas DEF SignRest, SignOn
<1>7. FillAlignOf(p) \in FillAlignTexts
  BY Zenon, TakenIn, FillAlignIs
<1>8. Join(p) \in SpecTexts
  BY Zenon, <1>6, <1>7, JoinIs, JoinedHas DEF SpecTexts
<1> QED BY <1>1, <1>2, <1>3, <1>4, <1>5, <1>6, <1>7, <1>8

\* Specifications are texts.
LEMMA SpecsAreTexts == SpecTexts \subseteq Seq(Bytes)
<1>1. SUFFICES ASSUME NEW s \in SpecTexts PROVE s \in Seq(Bytes)
  OBVIOUS
<1>2. PICK a \in FillAlignTexts : \E r \in SignOn : s = a \o r
  BY SMT, JoinedIs DEF SpecTexts
<1>3. PICK r \in SignOn : s = a \o r
  BY Zenon, <1>2
<1>4. r \in Seq(Bytes) /\ NoAligns(r)
  BY Zenon, PartsAreTexts
<1>5. a \in Seq(Bytes)
  BY Zenon, <1>4, SkipFillJoin
<1> QED BY Zenon, <1>3, <1>4, <1>5, BehindPart

-----------------------------------------------------------------------------
\* A text without aligns, that begins with one of F if with anything.
IsTame(x, F) == x \in Seq(Free) /\ (x # <<>> => x[1] \in F)

\* Two of them make one.
LEMMA TameTwice ==
  ASSUME NEW a, NEW b, NEW F, NEW G, IsTame(a, F), IsTame(b, G)
  PROVE  IsTame(a \o b, F \cup G)
<1>1. a \in Seq(Free) /\ b \in Seq(Free) /\ (a # <<>> => a[1] \in F) /\ (b # <<>> => b[1] \in G)
  BY Zenon DEF IsTame
<1>2. PICK c : c = a \o b
  OBVIOUS
<1>3. c \in Seq(Free) /\ (a # <<>> => c[1] = a[1]) /\ (a = <<>> => c = b)
  BY SMTT(60), <1>1, <1>2
<1> QED BY Zenon, <1>1, <1>2, <1>3 DEF IsTame

\* Texts of a set of them are such.
LEMMA TameHas == ASSUME NEW A, NEW F, Tame(A, F), NEW a \in A PROVE IsTame(a, F)
BY Zenon DEF Tame, IsTame

\* They do not begin with what is none of F, and have no aligns.
LEMMA IsTameIs ==
  ASSUME NEW x, NEW F, IsTame(x, F)
  PROVE  x \in Seq(Bytes) /\ NoAligns(x) /\ \A C : F \cap C = {} => ~Begins(x, C)
<1>1. Tame({x}, F)
  BY Zenon DEF Tame, IsTame
<1>2. {x} \in SUBSET Seq(Bytes) /\ (\A a \in {x} : NoAligns(a)) /\ \A C : F \cap C = {} => NoneBegins({x}, C)
  BY Zenon, <1>1, TameIs
<1> QED BY Zenon, <1>2 DEF NoneBegins

\* Digits are such, behind a dot or not.
LEMMA DigitsTame == Tame(DigitStrings, Digits) /\ \A n \in DigitStrings : n \in Seq(Bytes) /\ n # <<>> /\ n[1] \in Digits
<1>1. \A d \in Digits : ~(d \in Aligns)
  BY SMT DEF Digits, Aligns
<1>2. \A d \in Digits : d \in Free
  BY Zenon, <1>1, DigitIs DEF Free
<1>3. ASSUME NEW n \in DigitStrings PROVE n \in Seq(Free) /\ n \in Seq(Bytes) /\ n # <<>> /\ n[1] \in Digits
  <2>1. n \in Seq(Bytes) /\ n # <<>> /\ \A i \in 1 .. Len(n) : n[i] \in Digits
    BY Zenon DEF DigitStrings
  <2>2. \A i \in 1 .. Len(n) : n[i] \in Free
    BY Zenon, <1>2, <2>1
  <2>3. n \in Seq(Free)
    BY <2>1, <2>2
  <2>4. 1 \in 1 .. Len(n)
    BY <2>1
  <2> QED BY Zenon, <2>1, <2>3, <2>4
<1> QED BY Zenon, <1>3 DEF Tame

\* What may follow each of the parts, taken or not.
LEMMA RestsTame ==
  ASSUME NEW p \in Parts
  PROVE  /\ IsTame(LocaleRest(p), LocaleHeads) /\ IsTame(PrecisionRest(p), PrecisionHeads)
         /\ IsTame(WidthRest(p), WidthHeads) /\ IsTame(ZeroRest(p), {Zero} \cup WidthHeads)
         /\ IsTame(AlternateRest(p), AlternateHeads) /\ IsTame(SignRest(p), SignHeads)
<1>0. IsTame(<<>>, Digits) /\ IsTame(<<>>, {Dot})
  <2>1. <<>> \in Seq(Free)
    OBVIOUS
  <2> QED BY Zenon, <2>1 DEF IsTame
<1>1. ASSUME NEW C \in SUBSET Free, NEW x \in Maybe(One(C)) PROVE IsTame(x, C)
  BY Zenon, TameOne, TameMaybe, TameHas
<1>2. IsTame(LocaleRest(p), LocaleHeads)
  <2>1. IsTame(p.locale, {LocaleChar}) /\ IsTame(p.type, Types)
    BY Zenon, <1>1, PartsIn, LettersOfSpec DEF TypeTexts
  <2> QED BY Zenon, <2>1, TameTwice DEF LocaleRest, LocaleHeads
<1>3. IsTame(PrecisionRest(p), PrecisionHeads)
  <2>1. IsTame(p.precision, {Dot})
    <3>1. CASE p.precision = <<>>
      BY Zenon, <1>0, <3>1
    <3>2. CASE p.precision # <<>>
      <4>1. PICK n \in DigitStrings : p.precision = <<Dot>> \o n
        BY Zenon, <3>2, PartsIn
      <4>2. PICK o : o = <<Dot>>
        OBVIOUS
      <4>3. o \in Seq(Free) /\ n \in Seq(Free)
        <5>1. Dot \in Free
          BY Zenon, LettersOfSpec
        <5>2. o \in Seq(Free)
          BY <4>2, <5>1
        <5> QED BY Zenon, <5>2, DigitsTame DEF Tame
      <4>4. PICK z : z = o \o n
        OBVIOUS
      <4>5. z \in Seq(Free) /\ z[1] = Dot
        BY <4>2, <4>3, <4>4
      <4> QED BY Zenon, <4>1, <4>2, <4>4, <4>5 DEF IsTame
    <3> QED BY <3>1, <3>2
  <2> QED BY Zenon, <1>2, <2>1, TameTwice DEF PrecisionRest, PrecisionHeads
<1>4. IsTame(WidthRest(p), WidthHeads)
  <2>1. IsTame(p.width, Digits)
    BY Zenon, <1>0, PartsIn, DigitsTame, TameHas
  <2> QED BY Zenon, <1>3, <2>1, TameTwice DEF WidthRest, WidthHeads
<1>5. IsTame(ZeroRest(p), {Zero} \cup WidthHeads)
  <2>1. IsTame(p.zero, {Zero})
    BY Zenon, <1>1, PartsIn, LettersOfSpec
  <2> QED BY Zenon, <1>4, <2>1, TameTwice DEF ZeroRest
<1>6. IsTame(AlternateRest(p), AlternateHeads)
  <2>1. IsTame(p.alternate, {Hash})
    BY Zenon, <1>1, PartsIn, LettersOfSpec
  <2> QED BY Zenon, <1>5, <2>1, TameTwice DEF AlternateRest, AlternateHeads
<1>7. IsTame(SignRest(p), SignHeads)
  <2>1. IsTame(p.sign, Signs)
    BY Zenon, <1>1, PartsIn, LettersOfSpec
  <2> QED BY Zenon, <1>6, <2>1, TameTwice DEF SignRest, SignHeads
<1> QED BY <1>2, <1>3, <1>4, <1>5, <1>6, <1>7

\* And what each rest does not begin with.
LEMMA RestsApart ==
  ASSUME NEW p \in Parts
  PROVE  /\ LocaleRest(p) \in Seq(Bytes) /\ ~Begins(LocaleRest(p), Digits) /\ ~Begins(LocaleRest(p), {Dot})
         /\ PrecisionRest(p) \in Seq(Bytes) /\ ~Begins(PrecisionRest(p), Digits)
         /\ WidthRest(p) \in Seq(Bytes)
         /\ ZeroRest(p) \in Seq(Bytes) /\ ~Begins(ZeroRest(p), {Hash})
         /\ AlternateRest(p) \in Seq(Bytes) /\ ~Begins(AlternateRest(p), Signs)
         /\ SignRest(p) \in Seq(Bytes) /\ NoAligns(SignRest(p))
<1>1. LocaleRest(p) \in Seq(Bytes) /\ ~Begins(LocaleRest(p), Digits) /\ ~Begins(LocaleRest(p), {Dot})
  BY Zenon, RestsTame, HeadsApart, IsTameIs
<1>2. PrecisionRest(p) \in Seq(Bytes) /\ ~Begins(PrecisionRest(p), Digits)
  BY Zenon, RestsTame, HeadsApart, IsTameIs
<1>3. WidthRest(p) \in Seq(Bytes)
  BY Zenon, RestsTame, IsTameIs
<1>4. ZeroRest(p) \in Seq(Bytes) /\ ~Begins(ZeroRest(p), {Hash})
  BY Zenon, RestsTame, HeadsApart, IsTameIs
<1>5. AlternateRest(p) \in Seq(Bytes) /\ ~Begins(AlternateRest(p), Signs)
  BY Zenon, RestsTame, HeadsApart, IsTameIs
<1>6. SignRest(p) \in Seq(Bytes) /\ NoAligns(SignRest(p))
  BY Zenon, RestsTame, IsTameIs
<1> QED BY <1>1, <1>2, <1>3, <1>4, <1>5, <1>6

\* A fill that is safe and an align are skipped.
LEMMA FillSkipped ==
  ASSUME NEW p \in Parts, p.fill \in Maybe(FillTexts)
  PROVE  /\ SkipFillAlign(Join(p)) = SignRest(p)
         /\ SubSeq(Join(p), 1, Len(Join(p)) - Len(SignRest(p))) = FillAlignOf(p)
<1>1. PICK a : a = FillAlignOf(p)
  OBVIOUS
<1>2. PICK r : r = SignRest(p)
  OBVIOUS
<1>3. a \in FillAlignTexts /\ r \in Seq(Bytes) /\ NoAligns(r) /\ Join(p) = a \o r
  BY Zenon, <1>1, <1>2, FillAlignIs, RestsApart, JoinIs
<1>4. SkipFillAlign(a \o r) = r /\ a \in Seq(Bytes)
  BY Zenon, <1>3, SkipFillJoin
<1>5. SubSeq(a \o r, 1, Len(a \o r) - Len(r)) = a
  <2>1. Len(a \o r) - Len(r) = Len(a)
    BY <1>3, <1>4
  <2>2. SubSeq(a \o r, 1, Len(a)) = a
    BY Zenon, <1>3, <1>4, BehindPart
  <2> QED BY Zenon, <2>1, <2>2
<1> QED BY Zenon, <1>1, <1>2, <1>3, <1>4, <1>5

\* And so are a sign, # and a zero.
LEMMA PartsSkipped ==
  ASSUME NEW p \in Parts
  PROVE  /\ SkipOne(SignRest(p), Signs) = AlternateRest(p)
         /\ SkipOne(AlternateRest(p), {Hash}) = ZeroRest(p)
         /\ SkipOne(ZeroRest(p), {Zero}) = WidthRest(p)
         /\ SkipSignAlt0(SignRest(p)) = WidthRest(p)
<1>1. SkipOne(SignRest(p), Signs) = AlternateRest(p)
  BY Zenon, RestsApart, PartsIn, LettersOfSpec, SkipOneJoin DEF SignRest
<1>2. SkipOne(AlternateRest(p), {Hash}) = ZeroRest(p)
  BY Zenon, RestsApart, PartsIn, LettersOfSpec, SkipOneJoin DEF AlternateRest
<1>3. SkipOne(ZeroRest(p), {Zero}) = WidthRest(p)
  <2>1. PrecisionRest(p) \in Seq(Bytes) /\ ~Begins(PrecisionRest(p), Digits) /\ WidthRest(p) \in Seq(Bytes)
    BY Zenon, RestsApart
  <2>2. ~Begins(WidthRest(p), {Zero})
    <3>1. CASE p.width = <<>>
      <4>1. WidthRest(p) = PrecisionRest(p)
        BY <2>1, <3>1 DEF WidthRest
      <4> QED BY Zenon, <2>1, <4>1, DigitIs DEF Begins
    <3>2. CASE p.width # <<>>
      <4>1. p.width \in Seq(Bytes) /\ p.width[1] # Zero
        BY Zenon, <3>2, PartsIn, DigitsTame
      <4>2. WidthRest(p)[1] = p.width[1]
        BY Zenon, <2>1, <3>2, <4>1, BehindPart DEF WidthRest
      <4> QED BY Zenon, <4>1, <4>2 DEF Begins
    <3> QED BY <3>1, <3>2
  <2> QED BY Zenon, <2>1, <2>2, PartsIn, LettersOfSpec, SkipOneJoin DEF ZeroRest
<1>4. SkipSignAlt0(SignRest(p)) = WidthRest(p)
  BY Zenon, <1>1, <1>2, <1>3 DEF SkipSignAlt0
<1> QED BY <1>1, <1>2, <1>3, <1>4

\* The numbers of a specification made of parts.
LEMMA NumbersRead ==
  ASSUME NEW p \in Parts, AreTaken(p)
  PROVE  /\ p.width = <<>> => GetWidth(WidthRest(p)).value = 0
         /\ p.width # <<>> => GetWidth(WidthRest(p)).value = Number(p.width)
         /\ GetWidth(WidthRest(p)).rest = PrecisionRest(p)
         /\ p.precision = <<>> => GetPrecision(PrecisionRest(p)).value = MaxPrecision
         /\ p.precision # <<>> => GetPrecision(PrecisionRest(p)).value = Number(Tail(p.precision))
         /\ GetPrecision(PrecisionRest(p)).rest = LocaleRest(p)
<1>1. PrecisionRest(p) \in Seq(Bytes) /\ ~Begins(PrecisionRest(p), Digits)
  BY Zenon, RestsApart
<1>2. LocaleRest(p) \in Seq(Bytes) /\ ~Begins(LocaleRest(p), Digits) /\ ~Begins(LocaleRest(p), {Dot})
  BY Zenon, RestsApart
<1>3. /\ p.width = <<>> => GetWidth(WidthRest(p)).value = 0
      /\ p.width # <<>> => GetWidth(WidthRest(p)).value = Number(p.width)
      /\ GetWidth(WidthRest(p)).rest = PrecisionRest(p)
  <2>1. PICK a \in Maybe(NumberTexts) : a = p.width
    BY Zenon, TakenIn
  <2>2. PICK r : r = PrecisionRest(p)
    OBVIOUS
  <2>3. /\ a = <<>> => UintFromChars(a \o r, 0).value = 0
        /\ a # <<>> => UintFromChars(a \o r, 0).value = Number(a)
        /\ UintFromChars(a \o r, 0).rest = r
    <3>1. r \in Seq(Bytes) /\ ~Begins(r, Digits)
      BY Zenon, <1>1, <2>2
    <3>2. 0 \in Nat
      OBVIOUS
    <3> QED BY Zenon, <3>1, <3>2, UintJoin
  <2>4. GetWidth(WidthRest(p)) = UintFromChars(a \o r, 0)
    BY Zenon, <2>1, <2>2 DEF GetWidth, WidthRest
  <2> QED BY Zenon, <2>1, <2>2, <2>3, <2>4
<1>4. CASE p.precision = <<>>
  <2>1. PrecisionRest(p) = LocaleRest(p)
    BY <1>2, <1>4 DEF PrecisionRest
  <2>2. GetPrecision(PrecisionRest(p)) = [value |-> MaxPrecision, rest |-> LocaleRest(p)]
    BY Zenon, <1>2, <2>1 DEF GetPrecision
  <2>3. PICK r : r = LocaleRest(p)
    OBVIOUS
  <2>4. PICK m : m = MaxPrecision
    OBVIOUS
  <2>5. PICK g : g = GetPrecision(PrecisionRest(p))
    OBVIOUS
  <2>6. g = [value |-> m, rest |-> r]
    BY Zenon, <2>2, <2>3, <2>4, <2>5
  <2>7. g.value = m /\ g.rest = r
    BY SMT, <2>6
  <2> QED BY Zenon, <1>3, <1>4, <2>3, <2>4, <2>5, <2>7
<1>5. CASE p.precision # <<>>
  <2>1. PICK n \in NumberTexts : n = Tail(p.precision) /\ p.precision = <<Dot>> \o n
    BY Zenon, <1>5, TakenIn
  <2>2. PICK r : r = LocaleRest(p)
    OBVIOUS
  <2>3. n \in Seq(Bytes) /\ r \in Seq(Bytes) /\ <<Dot>> \in Seq(Bytes) /\ Dot \in Bytes
    BY Zenon, <1>2, <2>2, NumberTextIs, LettersOfSpec, LetterIs
  <2>4. PICK t : t = n \o r
    OBVIOUS
  <2>5. t \in Seq(Bytes)
    BY <2>3, <2>4
  <2>6. PrecisionRest(p) = (<<Dot>> \o n) \o r
    BY Zenon, <2>1, <2>2 DEF PrecisionRest
  <2>7. PICK o : o = <<Dot>>
    OBVIOUS
  <2>8. (o \o n) \o r = o \o t
    <3>1. o \in Seq(Bytes)
      BY Zenon, <2>3, <2>7
    <3> QED BY <2>3, <2>4, <3>1
  <2>9. PrecisionRest(p) = <<Dot>> \o t
    BY Zenon, <2>6, <2>7, <2>8
  <2>10. /\ PrecisionRest(p) # <<>> /\ PrecisionRest(p)[1] = Dot /\ Tail(PrecisionRest(p)) = t
    BY Zenon, <2>3, <2>5, <2>9, OneIs
  <2>11. GetPrecision(PrecisionRest(p)) = UintFromChars(n \o r, MaxPrecision)
    BY Zenon, <2>4, <2>10 DEF GetPrecision, Begins
  <2>12. n \in Maybe(NumberTexts) /\ n # <<>>
    BY Zenon, NumberTextIs DEF Maybe
  <2>13. /\ UintFromChars(n \o r, MaxPrecision).value = Number(n)
         /\ UintFromChars(n \o r, MaxPrecision).rest = r
    <3>1. r \in Seq(Bytes) /\ ~Begins(r, Digits)
      BY Zenon, <1>2, <2>2
    <3>2. MaxPrecision \in Nat
      BY SMT DEF MaxPrecision
    <3> QED BY Zenon, <2>12, <3>1, <3>2, UintJoin
  <2> QED BY Zenon, <1>3, <1>5, <2>1, <2>2, <2>11, <2>13
<1> QED BY <1>4, <1>5

\* A text begins with what may be one byte, if it is one.
LEMMA BeginsOne ==
  ASSUME NEW C \in SUBSET Bytes, NEW x \in Maybe(One(C)), NEW r \in Seq(Bytes), ~Begins(r, C)
  PROVE  (Begins(x \o r, C) <=> x # <<>>) /\ (x # <<>> => (x \o r)[1] = x[1])
<1>1. CASE x = <<>>
  <2>1. x \o r = r
    BY <1>1
  <2> QED BY Zenon, <1>1, <2>1
<1>2. CASE x # <<>>
  <2>1. x \in Seq(Bytes) /\ x[1] \in C
    BY Zenon, <1>2, MaybeOneIs
  <2>2. x \o r # <<>> /\ (x \o r)[1] = x[1]
    BY Zenon, <1>2, <2>1, BehindPart
  <2> QED BY Zenon, <1>2, <2>1, <2>2 DEF Begins
<1> QED BY <1>1, <1>2

\* The last byte of a text in front of one byte.
LEMMA LastOfJoin ==
  ASSUME NEW a \in Seq(Bytes), NEW b \in Seq(Bytes), Len(b) = 1
  PROVE  Len(a \o b) = Len(a) + 1 /\ (a \o b)[Len(a) + 1] = b[1] /\ a \o b # <<>>
OBVIOUS

\* The type is the last byte of a locale and a type, the locale where there is none.
LEMMA TypeIsLast ==
  ASSUME NEW l \in Maybe(One({LocaleChar})), NEW t \in TypeTexts
  PROVE  /\ l \o t # <<>> <=> t \o l # <<>>
         /\ l \o t # <<>> => Last(l \o t) = (t \o l)[1]
<1>1. l \in Seq(Bytes) /\ (l # <<>> => l = <<l[1]>>)
  BY Zenon, LettersOfSpec, MaybeOneIs
<1>2. t \in Seq(Bytes) /\ (t # <<>> => t = <<t[1]>>)
  BY Zenon, LettersOfSpec, MaybeOneIs DEF TypeTexts
<1>3. (l # <<>> => Len(l) = 1) /\ (t # <<>> => Len(t) = 1)
  BY <1>1, <1>2
<1>4. PICK a : a = l \o t
  OBVIOUS
<1>5. PICK b : b = t \o l
  OBVIOUS
<1>6. CASE t = <<>>
  <2>1. a = l /\ b = l
    BY <1>1, <1>4, <1>5, <1>6
  <2>2. l # <<>> => l[Len(l)] = l[1]
    BY <1>3
  <2> QED BY Zenon, <1>4, <1>5, <2>1, <2>2 DEF Last
<1>7. CASE t # <<>>
  <2>1. a # <<>> /\ a[Len(l) + 1] = t[1] /\ Len(a) = Len(l) + 1
    BY Zenon, <1>1, <1>2, <1>3, <1>4, <1>7, LastOfJoin
  <2>2. b # <<>> /\ b[1] = t[1]
    BY Zenon, <1>1, <1>2, <1>5, <1>7, BehindPart
  <2> QED BY Zenon, <1>4, <1>5, <2>1, <2>2 DEF Last
<1> QED BY <1>6, <1>7

\* The align is the last byte of a fill and an align, and the fill what is in
\* front of it.
LEMMA FillIsFront ==
  ASSUME NEW f \in Maybe(FillTexts), NEW a \in Maybe(One(Aligns)), a = <<>> => f = <<>>
  PROVE  /\ f \o a # <<>> <=> a # <<>>
         /\ a # <<>> => Last(f \o a) = a[1]
         /\ a # <<>> => (Len(f \o a) > 1 <=> f # <<>>)
         /\ a # <<>> => Front(f \o a) = f
<1>1. f \in Seq(Bytes)
  <2>1. <<>> \in Seq(Bytes)
    OBVIOUS
  <2> QED BY Zenon, <2>1 DEF Maybe, FillTexts
<1>2. a \in Seq(Bytes) /\ (a # <<>> => a = <<a[1]>>)
  BY Zenon, AlignIs, MaybeOneIs
<1>3. PICK z : z = f \o a
  OBVIOUS
<1>4. CASE a = <<>>
  <2>1. z = <<>>
    BY <1>3, <1>4
  <2> QED BY Zenon, <1>3, <1>4, <2>1
<1>5. CASE a # <<>>
  <2>1. Len(a) = 1
    BY <1>2, <1>5
  <2>2. z \in Seq(Bytes) /\ z # <<>> /\ Len(z) = Len(f) + 1 /\ z[Len(z)] = a[1]
    <3>1. Len(z) = Len(f) + 1 /\ z[Len(f) + 1] = a[1] /\ z # <<>>
      BY Zenon, <1>1, <1>2, <1>3, <2>1, LastOfJoin
    <3>2. z \in Seq(Bytes)
      BY Zenon, <1>1, <1>2, <1>3, BehindPart
    <3> QED BY Zenon, <3>1, <3>2
  <2>3. SubSeq(z, 1, Len(f)) = f
    BY Zenon, <1>1, <1>2, <1>3, BehindPart
  <2>4. Len(z) - 1 = Len(f) /\ (Len(z) > 1 <=> f # <<>>)
    BY <1>1, <2>2
  <2>5. Front(z) = f
    BY Zenon, <2>3, <2>4 DEF Front
  <2>6. Last(z) = a[1]
    BY Zenon, <2>2 DEF Last
  <2> QED BY Zenon, <1>3, <1>5, <2>2, <2>4, <2>5, <2>6
<1> QED BY <1>4, <1>5

\* get_format() of the parts.
LEMMA GetFormatIs ==
  ASSUME NEW p \in Parts, AreTaken(p)
  PROVE  GetFormat(Join(p)) =
           FormatOf(FillAlignOf(p), SignRest(p), GetWidth(WidthRest(p)), GetPrecision(PrecisionRest(p)))
<1>1. PICK s : s = Join(p)
  OBVIOUS
<1>2. SkipFillAlign(s) = SignRest(p) /\ SubSeq(s, 1, Len(s) - Len(SignRest(p))) = FillAlignOf(p)
  BY Zenon, <1>1, TakenIn, FillSkipped
<1>3. SkipSignAlt0(SignRest(p)) = WidthRest(p)
  BY Zenon, PartsSkipped
<1>4. GetWidth(WidthRest(p)).rest = PrecisionRest(p)
  BY Zenon, NumbersRead
<1>5. GetFormat(s) = FormatOf(SubSeq(s, 1, Len(s) - Len(SignRest(p))), SignRest(p), GetWidth(WidthRest(p)),
                              GetPrecision(GetWidth(WidthRest(p)).rest))
  BY Zenon, <1>2, <1>3 DEF GetFormat
<1> QED BY Zenon, <1>1, <1>2, <1>4, <1>5

\* Each part is read as what it is.
LEMMA EachIsRead ==
  ASSUME NEW p \in Parts, AreTaken(p), NEW f, f = GetFormat(Join(p))
  PROVE  /\ f.width = IF p.width # <<>> THEN Number(p.width) ELSE 0
         /\ f.align = IF f.width # 0 /\ p.align # <<>> THEN p.align[1] ELSE 0
         /\ f.fill = IF f.width # 0 /\ p.fill # <<>> THEN p.fill ELSE <<Space>>
         /\ f.sign = IF p.sign # <<>> THEN p.sign[1] ELSE 45
         /\ f.alternate = (p.alternate # <<>>)
         /\ f.precision = IF p.precision # <<>> THEN Number(Tail(p.precision)) ELSE MaxPrecision
         /\ f.type = IF p.type \o p.locale # <<>> THEN (p.type \o p.locale)[1] ELSE 0
<1>1. PICK w : w = GetWidth(WidthRest(p))
  OBVIOUS
<1>2. PICK q : q = GetPrecision(PrecisionRest(p))
  OBVIOUS
<1>3. PICK a : a = FillAlignOf(p)
  OBVIOUS
<1>4. PICK r : r = SignRest(p)
  OBVIOUS
<1>5. f = FormatOf(a, r, w, q)
  BY Zenon, <1>1, <1>2, <1>3, <1>4, GetFormatIs
<1>6. /\ f.width = w.value /\ f.precision = q.value
      /\ (Begins(r, Signs) => f.sign = r[1]) /\ (~Begins(r, Signs) => f.sign = 45)
      /\ f.alternate = Begins(SkipOne(r, Signs), {Hash})
      /\ (q.rest # <<>> => f.type = Last(q.rest)) /\ (q.rest = <<>> => f.type = 0)
      /\ w.value # 0 /\ a # <<>> => f.align = Last(a)
      /\ w.value = 0 \/ a = <<>> => f.align = 0 /\ f.fill = <<Space>>
      /\ w.value # 0 /\ a # <<>> /\ Len(a) > 1 => f.fill = Front(a)
      /\ w.value # 0 /\ a # <<>> /\ ~(Len(a) > 1) => f.fill = <<Space>>
  <2>1. HasFields(f, a, r, w, q)
    BY Zenon, <1>5, FormatOfIs
  <2> QED BY Zenon, <2>1 DEF HasFields
<1>7. f.width = IF p.width # <<>> THEN Number(p.width) ELSE 0
  BY Zenon, <1>1, <1>6, NumbersRead
<1>8. f.precision = IF p.precision # <<>> THEN Number(Tail(p.precision)) ELSE MaxPrecision
  BY Zenon, <1>2, <1>6, NumbersRead
<1>9. f.sign = IF p.sign # <<>> THEN p.sign[1] ELSE 45
  <2>1. AlternateRest(p) \in Seq(Bytes) /\ ~Begins(AlternateRest(p), Signs)
    BY Zenon, RestsApart
  <2>2. (Begins(r, Signs) <=> p.sign # <<>>) /\ (p.sign # <<>> => r[1] = p.sign[1])
    <3>1. r = p.sign \o AlternateRest(p)
      BY Zenon, <1>4 DEF SignRest
    <3>2. p.sign \in Maybe(One(Signs)) /\ Signs \in SUBSET Bytes
      BY Zenon, PartsIn, LettersOfSpec
    <3> QED BY Zenon, <2>1, <3>1, <3>2, BeginsOne
  <2> QED BY Zenon, <1>6, <2>2
<1>10. f.alternate = (p.alternate # <<>>)
  <2>1. ZeroRest(p) \in Seq(Bytes) /\ ~Begins(ZeroRest(p), {Hash})
    BY Zenon, RestsApart
  <2>2. Begins(AlternateRest(p), {Hash}) <=> p.alternate # <<>>
    BY Zenon, <2>1, PartsIn, LettersOfSpec, BeginsOne DEF AlternateRest
  <2>3. f.alternate = Begins(AlternateRest(p), {Hash})
    <3>1. SkipOne(r, Signs) = AlternateRest(p)
      BY Zenon, <1>4, PartsSkipped
    <3> QED BY Zenon, <1>6, <3>1
  <2>4. Begins(AlternateRest(p), {Hash}) = (p.alternate # <<>>)
    BY Zenon, <2>2 DEF Begins
  <2> QED BY Zenon, <2>3, <2>4
<1>11. f.type = IF p.type \o p.locale # <<>> THEN (p.type \o p.locale)[1] ELSE 0
  <2>1. q.rest = p.locale \o p.type
    BY Zenon, <1>2, NumbersRead DEF LocaleRest
  <2>2. /\ p.locale \o p.type # <<>> <=> p.type \o p.locale # <<>>
        /\ p.locale \o p.type # <<>> => Last(p.locale \o p.type) = (p.type \o p.locale)[1]
    BY Zenon, PartsIn, TypeIsLast
  <2> QED BY Zenon, <1>6, <2>1, <2>2
<1>12. /\ a # <<>> <=> p.align # <<>>
       /\ p.align # <<>> => Last(a) = p.align[1]
       /\ p.align # <<>> => (Len(a) > 1 <=> p.fill # <<>>)
       /\ p.align # <<>> => Front(a) = p.fill
  BY Zenon, <1>3, PartsIn, TakenIn, FillIsFront DEF FillAlignOf
<1>13. f.align = IF f.width # 0 /\ p.align # <<>> THEN p.align[1] ELSE 0
  BY Zenon, <1>6, <1>12
<1>14. f.fill = IF f.width # 0 /\ p.fill # <<>> THEN p.fill ELSE <<Space>>
  <2>1. p.align = <<>> => p.fill = <<>>
    BY Zenon, PartsIn
  <2> QED BY Zenon, <1>6, <1>12, <2>1
<1> QED BY <1>7, <1>8, <1>9, <1>10, <1>11, <1>13, <1>14

-----------------------------------------------------------------------------
(* What is not taken is refused. *)

\* A fill is the encoding of a character.
LEMMA CharacterIs ==
  ASSUME NEW f, IsCharacter(f)
  PROVE  /\ f \in Seq(Bytes) /\ f # <<>>
         /\ \E cp \in CodePoints : cp = DecodeUtf8(f).code /\ f = Encode(cp)
<1>1. f \in Seq(Bytes) /\ f # <<>>
  BY Zenon DEF IsCharacter
<1>2. PICK cp : cp = DecodeUtf8(f).code
  OBVIOUS
<1>3. cp \in CodePoints
  BY Zenon, <1>1, <1>2, Utf8Right DEF Right
<1>4. f = Encode(cp)
  BY Zenon, <1>2 DEF IsCharacter
<1> QED BY Zenon, <1>1, <1>2, <1>3, <1>4

\* Parts are joined to a text.
LEMMA JoinedIsText ==
  ASSUME NEW p \in Parts
  PROVE  p.fill \in Seq(Bytes) /\ p.align \in Seq(Bytes) /\ Join(p) \in Seq(Bytes)
<1>1. p.fill \in Seq(Bytes)
  <2>1. <<>> \in Seq(Bytes)
    OBVIOUS
  <2> QED BY Zenon, <2>1, PartsIn, CharacterIs
<1>2. p.align \in Seq(Bytes)
  BY Zenon, PartsIn, AlignIs, MaybeOneIs
<1>3. FillAlignOf(p) \in Seq(Bytes)
  BY Zenon, <1>1, <1>2, BehindPart DEF FillAlignOf
<1> QED BY Zenon, <1>1, <1>2, <1>3, RestsApart, JoinIs, BehindPart

\* A fill that is not safe is not skipped, and no part of a specification begins
\* like what it leaves.
LEMMA UnsafeRefused ==
  ASSUME NEW p \in Parts, p.fill # <<>>, ~IsFill(p.fill)
  PROVE  Join(p) \notin SpecTexts
<1>1. p.align # <<>> /\ IsCharacter(p.fill)
  BY Zenon, PartsIn
<1>2. PICK cp \in CodePoints : cp = DecodeUtf8(p.fill).code /\ p.fill = Encode(cp)
  BY Zenon, <1>1, CharacterIs
<1>3. ~Safe(cp)
  BY Zenon, <1>1, <1>2 DEF IsFill
<1>4. PICK b \in Aligns : p.align = <<b>>
  BY Zenon, <1>1, PartsIn DEF Maybe, One
<1>5. PICK r : r = SignRest(p)
  OBVIOUS
<1>6. PICK o : o = <<b>>
  OBVIOUS
<1>7. r \in Seq(Bytes) /\ o \in Seq(Bytes) /\ b \in Bytes
  BY Zenon, <1>4, <1>5, <1>6, RestsApart, AlignIs, LetterIs
<1>8. PICK f : f = Encode(cp)
  OBVIOUS
<1>9. f \in Seq(Bytes)
  BY Zenon, <1>2, <1>8, JoinedIsText
<1>10. PICK t : t = o \o r
  OBVIOUS
<1>11. t \in Seq(Bytes) /\ Begins(t, Aligns)
  BY Zenon, <1>6, <1>7, <1>10, OneIs DEF Begins
<1>12. PICK s : s = Join(p)
  OBVIOUS
<1>13. s = f \o t
  <2>1. s = (f \o o) \o r
    BY Zenon, <1>2, <1>4, <1>5, <1>6, <1>8, <1>12, JoinIs DEF FillAlignOf
  <2>2. ASSUME NEW x \in Seq(Bytes), NEW y \in Seq(Bytes), NEW z \in Seq(Bytes) PROVE (x \o y) \o z = x \o (y \o z)
    OBVIOUS
  <2> QED BY Zenon, <1>7, <1>9, <1>10, <2>1, <2>2
<1>14. s \in Seq(Bytes) /\ s # <<>> /\ DecodeUtf8(s).code = cp /\ Drop(s, DecodeUtf8(s).used) = t
  BY Zenon, <1>8, <1>11, <1>13, DecodeJoin
<1>15. SkipFillAlign(s) = s
  <2>1. PICK c : c = DecodeUtf8(s)
    OBVIOUS
  <2>2. PICK rest : rest = Drop(s, c.used)
    OBVIOUS
  <2>3. ~Safe(c.code) /\ Begins(rest, Aligns)
    BY Zenon, <1>3, <1>11, <1>14, <2>1, <2>2
  <2> QED BY Zenon, <1>14, <2>1, <2>2, <2>3, SkipFillIs
<1>16. s \notin SignOn
  <2>1. \E i \in 1 .. Len(s) : s[i] = b
    <3>1. PICK n \in Nat : n = Len(f)
      BY <1>9
    <3>2. Len(t) > 0 /\ t[1] = b
      BY <1>6, <1>7, <1>10
    <3>3. n + 1 \in 1 .. Len(s) /\ s[n + 1] = b
      BY <1>9, <1>11, <1>13, <3>1, <3>2
    <3> QED BY Zenon, <3>3
  <2> QED BY Zenon, <1>4, <2>1, PartsAreTexts DEF NoAligns
<1> QED BY Zenon, <1>12, <1>14, <1>15, <1>16, FillReads

\* Where digits are no number, a digit is left of them.
LEMMA DigitLeft ==
  ASSUME NEW n \in DigitStrings, ~IsNumber(n), NEW r \in Seq(Bytes), ~Begins(r, Digits)
  PROVE  Begins(SkipValidNumber(n \o r), Digits)
<1>1. n \in Seq(Bytes) /\ n # <<>> /\ \A i \in 1 .. Len(n) : n[i] \in Digits
  BY Zenon DEF DigitStrings
<1>2. PICK l \in Nat : l = Len(n)
  BY <1>1
<1>3. PICK z : z = n \o r
  OBVIOUS
<1>4. /\ z \in Seq(Bytes) /\ Len(z) = l + Len(r) /\ z # <<>> /\ z[1] = n[1] /\ l >= 1
      /\ \A i \in 1 .. l : z[i] = n[i]
  BY <1>1, <1>2, <1>3
<1>5. CASE n[1] = Zero
  <2>1. l >= 2
    <3>1. n # <<Zero>>
      BY Zenon DEF IsNumber
    <3> QED BY <1>1, <1>2, <1>4, <1>5, <3>1
  <2>2. SkipValidNumber(z) = Tail(z)
    BY Zenon, <1>4, <1>5 DEF SkipValidNumber, Begins
  <2>3. Tail(z) # <<>> /\ Tail(z)[1] = n[2] /\ 2 \in 1 .. l
    BY <1>4, <2>1
  <2> QED BY Zenon, <1>1, <1>2, <1>3, <2>2, <2>3 DEF Begins
<1>6. CASE n[1] # Zero
  <2>1. l > 4
    <3>1. PICK D : D = Digits
      OBVIOUS
    <3>2. n \in Seq(D)
      BY <1>1, <3>1
    <3>3. ~(Len(n) \in 1 .. 4)
      BY Zenon, <1>6, <3>1, <3>2 DEF IsNumber
    <3>4. l >= 1
      BY <1>4
    <3> QED BY SMT, <1>2, <3>3, <3>4
  <2>2. LeadingDigits(z) = l
    BY Zenon, <1>1, <1>2, <1>3, LeadingJoin
  <2>3. SkipValidNumber(z) = Drop(z, UpToFour(l))
    BY Zenon, <1>4, <1>6, <2>2, SkipsUpToFour DEF Begins
  <2>4. UpToFour(l) = 4
    BY SMT, <2>1 DEF UpToFour
  <2>5. PICK d : d = SubSeq(z, 4 + 1, Len(z))
    OBVIOUS
  <2>6. d # <<>> /\ d[1] = n[5] /\ 5 \in 1 .. l
    <3>1. Len(d) = Len(z) - 4 /\ d[1] = z[5]
      BY <1>4, <2>1, <2>5
    <3>2. 5 \in 1 .. l /\ Len(z) > 4
      BY <1>4, <2>1
    <3> QED BY <1>4, <3>1, <3>2
  <2>7. SkipValidNumber(z) = d
    BY Zenon, <2>3, <2>4, <2>5 DEF Drop
  <2> QED BY Zenon, <1>1, <1>2, <1>3, <2>6, <2>7 DEF Begins
<1> QED BY <1>5, <1>6

\* Of parts of std::format, all that is accepted is taken.
LEMMA AcceptedIsTaken ==
  ASSUME NEW p \in Parts, Join(p) \in SpecTexts
  PROVE  AreTaken(p)
<1>1. p.fill = <<>> \/ IsFill(p.fill)
  BY Zenon, UnsafeRefused
<1>2. p.fill \in Maybe(FillTexts)
  BY Zenon, <1>1, JoinedIsText DEF Maybe, FillTexts
<1>3. WidthRest(p) \in WidthOn
  <2>1. SignRest(p) \in SignOn
    BY Zenon, <1>2, FillSkipped, JoinedIsText, FillReads
  <2>2. AlternateRest(p) \in AlternateOn
    BY Zenon, <2>1, PartsSkipped, RestsApart, SignReads
  <2>3. ZeroRest(p) \in ZeroOn
    BY Zenon, <2>2, PartsSkipped, RestsApart, AlternateReads
  <2> QED BY Zenon, <2>3, PartsSkipped, RestsApart, ZeroReads
<1>4. SkipValidNumber(WidthRest(p)) \in PrecisionOn
  BY Zenon, <1>3, RestsApart, WidthReads
<1>5. p.width = <<>> \/ IsNumber(p.width)
  <2>1. SUFFICES ASSUME p.width # <<>>, ~IsNumber(p.width) PROVE FALSE
    OBVIOUS
  <2>2. Begins(SkipValidNumber(WidthRest(p)), Digits)
    BY Zenon, <2>1, PartsIn, RestsApart, DigitLeft DEF WidthRest
  <2> QED BY Zenon, <1>4, <2>2, PartsApart DEF NoneBegins
<1>6. PrecisionRest(p) \in PrecisionOn
  <2>1. PICK r : r = PrecisionRest(p)
    OBVIOUS
  <2>2. PICK a \in Maybe(NumberTexts) : a = p.width
    BY Zenon, <1>5, IsNumberIs DEF Maybe
  <2>3. r \in Seq(Bytes) /\ ~Begins(r, Digits)
    BY Zenon, <2>1, RestsApart
  <2>4. SkipValidNumber(a \o r) = r
    BY Zenon, <2>3, SkipNumberJoin
  <2> QED BY Zenon, <1>4, <2>1, <2>2, <2>4 DEF WidthRest
<1>7. p.precision = <<>> \/ IsNumber(Tail(p.precision))
  <2>1. SUFFICES ASSUME p.precision # <<>>, ~IsNumber(Tail(p.precision)) PROVE FALSE
    OBVIOUS
  <2>2. PICK n \in DigitStrings : n = Tail(p.precision) /\ p.precision = <<Dot>> \o n
    BY Zenon, <2>1, PartsIn
  <2>3. PICK r : r = LocaleRest(p)
    OBVIOUS
  <2>4. PICK o : o = <<Dot>>
    OBVIOUS
  <2>5. /\ n \in Seq(Bytes) /\ r \in Seq(Bytes) /\ o \in Seq(Bytes) /\ Dot \in Bytes /\ ~Begins(r, Digits)
    BY Zenon, <2>3, <2>4, DigitsTame, RestsApart, LettersOfSpec, LetterIs
  <2>6. PICK t : t = n \o r
    OBVIOUS
  <2>7. t \in Seq(Bytes) /\ (o \o n) \o r = o \o t
    BY <2>5, <2>6
  <2>8. PrecisionRest(p) = <<Dot>> \o t
    BY Zenon, <2>2, <2>3, <2>4, <2>7 DEF PrecisionRest
  <2>9. PrecisionRest(p) # <<>> /\ PrecisionRest(p)[1] = Dot /\ Tail(PrecisionRest(p)) = t
    BY Zenon, <2>5, <2>7, <2>8, OneIs
  <2>10. SkipValidNumber(t) \in LocaleOn
    BY Zenon, <1>6, <2>9, RestsApart, PrecisionReads DEF Begins
  <2>11. Begins(SkipValidNumber(t), Digits)
    BY Zenon, <2>1, <2>2, <2>5, <2>6, DigitLeft
  <2> QED BY Zenon, <2>10, <2>11, PartsApart DEF NoneBegins
<1> QED BY Zenon, <1>1, <1>5, <1>7 DEF AreTaken

-----------------------------------------------------------------------------
\* Specifications are texts of the alphabet that are short, or made of parts,
\* and the format is the one of what has been read.
SpecI ==
  \/ spec = NotRead /\ parts = NoParts
  \/ parts = NoParts /\ spec \in Short /\ read = GetFormat(spec)
  \/ parts \in Parts /\ spec = Join(parts) /\ read = GetFormat(spec)

\* At first nothing has been read.
LEMMA SpecInitI == SpecInit => SpecI
BY DEF SpecInit, SpecI

\* A step reads one specification.
LEMMA SpecNextI == SpecI /\ [SpecNext]_specVars => SpecI'
<1>1. ASSUME SpecI, SpecNext PROVE SpecI'
  <2>1. parts = NoParts /\ SpecNext
    BY <1>1 DEF SpecNext
  <2>2. CASE \E n \in 0 .. MaxLength : \E s \in [1 .. n -> Alphabet] : ReadSpec(s) /\ UNCHANGED parts
    <3>0. PICK n \in 0 .. MaxLength : \E s \in [1 .. n -> Alphabet] : ReadSpec(s) /\ UNCHANGED parts
      BY <2>2
    <3>1. PICK s \in [1 .. n -> Alphabet] : ReadSpec(s) /\ UNCHANGED parts
      BY <3>0
    <3>2. spec' = s /\ read' = GetFormat(s) /\ parts' = parts
      BY <3>1 DEF ReadSpec
    <3>3. MaxLength \in Nat
      BY Zenon, FormatSpecAssumption DEF FormatSpecAssumption
    <3>4. s \in Seq(Alphabet) /\ Len(s) <= MaxLength
      BY <3>3
    <3>5. s \in Short
      BY Zenon, <3>4 DEF Short
    <3> QED BY Zenon, <2>1, <3>2, <3>5 DEF SpecI
  <2>3. CASE \E p \in Parts : \E s \in {Join(p)} : ReadSpec(s) /\ parts' = p
    <3>1. PICK p \in Parts : ReadSpec(Join(p)) /\ parts' = p
      BY Zenon, <2>3
    <3> QED BY Zenon, <3>1 DEF SpecI, ReadSpec
  <2> QED BY <2>1, <2>2, <2>3 DEF SpecNext
<1>2. ASSUME SpecI, UNCHANGED specVars PROVE SpecI'
  BY <1>2 DEF SpecI, specVars
<1> QED BY <1>1, <1>2

-----------------------------------------------------------------------------
(* What has been read. *)

\* A text of the alphabet is accepted if it is a specification of the formatter,
\* one of parts if they are taken, and then they are read.
LEMMA SpecIImplies == SpecI => SpecIsRead
<1>0. spec \in Language => spec \in StdLanguage \/ spec \in ZeroWidths
  BY Zenon, AcceptedIsStd
<1>1. CASE spec = NotRead /\ parts = NoParts
  BY Zenon, <1>1 DEF SpecIsRead, OnlySpecsAccepted, PartsAreRead
<1>2. CASE parts = NoParts /\ spec \in Short /\ read = GetFormat(spec)
  <2>1. spec \in Seq(Bytes)
    <3>1. spec \in Seq(Alphabet) /\ Alphabet \subseteq Bytes
      BY Zenon, <1>2, FormatSpecAssumption DEF Short, FormatSpecAssumption
    <3> QED BY <3>1
  <2>2. ValidFormatSpec(spec) <=> spec \in Language
    BY Zenon, <1>2, <2>1, ValidIsSpec, LanguageIsSpec
  <2>3. OnlySpecsAccepted
    BY Zenon, <1>0, <1>2, <2>2 DEF OnlySpecsAccepted
  <2> QED BY Zenon, <1>2, <2>3 DEF SpecIsRead, PartsAreRead
<1>3. CASE parts \in Parts /\ spec = Join(parts) /\ read = GetFormat(spec)
  <2>1. parts # NoParts
    BY Zenon, <1>3, FormatSpecAssumption DEF FormatSpecAssumption
  <2>2. PICK p \in Parts : p = parts
    BY Zenon, <1>3
  <2>3. ValidFormatSpec(spec) <=> AreTaken(parts)
    <3>1. Join(p) \in SpecTexts <=> AreTaken(p)
      BY Zenon, RestsAre, AcceptedIsTaken
    <3>2. Join(p) \in Seq(Bytes)
      BY Zenon, JoinedIsText
    <3> QED BY Zenon, <1>3, <2>2, <3>1, <3>2, ValidIsSpec
  <2>4. OnlySpecsAccepted
    BY Zenon, <1>0, <2>1, <2>3 DEF OnlySpecsAccepted
  <2>5. PartsAreRead
    <3>1. PICK f : f = GetFormat(Join(p))
      OBVIOUS
    <3>2. f = read
      BY Zenon, <1>3, <2>2, <3>1
    <3> QED BY Zenon, <2>2, <3>1, <3>2, EachIsRead DEF PartsAreRead
  <2> QED BY Zenon, <2>4, <2>5 DEF SpecIsRead
<1> QED BY <1>1, <1>2, <1>3 DEF SpecI

\* valid_format_spec() accepts the specifications of std::format that are within
\* the limits of the formatter - no fill that is not safe, no number of more than
\* four digits or with a zero in front - and of other texts only those with a
\* width of zero behind the flag; and get_format() reads each part as what it is.
THEOREM SpecsAreRead == ReadSpecs => []SpecIsRead
<1>1. SpecInit => SpecI
  BY SpecInitI
<1>2. SpecI /\ [SpecNext]_specVars => SpecI'
  BY SpecNextI
<1>3. SpecI => SpecIsRead
  BY SpecIImplies
<1> QED BY <1>1, <1>2, <1>3, PTL DEF ReadSpecs
=============================================================================
