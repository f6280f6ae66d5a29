------------------------------ MODULE ListFacts ------------------------------
(***************************************************************************)
(* Facts about numbers and sequences that the proofs of several components *)
(* need: induction, what concatenating the members of a sequence           *)
(* (FlattenSeq) yields, and sums over finite sets (FoldFunction).          *)
(***************************************************************************)
EXTENDS Integers, Sequences, SequencesExt, FiniteSetTheorems, TLAPS

\* A set of numbers that is not empty has a least member.
LEMMA LeastNumber ==
    ASSUME NEW A \in SUBSET Nat, A # {}
    PROVE  \E m \in A : \A k \in A : m <= k
<1>1. PICK R : R = OpToRel(<, Nat)
  OBVIOUS
<1>2. R = {ss \in Nat \X Nat : ss[1] < ss[2]}
  BY <1>1 DEF OpToRel
<1>3. IsWellFoundedOn(R, Nat)
  BY <1>1, NatLessThanWellFounded
<1>4. PICK x \in A : \A y \in A : ~ (<<y, x>> \in R)
  BY <1>3, WFMin
<1>5. ASSUME NEW y \in A PROVE x <= y
  <2>1. x \in Nat /\ y \in Nat
    OBVIOUS
  <2>2. y < x => <<y, x>> \in R
    BY <1>2, <2>1
  <2>3. QED
    BY <1>4, <2>1, <2>2
<1>6. QED
  BY <1>5

\* A set that has 0 and with a number the next one has every number.
LEMMA EveryNumber ==
    ASSUME NEW A, 0 \in A, \A n \in Nat : n \in A => n + 1 \in A
    PROVE  \A n \in Nat : n \in A
<1>1. SUFFICES ASSUME NEW x \in Nat, x \notin A PROVE FALSE
  OBVIOUS
<1>2. PICK m \in Nat \ A : \A k \in Nat \ A : m <= k
  BY <1>1, LeastNumber
<1>3. m # 0 /\ m - 1 \in Nat /\ m - 1 + 1 = m
  BY <1>2
<1>4. m - 1 \in A
  BY <1>2, <1>3
<1>5. QED
  BY <1>2, <1>3, <1>4

\* A sequence that is not empty has a last member and what stands before it.
LEMMA LastAppended ==
    ASSUME NEW T, NEW s \in Seq(T), NEW n \in Nat, Len(s) = n + 1
    PROVE  \E r \in Seq(T) : \E x \in T : s = Append(r, x) /\ Len(r) = n
<1>1. PICK r : r = [i \in 1..n |-> s[i]]
  OBVIOUS
<1>2. r \in Seq(T) /\ Len(r) = n /\ s[n + 1] \in T
  BY <1>1
<1>3. s = Append(r, s[n + 1])
  BY <1>1, <1>2
<1>4. QED
  BY <1>2, <1>3

\* A set that has the empty sequence and with a sequence all that are one longer has every sequence.
LEMMA EverySequence ==
    ASSUME NEW T, NEW A, <<>> \in A, \A s \in Seq(T) : \A x \in T : s \in A => Append(s, x) \in A
    PROVE  \A s \in Seq(T) : s \in A
<1> DEFINE N == {n \in Nat : \A s \in Seq(T) : Len(s) = n => s \in A}
<1>1. 0 \in N
  OBVIOUS
<1>2. ASSUME NEW n \in Nat, n \in N PROVE n + 1 \in N
  <2>1. ASSUME NEW s \in Seq(T), Len(s) = n + 1 PROVE s \in A
    <3>1. PICK r \in Seq(T) : \E x \in T : s = Append(r, x) /\ Len(r) = n
      BY <2>1, LastAppended
    <3>2. PICK x \in T : s = Append(r, x) /\ Len(r) = n
      BY <3>1
    <3>3. r \in A
      BY <1>2, <3>2
    <3>4. QED
      BY <3>2, <3>3
  <2>2. QED
    BY <2>1
<1>3. \A n \in Nat : n \in N
  <2> HIDE DEF N
  <2>1. QED
    BY <1>1, <1>2, EveryNumber
<1>4. ASSUME NEW s \in Seq(T) PROVE s \in A
  <2>1. Len(s) \in Nat
    OBVIOUS
  <2>2. Len(s) \in N
    BY <1>3, <2>1
  <2>3. QED
    BY <2>2
<1>5. QED
  BY <1>4

-----------------------------------------------------------------------------
(* FlattenSeq.                                                             *)

\* f lists the concatenations of the first 1, 2, ... n members of seqs.
IsFlat(f, seqs, n) == f = [i \in 1..n |-> IF i = 1 THEN seqs[i] ELSE f[i-1] \o seqs[i]]

LEMMA FlatNext ==
    ASSUME NEW seqs, NEW k \in Nat, NEW f, IsFlat(f, seqs, k)
    PROVE  \E g : IsFlat(g, seqs, k + 1)
<1>1. PICK g : g = [i \in 1..(k + 1) |->
                      IF i <= k THEN f[i] ELSE IF k = 0 THEN seqs[1] ELSE f[k] \o seqs[k + 1]]
  OBVIOUS
<1>2. ASSUME NEW i \in 1..(k + 1) PROVE g[i] = IF i = 1 THEN seqs[i] ELSE g[i-1] \o seqs[i]
  <2>1. CASE i <= k
    <3>1. i \in 1..k /\ (i # 1 => i - 1 \in 1..k /\ i - 1 \in 1..(k + 1) /\ i - 1 <= k)
      BY <2>1
    <3>2. f[i] = IF i = 1 THEN seqs[i] ELSE f[i-1] \o seqs[i]
      BY <3>1 DEF IsFlat
    <3>3. g[i] = f[i] /\ (i # 1 => g[i-1] = f[i-1])
      BY <1>1, <2>1, <3>1
    <3>4. QED
      BY <3>2, <3>3
  <2>2. CASE i = k + 1 /\ k = 0
    BY <1>1, <2>2
  <2>3. CASE i = k + 1 /\ k # 0
    <3>1. k \in 1..(k + 1) /\ i # 1 /\ i - 1 = k /\ k <= k /\ ~(i <= k)
      BY <2>3
    <3>2. g[i] = f[k] \o seqs[k + 1]
      BY <1>1, <2>3, <3>1
    <3>3. g[k] = f[k]
      BY <1>1, <3>1
    <3>4. QED
      BY <2>3, <3>1, <3>2, <3>3
  <2>4. QED
    BY <2>1, <2>2, <2>3
<1>3. g = [i \in 1..(k + 1) |-> g[i]]
  BY <1>1
<1>4. IsFlat(g, seqs, k + 1)
  BY <1>2, <1>3 DEF IsFlat
<1>5. QED
  BY <1>4

LEMMA FlatExists == ASSUME NEW seqs, NEW n \in Nat PROVE \E f : IsFlat(f, seqs, n)
<1> DEFINE A == {k \in Nat : \E f : IsFlat(f, seqs, k)}
<1>1. 0 \in A
  <2>1. IsFlat([i \in 1..0 |-> 0], seqs, 0)
    BY DEF IsFlat
  <2>2. QED
    BY <2>1
<1>2. ASSUME NEW k \in Nat, k \in A PROVE k + 1 \in A
  BY <1>2, FlatNext
<1>3. \A k \in Nat : k \in A
  <2> HIDE DEF A
  <2>1. QED
    BY <1>1, <1>2, EveryNumber
<1>4. QED
  BY <1>3

\* FlattenSeq is defined by such a list.
LEMMA FlatChosen ==
    ASSUME NEW seqs, NEW n \in Nat \ {0}, n = Len(seqs)
    PROVE  \E f : IsFlat(f, seqs, n) /\ FlattenSeq(seqs) = f[n]
<1>1. \E f : IsFlat(f, seqs, n)
  BY FlatExists
<1>2. PICK f : f = CHOOSE g : IsFlat(g, seqs, n)
  OBVIOUS
<1>3. IsFlat(f, seqs, n)
  BY <1>1, <1>2
<1>4. FlattenSeq(seqs) = f[n]
  BY <1>2 DEF FlattenSeq, IsFlat
<1>5. QED
  BY <1>3, <1>4

\* Lists of this kind agree where the sequences do.
LEMMA FlatAgrees ==
    ASSUME NEW s, NEW t, NEW n \in Nat, NEW k \in Nat, n <= k, \A i \in 1..n : s[i] = t[i],
           NEW f, IsFlat(f, s, n), NEW g, IsFlat(g, t, k)
    PROVE  \A i \in 1..n : f[i] = g[i]
<1> DEFINE A == {i \in Nat : i \in 1..n => f[i] = g[i]}
<1>1. 0 \in A
  OBVIOUS
<1>2. ASSUME NEW i \in Nat, i \in A PROVE i + 1 \in A
  <2>1. SUFFICES ASSUME i + 1 \in 1..n PROVE f[i + 1] = g[i + 1]
    OBVIOUS
  <2>2. PICK j \in Nat : j = i + 1 /\ j - 1 = i
    OBVIOUS
  <2>3. j \in 1..n /\ j \in 1..k /\ s[j] = t[j] /\ (j # 1 => i \in 1..n)
    BY <2>1, <2>2
  <2>4. f[j] = IF j = 1 THEN s[j] ELSE f[j-1] \o s[j]
    BY <2>3 DEF IsFlat
  <2>5. g[j] = IF j = 1 THEN t[j] ELSE g[j-1] \o t[j]
    BY <2>3 DEF IsFlat
  <2>6. j # 1 => f[j-1] = g[j-1]
    BY <1>2, <2>2, <2>3
  <2>7. QED
    BY <2>2, <2>3, <2>4, <2>5, <2>6
<1>3. \A i \in Nat : i \in A
  <2> HIDE DEF A
  <2>1. QED
    BY <1>1, <1>2, EveryNumber
<1>4. QED
  BY <1>3

LEMMA FlattenEmpty == FlattenSeq(<<>>) = <<>>
  BY DEF FlattenSeq

LEMMA ConcatAppend ==
    ASSUME NEW T, NEW a \in Seq(T), NEW b \in Seq(T), NEW x \in T
    PROVE  a \o Append(b, x) = Append(a \o b, x) /\ a \o b \in Seq(T) /\ Append(b, x) \in Seq(T)
  OBVIOUS

Associates(a, b, c) == (a \o b) \o c = a \o (b \o c)

LEMMA ConcatThree ==
    ASSUME NEW T, NEW a \in Seq(T), NEW b \in Seq(T), NEW c \in Seq(T)
    PROVE  Associates(a, b, c)
  BY DEF Associates

LEMMA ConcatEmpty ==
    ASSUME NEW T, NEW a \in Seq(T)
    PROVE  a \o <<>> = a /\ <<>> \o a = a
  OBVIOUS

LEMMA LengthZero == ASSUME NEW T, NEW s \in Seq(T), Len(s) = 0 PROVE s = <<>>
  OBVIOUS

\* One member more.
LEMMA FlattenAppend ==
    ASSUME NEW T, NEW s \in Seq(Seq(T)), NEW x \in Seq(T)
    PROVE  FlattenSeq(Append(s, x)) = FlattenSeq(s) \o x
<1>1. PICK r : r = Append(s, x)
  OBVIOUS
<1>2. PICK n \in Nat : n = Len(s)
  OBVIOUS
<1>3. PICK k \in Nat : k = n + 1
  OBVIOUS
<1>4. k \in Nat \ {0} /\ k - 1 = n /\ k \in 1..k /\ n <= k /\ Len(r) = k /\ r[k] = x
      /\ \A i \in 1..n : s[i] = r[i]
  BY <1>1, <1>2, <1>3
<1>5. PICK g : IsFlat(g, r, k) /\ FlattenSeq(r) = g[k]
  BY <1>4, FlatChosen
<1>6. g[k] = IF k = 1 THEN r[k] ELSE g[k-1] \o r[k]
  BY <1>4, <1>5 DEF IsFlat
<1>7. CASE n = 0
  <2>1. s = <<>>
    BY <1>2, <1>7, LengthZero
  <2>2. <<>> \o x = x /\ k = 1
    BY <1>3, <1>7
  <2>3. QED
    BY <1>1, <1>4, <1>5, <1>6, <2>1, <2>2, FlattenEmpty
<1>8. CASE n # 0
  <2>1. PICK f : IsFlat(f, s, n) /\ FlattenSeq(s) = f[n]
    BY <1>2, <1>8, FlatChosen
  <2>2. \A i \in 1..n : f[i] = g[i]
    BY <1>4, <1>5, <2>1, FlatAgrees
  <2>3. k # 1 /\ n \in 1..n
    BY <1>3, <1>8
  <2>4. QED
    BY <1>1, <1>4, <1>5, <1>6, <2>1, <2>2, <2>3
<1>9. QED
  BY <1>7, <1>8

LEMMA FlattenType ==
    ASSUME NEW T, NEW s \in Seq(Seq(T))
    PROVE  FlattenSeq(s) \in Seq(T)
<1> DEFINE A == {r \in Seq(Seq(T)) : FlattenSeq(r) \in Seq(T)}
<1>1. <<>> \in A
  <2>1. <<>> \in Seq(T) /\ <<>> \in Seq(Seq(T))
    OBVIOUS
  <2>2. QED
    BY <2>1, FlattenEmpty
<1>2. ASSUME NEW r \in Seq(Seq(T)), NEW x \in Seq(T), r \in A PROVE Append(r, x) \in A
  <2>1. FlattenSeq(Append(r, x)) = FlattenSeq(r) \o x
    BY FlattenAppend
  <2>2. Append(r, x) \in Seq(Seq(T)) /\ FlattenSeq(r) \o x \in Seq(T)
    BY <1>2
  <2>3. QED
    BY <2>1, <2>2
<1>3. \A r \in Seq(Seq(T)) : r \in A
  <2> HIDE DEF A
  <2>1. QED
    BY <1>1, <1>2, EverySequence
<1>4. QED
  BY <1>3

-----------------------------------------------------------------------------
(* What a function yields for each member of a sequence, concatenated.     *)

Mapped(F, s) == [n \in DOMAIN s |-> F[s[n]]]
FlatMap(F, s) == FlattenSeq(Mapped(F, s))

IsMapped(F, s, U) ==
    /\ Mapped(F, s) \in Seq(U) /\ Len(Mapped(F, s)) = Len(s)
    /\ \A i \in 1..Len(s) : Mapped(F, s)[i] = F[s[i]]

LEMMA MappedType ==
    ASSUME NEW S, NEW U, NEW F \in [S -> U], NEW s \in Seq(S)
    PROVE  IsMapped(F, s, U)
<1>1. \A i \in 1..Len(s) : F[s[i]] \in U
  OBVIOUS
<1>2. Mapped(F, s) = [n \in 1..Len(s) |-> F[s[n]]] /\ Len(s) \in Nat
  BY DEF Mapped
<1>3. QED
  BY <1>1, <1>2 DEF IsMapped

IsAppended(r, s, x, n) ==
    r = Append(s, x) /\ Len(r) = n + 1 /\ r[n + 1] = x /\ \A i \in 1..n : r[i] = s[i]

LEMMA MappedAppend ==
    ASSUME NEW S, NEW U, NEW F \in [S -> U], NEW s \in Seq(S), NEW x \in S
    PROVE  Mapped(F, Append(s, x)) = Append(Mapped(F, s), F[x])
<1>1. PICK n \in Nat : n = Len(s)
  OBVIOUS
<1>2. PICK y \in U : y = F[x]
  OBVIOUS
<1>3. PICK r \in Seq(S) : IsAppended(r, s, x, n)
  <2>1. Append(s, x) \in Seq(S) /\ IsAppended(Append(s, x), s, x, n)
    BY <1>1 DEF IsAppended
  <2>2. QED
    BY <2>1, Zenon
<1>4. \A q \in Seq(S) : IsMapped(F, q, U)
  BY MappedType
<1>5. PICK a \in Seq(U) : a = Mapped(F, r) /\ Len(a) = Len(r) /\ \A i \in 1..Len(r) : a[i] = F[r[i]]
  BY <1>4 DEF IsMapped
<1>6. PICK c \in Seq(U) : c = Mapped(F, s) /\ Len(c) = Len(s) /\ \A i \in 1..Len(s) : c[i] = F[s[i]]
  BY <1>4 DEF IsMapped
<1>7. PICK b \in Seq(U) : IsAppended(b, c, y, n)
  <2>1. Append(c, y) \in Seq(U) /\ IsAppended(Append(c, y), c, y, n)
    BY <1>1, <1>6 DEF IsAppended
  <2>2. QED
    BY <2>1, Zenon
<1>8. n + 1 \in 1..(n + 1) /\ \A i \in 1..(n + 1) : i \in 1..n \/ i = n + 1
  OBVIOUS
<1>9. ASSUME NEW i \in 1..(n + 1) PROVE a[i] = b[i]
  BY <1>1, <1>2, <1>3, <1>5, <1>6, <1>7, <1>8 DEF IsAppended
<1>10. a = b
  BY <1>3, <1>5, <1>7, <1>9 DEF IsAppended
<1>11. QED
  BY <1>2, <1>3, <1>5, <1>6, <1>7, <1>10 DEF IsAppended

LEMMA FlatMapEmpty == ASSUME NEW F PROVE FlatMap(F, <<>>) = <<>>
<1>1. Mapped(F, <<>>) = <<>>
  BY DEF Mapped
<1>2. QED
  BY <1>1, FlattenEmpty DEF FlatMap

LEMMA FlatMapType ==
    ASSUME NEW S, NEW T, NEW F \in [S -> Seq(T)], NEW s \in Seq(S)
    PROVE  FlatMap(F, s) \in Seq(T)
  BY MappedType, FlattenType DEF FlatMap, IsMapped

LEMMA FlatMapAppend ==
    ASSUME NEW S, NEW T, NEW F \in [S -> Seq(T)], NEW s \in Seq(S), NEW x \in S
    PROVE  FlatMap(F, Append(s, x)) = FlatMap(F, s) \o F[x]
<1>1. Mapped(F, s) \in Seq(Seq(T)) /\ F[x] \in Seq(T)
  BY MappedType DEF IsMapped
<1>2. Mapped(F, Append(s, x)) = Append(Mapped(F, s), F[x])
  BY MappedAppend
<1>3. QED
  BY <1>1, <1>2, FlattenAppend DEF FlatMap

LEMMA FlatMapOne ==
    ASSUME NEW S, NEW T, NEW F \in [S -> Seq(T)], NEW x \in S
    PROVE  FlatMap(F, <<x>>) = F[x]
<1>1. <<>> \in Seq(S) /\ <<x>> = Append(<<>>, x) /\ F[x] \in Seq(T)
  OBVIOUS
<1>2. FlatMap(F, <<x>>) = FlatMap(F, <<>>) \o F[x]
  BY <1>1, FlatMapAppend
<1>3. QED
  BY <1>1, <1>2, FlatMapEmpty, ConcatEmpty

Distributes(F, a, b) == FlatMap(F, a \o b) = FlatMap(F, a) \o FlatMap(F, b)

LEMMA FlatMapConcat ==
    ASSUME NEW S, NEW T, NEW F \in [S -> Seq(T)], NEW a \in Seq(S), NEW b \in Seq(S)
    PROVE  Distributes(F, a, b)
<1> DEFINE A == {r \in Seq(S) : FlatMap(F, a \o r) = FlatMap(F, a) \o FlatMap(F, r)}
<1>0. \A r \in Seq(S) : FlatMap(F, r) \in Seq(T)
  BY FlatMapType
<1>1. <<>> \in A
  <2>1. <<>> \in Seq(S) /\ a \o <<>> = a
    BY ConcatEmpty
  <2>2. FlatMap(F, a) \o <<>> = FlatMap(F, a)
    <3>1. PICK w \in Seq(T) : w = FlatMap(F, a)
      BY <1>0, Zenon
    <3>2. w \o <<>> = w
      BY ConcatEmpty
    <3>3. QED
      BY <3>1, <3>2
  <2>3. QED
    BY <2>1, <2>2, FlatMapEmpty
<1>2. ASSUME NEW r \in Seq(S), NEW x \in S, r \in A PROVE Append(r, x) \in A
  <2>1. a \o Append(r, x) = Append(a \o r, x) /\ a \o r \in Seq(S) /\ Append(r, x) \in Seq(S)
    BY ConcatAppend
  <2>2. FlatMap(F, Append(a \o r, x)) = FlatMap(F, a \o r) \o F[x]
    BY <2>1, FlatMapAppend
  <2>3. FlatMap(F, Append(r, x)) = FlatMap(F, r) \o F[x]
    BY FlatMapAppend
  <2>4. (FlatMap(F, a) \o FlatMap(F, r)) \o F[x] = FlatMap(F, a) \o (FlatMap(F, r) \o F[x])
    <3>1. F[x] \in Seq(T)
      OBVIOUS
    <3>2. Associates(FlatMap(F, a), FlatMap(F, r), F[x])
      BY <1>0, <3>1, ConcatThree, Zenon
    <3>3. QED
      BY <3>2, Zenon DEF Associates
  <2>5. QED
    BY <1>2, <2>1, <2>2, <2>3, <2>4
<1>3. \A r \in Seq(S) : r \in A
  <2> HIDE DEF A
  <2>1. QED
    BY <1>1, <1>2, EverySequence
<1>4. QED
  BY <1>3 DEF Distributes

Unfolds(F, s) == FlatMap(F, s) = F[Head(s)] \o FlatMap(F, Tail(s))

LEMMA FlatMapHead ==
    ASSUME NEW S, NEW T, NEW F \in [S -> Seq(T)], NEW s \in Seq(S), s # <<>>
    PROVE  Unfolds(F, s)
<1>0. Head(s) \in S /\ Tail(s) \in Seq(S) /\ <<Head(s)>> \in Seq(S) /\ s = <<Head(s)>> \o Tail(s)
  OBVIOUS
<1>1. PICK h \in S : h = Head(s)
  BY <1>0
<1>2. PICK t \in Seq(S) : t = Tail(s)
  BY <1>0, Zenon
<1>3. <<h>> \in Seq(S) /\ s = <<h>> \o t
  BY <1>0, <1>1, <1>2
<1>4. Distributes(F, <<h>>, t)
  BY <1>3, FlatMapConcat
<1>5. FlatMap(F, <<h>>) = F[h]
  BY FlatMapOne
<1>6. FlatMap(F, <<h>> \o t) = FlatMap(F, <<h>>) \o FlatMap(F, t)
  BY <1>4 DEF Distributes
<1>7. QED
  BY <1>1, <1>2, <1>3, <1>5, <1>6 DEF Unfolds

\* The members of a concatenation.
LEMMA RangeOfBoth ==
    ASSUME NEW T, NEW a \in Seq(T), NEW b \in Seq(T)
    PROVE  Range(a \o b) = Range(a) \cup Range(b)
<1>1. /\ DOMAIN (a \o b) = 1..(Len(a) + Len(b)) /\ DOMAIN a = 1..Len(a) /\ DOMAIN b = 1..Len(b)
      /\ Len(a) \in Nat /\ Len(b) \in Nat
  OBVIOUS
<1>2. \A i \in 1..(Len(a) + Len(b)) : (a \o b)[i] = IF i <= Len(a) THEN a[i] ELSE b[i - Len(a)]
  OBVIOUS
<1>3. ASSUME NEW i \in 1..Len(b) PROVE (a \o b)[i + Len(a)] = b[i] /\ i + Len(a) \in 1..(Len(a) + Len(b))
  BY <1>1, <1>2, <1>3
<1>4. ASSUME NEW i \in 1..Len(a) PROVE (a \o b)[i] = a[i] /\ i \in 1..(Len(a) + Len(b))
  BY <1>1, <1>2, <1>4
<1>5. ASSUME NEW i \in 1..(Len(a) + Len(b))
      PROVE  (i \in 1..Len(a) /\ (a \o b)[i] = a[i]) \/ (i - Len(a) \in 1..Len(b) /\ (a \o b)[i] = b[i - Len(a)])
  BY <1>1, <1>2, <1>5
<1>6. PICK c : c = a \o b
  OBVIOUS
<1>7. Range(a) \subseteq Range(c)
  BY <1>1, <1>4, <1>6 DEF Range
<1>8. Range(b) \subseteq Range(c)
  <2>1. SUFFICES ASSUME NEW i \in 1..Len(b) PROVE b[i] \in Range(c)
    BY <1>1 DEF Range
  <2>2. c[i + Len(a)] = b[i] /\ i + Len(a) \in DOMAIN c
    BY <1>1, <1>3, <1>6
  <2>3. QED
    BY <2>2 DEF Range
<1>9. Range(c) \subseteq Range(a) \cup Range(b)
  <2>1. SUFFICES ASSUME NEW i \in 1..(Len(a) + Len(b)) PROVE c[i] \in Range(a) \cup Range(b)
    BY <1>1, <1>6 DEF Range
  <2>2. QED
    BY <1>1, <1>5, <1>6 DEF Range
<1>10. QED
  BY <1>6, <1>7, <1>8, <1>9

Yields(F, s, r) == \E i \in 1..Len(s) : r \in Range(F[s[i]])
Gathers(F, s) == \A r : r \in Range(FlatMap(F, s)) <=> Yields(F, s, r)

LEMMA FlatMapRange ==
    ASSUME NEW S, NEW T, NEW F \in [S -> Seq(T)], NEW s \in Seq(S)
    PROVE  Gathers(F, s)
<1> DEFINE A == {q \in Seq(S) : Gathers(F, q)}
<1>0. \A q \in Seq(S) : FlatMap(F, q) \in Seq(T)
  BY FlatMapType
<1>1. <<>> \in A
  <2>1. <<>> \in Seq(S) /\ \A r : ~Yields(F, <<>>, r)
    BY DEF Yields
  <2>2. Range(FlatMap(F, <<>>)) = {}
    BY FlatMapEmpty DEF Range
  <2>3. Gathers(F, <<>>)
    BY <2>1, <2>2 DEF Gathers
  <2>4. QED
    BY <2>1, <2>3
<1>2. ASSUME NEW q \in Seq(S), NEW x \in S, q \in A PROVE Append(q, x) \in A
  <2>1. PICK n \in Nat : n = Len(q)
    OBVIOUS
  <2>2. PICK p \in Seq(S) : IsAppended(p, q, x, n)
    <3>1. Append(q, x) \in Seq(S) /\ IsAppended(Append(q, x), q, x, n)
      BY <2>1 DEF IsAppended
    <3>2. QED
      BY <3>1, Zenon
  <2>3. PICK a \in Seq(T) : a = FlatMap(F, q)
    BY <1>0, Zenon
  <2>4. PICK b \in Seq(T) : b = F[x]
    <3>1. F[x] \in Seq(T)
      OBVIOUS
    <3>2. QED
      BY <3>1, Zenon
  <2>5. FlatMap(F, p) = a \o b
    <3>1. FlatMap(F, Append(q, x)) = FlatMap(F, q) \o F[x]
      BY FlatMapAppend
    <3>2. QED
      BY <2>2, <2>3, <2>4, <3>1, Zenon DEF IsAppended
  <2>6. Range(a \o b) = Range(a) \cup Range(b)
    BY RangeOfBoth
  <2>7. \A r : r \in Range(a) <=> Yields(F, q, r)
    BY <1>2, <2>3 DEF Gathers
  <2>8. \A i \in 1..Len(p) : i \in 1..n \/ i = n + 1
    BY <2>2 DEF IsAppended
  <2>9. 1..n \subseteq 1..Len(p) /\ n + 1 \in 1..Len(p)
    BY <2>2 DEF IsAppended
  <2>10. ASSUME NEW r PROVE Yields(F, p, r) <=> Yields(F, q, r) \/ r \in Range(b)
    BY <2>1, <2>2, <2>4, <2>8, <2>9 DEF Yields, IsAppended
  <2>11. Gathers(F, p)
    BY <2>5, <2>6, <2>7, <2>10 DEF Gathers
  <2>12. QED
    BY <2>2, <2>11 DEF IsAppended
<1>3. \A q \in Seq(S) : q \in A
  <2> HIDE DEF A
  <2>1. QED
    BY <1>1, <1>2, EverySequence
<1>4. QED
  BY <1>3

-----------------------------------------------------------------------------
(* Sums: FoldFunction(+, 0, f) takes the members of f's domain in an order *)
(* of its own, which does not matter.                                      *)

AnyOf(s) == CHOOSE x \in s : TRUE
PlusRest(g, f, s) == IF s = {} THEN 0 ELSE f[AnyOf(s)] + g[s \ {AnyOf(s)}]
IsSum(g, f, S) == g = [s \in SUBSET S |-> PlusRest(g, f, s)]
Small(S, n) == {s \in SUBSET S : Cardinality(s) <= n}
IsSumTo(g, f, S, n) == g = [s \in Small(S, n) |-> PlusRest(g, f, s)]

LEMMA AnyOfIn == ASSUME NEW s, s # {} PROVE AnyOf(s) \in s
  BY DEF AnyOf

\* A subset of a finite set is finite, and smaller by one without a member.
LEMMA SubsetFacts ==
    ASSUME NEW S, IsFiniteSet(S), NEW s \in SUBSET S
    PROVE  /\ IsFiniteSet(s) /\ Cardinality(s) \in Nat /\ Cardinality(s) <= Cardinality(S)
           /\ Cardinality(s) = 0 <=> s = {}
           /\ \A x \in s : s \ {x} \in SUBSET S /\ Cardinality(s \ {x}) = Cardinality(s) - 1
<1>1. IsFiniteSet(s) /\ Cardinality(s) <= Cardinality(S)
  BY FS_Subset
<1>2. Cardinality(s) \in Nat /\ (Cardinality(s) = 0 <=> s = {})
  BY <1>1, FS_CardinalityType, FS_EmptySet
<1>3. \A x \in s : Cardinality(s \ {x}) = Cardinality(s) - 1
  BY <1>1, FS_RemoveElement
<1>4. QED
  BY <1>1, <1>2, <1>3

LEMMA SumToNext ==
    ASSUME NEW S, IsFiniteSet(S), NEW f, NEW n \in Nat, NEW g, IsSumTo(g, f, S, n)
    PROVE  \E h : IsSumTo(h, f, S, n + 1)
<1>1. PICK h : h = [s \in Small(S, n + 1) |-> IF Cardinality(s) <= n THEN g[s] ELSE PlusRest(g, f, s)]
  OBVIOUS
<1>2. ASSUME NEW s \in Small(S, n + 1) PROVE h[s] = PlusRest(h, f, s)
  <2>1. h[s] = PlusRest(g, f, s)
    <3>1. CASE Cardinality(s) <= n
      <4>1. s \in Small(S, n)
        BY <3>1 DEF Small
      <4>2. g[s] = PlusRest(g, f, s)
        BY <4>1 DEF IsSumTo
      <4>3. QED
        BY <1>1, <3>1, <4>2
    <3>2. CASE ~(Cardinality(s) <= n)
      BY <1>1, <3>2
    <3>3. QED
      BY <3>1, <3>2
  <2>2. ASSUME s # {} PROVE g[s \ {AnyOf(s)}] = h[s \ {AnyOf(s)}]
    <3>1. s \ {AnyOf(s)} \in SUBSET S /\ Cardinality(s \ {AnyOf(s)}) = Cardinality(s) - 1 /\ Cardinality(s) \in Nat
      BY <2>2, SubsetFacts, AnyOfIn DEF Small
    <3>2. Cardinality(s) <= n + 1
      BY DEF Small
    <3>3. Cardinality(s \ {AnyOf(s)}) <= n /\ Cardinality(s \ {AnyOf(s)}) <= n + 1
      BY <3>1, <3>2
    <3>4. s \ {AnyOf(s)} \in Small(S, n + 1)
      BY <3>1, <3>3 DEF Small
    <3>5. QED
      BY <1>1, <3>3, <3>4
  <2>3. QED
    BY <2>1, <2>2 DEF PlusRest
<1>3. IsSumTo(h, f, S, n + 1)
  BY <1>1, <1>2 DEF IsSumTo
<1>4. QED
  BY <1>3

LEMMA SumExists == ASSUME NEW S, IsFiniteSet(S), NEW f PROVE \E g : IsSum(g, f, S)
<1> DEFINE A == {n \in Nat : \E g : IsSumTo(g, f, S, n)}
<1>1. 0 \in A
  <2>1. \A s \in Small(S, 0) : s = {}
    BY SubsetFacts DEF Small
  <2>2. IsSumTo([s \in Small(S, 0) |-> 0], f, S, 0)
    BY <2>1 DEF IsSumTo, PlusRest
  <2>3. QED
    BY <2>2
<1>2. ASSUME NEW n \in Nat, n \in A PROVE n + 1 \in A
  BY <1>2, SumToNext
<1>3. \A n \in Nat : n \in A
  <2> HIDE DEF A
  <2>1. QED
    BY <1>1, <1>2, EveryNumber
<1>4. PICK n \in Nat : n = Cardinality(S)
  BY FS_CardinalityType
<1>5. PICK g : IsSumTo(g, f, S, n)
  BY <1>3
<1>6. Small(S, n) = SUBSET S
  BY <1>4, SubsetFacts DEF Small
<1>7. IsSum(g, f, S)
  BY <1>5, <1>6 DEF IsSumTo, IsSum
<1>8. QED
  BY <1>7

\* FoldFunction(+, ...) is defined by such a function.
LEMMA SumChosen ==
    ASSUME NEW f, NEW S, S = DOMAIN f, IsFiniteSet(S)
    PROVE  \E g : IsSum(g, f, S) /\ FoldFunction(+, 0, f) = g[S]
<1>1. \E g : IsSum(g, f, S)
  BY SumExists
<1>2. PICK g : g = CHOOSE h : IsSum(h, f, S)
  OBVIOUS
<1>3. IsSum(g, f, S)
  BY <1>1, <1>2
<1>4. FoldFunction(+, 0, f) = g[S]
  BY <1>2 DEF FoldFunction, FoldFunctionOnSet, MapThenFoldSet, IsSum, PlusRest, AnyOf
<1>5. QED
  BY <1>3, <1>4

LEMMA SumOfEmpty == ASSUME NEW g, NEW f, NEW S, IsSum(g, f, S) PROVE g[{}] = 0
  BY DEF IsSum, PlusRest

\* The sum of a set is a number, and the sum without a member and that member, whichever it is.
IsSplit(g, f, s) ==
    g[s] \in Nat /\ \A x \in s : g[s] = f[x] + g[s \ {x}]

LEMMA SumSplits ==
    ASSUME NEW S, IsFiniteSet(S), NEW f \in [S -> Nat], NEW g, IsSum(g, f, S)
    PROVE  \A s \in SUBSET S : IsSplit(g, f, s)
<1> DEFINE A == {n \in Nat : \A s \in SUBSET S : Cardinality(s) <= n => IsSplit(g, f, s)}
<1>0. \A s \in SUBSET S : g[s] = PlusRest(g, f, s)
  BY DEF IsSum
<1>1. 0 \in A
  <2>1. ASSUME NEW s \in SUBSET S, Cardinality(s) <= 0 PROVE IsSplit(g, f, s)
    <3>1. s = {}
      BY <2>1, SubsetFacts
    <3>2. g[s] = 0
      BY <3>1, SumOfEmpty
    <3>3. QED
      BY <3>1, <3>2 DEF IsSplit
  <2>2. QED
    BY <2>1
<1>2. ASSUME NEW n \in Nat, n \in A PROVE n + 1 \in A
  <2>1. ASSUME NEW s \in SUBSET S, Cardinality(s) = n + 1 PROVE IsSplit(g, f, s)
    <3>1. /\ s # {} /\ AnyOf(s) \in s
          /\ \A x \in s : s \ {x} \in SUBSET S /\ Cardinality(s \ {x}) = n /\ f[x] \in Nat
      BY <2>1, SubsetFacts, AnyOfIn
    <3>2. \A x \in s : IsSplit(g, f, s \ {x})
      BY <1>2, <3>1
    <3>3. PICK c \in s : c = AnyOf(s)
      BY <3>1
    <3>4. g[s] = f[c] + g[s \ {c}]
      BY <1>0, <3>1, <3>3 DEF PlusRest
    <3>5. ASSUME NEW x \in s, x # c PROVE g[s] = f[x] + g[s \ {x}]
      <4>1. (s \ {c}) \ {x} = (s \ {x}) \ {c} /\ x \in s \ {c} /\ c \in s \ {x}
        BY <3>5
      <4>2. g[s \ {c}] = f[x] + g[(s \ {c}) \ {x}]
        BY <3>2, <4>1 DEF IsSplit
      <4>3. g[s \ {x}] = f[c] + g[(s \ {c}) \ {x}]
        BY <3>2, <4>1 DEF IsSplit
      <4>4. g[s \ {c}] \in Nat /\ g[s \ {x}] \in Nat /\ f[c] \in Nat /\ f[x] \in Nat
        BY <3>1, <3>2 DEF IsSplit
      <4>5. g[(s \ {c}) \ {x}] \in Nat
        <5>1. (s \ {c}) \ {x} \in SUBSET S /\ Cardinality((s \ {c}) \ {x}) = n - 1
          <6>1. PICK u \in SUBSET S : u = s \ {c}
            BY <3>1
          <6>2. u \ {x} \in SUBSET S /\ Cardinality(u \ {x}) = Cardinality(u) - 1 /\ Cardinality(u) = n
            BY <3>1, <4>1, <6>1, SubsetFacts
          <6>3. QED
            BY <6>1, <6>2
        <5>2. IsSplit(g, f, (s \ {c}) \ {x})
          BY <1>2, <5>1
        <5>3. QED
          BY <5>2 DEF IsSplit
      <4>6. QED
        BY <3>4, <4>2, <4>3, <4>4, <4>5
    <3>6. g[s] \in Nat
      BY <3>1, <3>2, <3>4 DEF IsSplit
    <3>7. QED
      BY <3>4, <3>5, <3>6 DEF IsSplit
  <2>2. ASSUME NEW s \in SUBSET S, Cardinality(s) <= n + 1, Cardinality(s) # n + 1 PROVE Cardinality(s) <= n
    BY <2>2, SubsetFacts
  <2>3. QED
    BY <1>2, <2>1, <2>2
<1>3. \A n \in Nat : n \in A
  <2> HIDE DEF A
  <2>1. QED
    BY <1>1, <1>2, EveryNumber
<1>4. QED
  BY <1>3, SubsetFacts

\* Sums of functions that agree on a set agree there.
LEMMA SumsAgree ==
    ASSUME NEW S, IsFiniteSet(S), NEW f, NEW g, IsSum(g, f, S),
           NEW T, NEW e, NEW h, IsSum(h, e, T), S \subseteq T, \A x \in S : f[x] = e[x]
    PROVE  g[S] = h[S]
<1> DEFINE A == {n \in Nat : \A s \in SUBSET S : Cardinality(s) = n => g[s] = h[s]}
<1>0. \A s \in SUBSET S : g[s] = PlusRest(g, f, s) /\ h[s] = PlusRest(h, e, s)
  BY DEF IsSum
<1>1. 0 \in A
  <2>1. ASSUME NEW s \in SUBSET S, Cardinality(s) = 0 PROVE g[s] = h[s]
    <3>1. s = {}
      BY <2>1, SubsetFacts
    <3>2. g[{}] = 0 /\ h[{}] = 0
      BY SumOfEmpty
    <3>3. QED
      BY <3>1, <3>2
  <2>2. QED
    BY <2>1
<1>2. ASSUME NEW n \in Nat, n \in A PROVE n + 1 \in A
  <2>1. ASSUME NEW s \in SUBSET S, Cardinality(s) = n + 1 PROVE g[s] = h[s]
    <3>1. s # {} /\ AnyOf(s) \in s /\ s \ {AnyOf(s)} \in SUBSET S /\ Cardinality(s \ {AnyOf(s)}) = n
      BY <2>1, SubsetFacts, AnyOfIn
    <3>2. g[s \ {AnyOf(s)}] = h[s \ {AnyOf(s)}] /\ f[AnyOf(s)] = e[AnyOf(s)]
      BY <1>2, <3>1
    <3>3. QED
      BY <1>0, <3>1, <3>2 DEF PlusRest
  <2>2. QED
    BY <2>1
<1>3. \A n \in Nat : n \in A
  <2> HIDE DEF A
  <2>1. QED
    BY <1>1, <1>2, EveryNumber
<1>4. QED
  BY <1>3, SubsetFacts

\* What the counters of the modules add up.
Total(f) == FoldFunction(+, 0, f)

LEMMA TotalType ==
    ASSUME NEW S, IsFiniteSet(S), NEW f \in [S -> Nat]
    PROVE  Total(f) \in Nat /\ \A x \in S : f[x] <= Total(f)
<1>1. PICK g : IsSum(g, f, S) /\ Total(f) = g[S]
  BY SumChosen DEF Total
<1>2. \A s \in SUBSET S : IsSplit(g, f, s)
  BY <1>1, SumSplits
<1>3. ASSUME NEW x \in S PROVE f[x] <= Total(f)
  <2>1. g[S \ {x}] \in Nat /\ g[S] = f[x] + g[S \ {x}] /\ f[x] \in Nat
    BY <1>2 DEF IsSplit
  <2>2. QED
    BY <1>1, <2>1
<1>4. QED
  BY <1>1, <1>2, <1>3 DEF IsSplit

\* Functions that differ in one place have sums that differ by as much.
LEMMA TotalChanges ==
    ASSUME NEW S, IsFiniteSet(S), NEW f \in [S -> Nat], NEW e \in [S -> Nat], NEW x \in S,
           \A y \in S \ {x} : f[y] = e[y]
    PROVE  Total(e) = Total(f) - f[x] + e[x]
<1>1. PICK g : IsSum(g, f, S) /\ Total(f) = g[S]
  BY SumChosen DEF Total
<1>2. PICK h : IsSum(h, e, S) /\ Total(e) = h[S]
  BY SumChosen DEF Total
<1>3. g[S] = f[x] + g[S \ {x}] /\ g[S \ {x}] \in Nat
  <2>1. \A s \in SUBSET S : IsSplit(g, f, s)
    BY <1>1, SumSplits
  <2>2. IsSplit(g, f, S) /\ IsSplit(g, f, S \ {x})
    BY <2>1
  <2>3. QED
    BY <2>2 DEF IsSplit
<1>4. h[S] = e[x] + h[S \ {x}] /\ h[S \ {x}] \in Nat
  <2>1. \A s \in SUBSET S : IsSplit(h, e, s)
    BY <1>2, SumSplits
  <2>2. IsSplit(h, e, S) /\ IsSplit(h, e, S \ {x})
    BY <2>1
  <2>3. QED
    BY <2>2 DEF IsSplit
<1>5. g[S \ {x}] = h[S \ {x}]
  <2>1. PICK R : R = S \ {x}
    OBVIOUS
  <2>2. IsFiniteSet(R) /\ R \subseteq S /\ \A y \in R : f[y] = e[y]
    BY <2>1, FS_Subset
  <2>3. PICK k : IsSum(k, f, R)
    BY <2>2, SumExists
  <2>4. k[R] = g[R] /\ k[R] = h[R]
    BY <1>1, <1>2, <2>2, <2>3, SumsAgree
  <2>5. QED
    BY <2>1, <2>4
<1>6. QED
  BY <1>1, <1>2, <1>3, <1>4, <1>5

LEMMA TotalZero ==
    ASSUME NEW S, IsFiniteSet(S), NEW f \in [S -> Nat], \A x \in S : f[x] = 0
    PROVE  Total(f) = 0
<1>1. PICK g : IsSum(g, f, S) /\ Total(f) = g[S]
  BY SumChosen DEF Total
<1>2. \A s \in SUBSET S : IsSplit(g, f, s)
  BY <1>1, SumSplits
<1> DEFINE A == {n \in Nat : \A s \in SUBSET S : Cardinality(s) = n => g[s] = 0}
<1>3. 0 \in A
  <2>1. ASSUME NEW s \in SUBSET S, Cardinality(s) = 0 PROVE g[s] = 0
    <3>1. s = {}
      BY <2>1, SubsetFacts
    <3>2. g[{}] = 0
      BY <1>1, SumOfEmpty
    <3>3. QED
      BY <3>1, <3>2
  <2>2. QED
    BY <2>1
<1>4. ASSUME NEW n \in Nat, n \in A PROVE n + 1 \in A
  <2>1. ASSUME NEW s \in SUBSET S, Cardinality(s) = n + 1 PROVE g[s] = 0
    <3>1. s # {} /\ AnyOf(s) \in s /\ s \ {AnyOf(s)} \in SUBSET S /\ Cardinality(s \ {AnyOf(s)}) = n
      BY <2>1, SubsetFacts, AnyOfIn
    <3>2. g[s] = f[AnyOf(s)] + g[s \ {AnyOf(s)}]
      BY <1>2, <3>1 DEF IsSplit
    <3>3. f[AnyOf(s)] = 0 /\ g[s \ {AnyOf(s)}] = 0
      BY <1>4, <3>1
    <3>4. QED
      BY <3>2, <3>3
  <2>2. QED
    BY <2>1
<1>5. \A n \in Nat : n \in A
  <2> HIDE DEF A
  <2>1. QED
    BY <1>3, <1>4, EveryNumber
<1>6. QED
  BY <1>1, <1>5, SubsetFacts

LEMMA TotalEmpty == Total(<<>>) = 0
<1>1. <<>> \in [{} -> Nat] /\ IsFiniteSet({})
  BY FS_EmptySet
<1>2. QED
  BY <1>1, TotalZero

LEMMA TotalAppend ==
    ASSUME NEW s \in Seq(Nat), NEW v \in Nat
    PROVE  Total(Append(s, v)) = Total(s) + v
<1>1. PICK n \in Nat : n = Len(s)
  OBVIOUS
<1>2. PICK k \in Nat : k = n + 1
  OBVIOUS
<1>3. PICK r : r = Append(s, v)
  OBVIOUS
<1>4. /\ s \in [1..n -> Nat] /\ r \in [1..k -> Nat] /\ r[k] = v /\ \A i \in 1..n : s[i] = r[i]
      /\ DOMAIN s = 1..n /\ DOMAIN r = 1..k
  <2>1. r \in Seq(Nat) /\ Len(r) = k /\ r[k] = v /\ \A i \in 1..n : s[i] = r[i]
    BY <1>1, <1>2, <1>3
  <2>2. QED
    BY <1>1, <2>1
<1>5. IsFiniteSet(1..n) /\ IsFiniteSet(1..k)
  BY FS_Interval
<1>6. PICK g : IsSum(g, s, 1..n) /\ Total(s) = g[1..n]
  BY <1>4, <1>5, SumChosen DEF Total
<1>7. PICK h : IsSum(h, r, 1..k) /\ Total(r) = h[1..k]
  BY <1>4, <1>5, SumChosen DEF Total
<1>8. k \in 1..k /\ (1..k) \ {k} = 1..n /\ 1..n \subseteq 1..k
  BY <1>2
<1>9. h[1..k] = r[k] + h[1..n]
  <2>1. IsSplit(h, r, 1..k)
    BY <1>4, <1>5, <1>7, SumSplits
  <2>2. QED
    BY <1>8, <2>1 DEF IsSplit
<1>10. g[1..n] = h[1..n]
  <2>1. PICK S : S = 1..n
    OBVIOUS
  <2>2. PICK T : T = 1..k
    OBVIOUS
  <2>3. IsFiniteSet(S) /\ IsSum(g, s, S) /\ IsSum(h, r, T) /\ S \subseteq T /\ \A i \in S : s[i] = r[i]
    BY <1>4, <1>5, <1>6, <1>7, <1>8, <2>1, <2>2
  <2>4. g[S] = h[S]
    BY <2>3, SumsAgree
  <2>5. QED
    BY <2>1, <2>4
<1>11. g[1..n] \in Nat
  <2>1. IsSplit(g, s, 1..n)
    BY <1>4, <1>5, <1>6, SumSplits
  <2>2. QED
    BY <2>1 DEF IsSplit
<1>12. QED
  BY <1>3, <1>4, <1>6, <1>7, <1>9, <1>10, <1>11

TotalOfHeadAndTail(s) == s # <<>> => Total(s) = Head(s) + Total(Tail(s))

LEMMA TotalOfNumbers == ASSUME NEW s \in Seq(Nat) PROVE Total(s) \in Nat
<1>1. s \in [1..Len(s) -> Nat] /\ Len(s) \in Nat
  OBVIOUS
<1>2. IsFiniteSet(1..Len(s))
  BY <1>1, FS_Interval
<1>3. QED
  BY <1>1, <1>2, TotalType

LEMMA TotalTail == ASSUME NEW s \in Seq(Nat) PROVE TotalOfHeadAndTail(s)
<1> DEFINE A == {r \in Seq(Nat) : TotalOfHeadAndTail(r)}
<1>1. <<>> \in A
  BY TotalEmpty DEF TotalOfHeadAndTail
<1>2. ASSUME NEW r \in Seq(Nat), NEW x \in Nat, r \in A PROVE Append(r, x) \in A
  <2>1. Append(r, x) \in Seq(Nat) /\ Total(Append(r, x)) = Total(r) + x /\ Total(r) \in Nat
    BY <1>2, TotalAppend, TotalOfNumbers
  <2>2. Total(Append(r, x)) \in Nat
    BY <2>1
  <2>3. CASE r = <<>>
    <3>1. Head(Append(r, x)) = x /\ Tail(Append(r, x)) = <<>>
      BY <2>3
    <3>2. QED
      BY <2>1, <2>2, <2>3, <3>1, TotalEmpty DEF TotalOfHeadAndTail
  <2>4. CASE r # <<>>
    <3>1. Head(Append(r, x)) = Head(r) /\ Tail(Append(r, x)) = Append(Tail(r), x) /\ Tail(r) \in Seq(Nat) /\ Head(r) \in Nat
      BY <2>4
    <3>2. Total(Append(Tail(r), x)) = Total(Tail(r)) + x
      BY <3>1, TotalAppend
    <3>3. Total(r) = Head(r) + Total(Tail(r))
      BY <1>2, <2>4 DEF TotalOfHeadAndTail
    <3>4. Total(Tail(r)) \in Nat
      BY <3>1, TotalOfNumbers
    <3>5. Total(Append(r, x)) = Head(r) + (Total(Tail(r)) + x)
      BY <2>1, <3>1, <3>3, <3>4
    <3>6. QED
      BY <2>1, <2>2, <3>1, <3>2, <3>5 DEF TotalOfHeadAndTail
  <2>5. QED
    BY <2>3, <2>4
<1>3. \A r \in Seq(Nat) : r \in A
  <2> HIDE DEF A
  <2>1. QED
    BY <1>1, <1>2, EverySequence
<1>4. QED
  BY <1>3

=============================================================================
