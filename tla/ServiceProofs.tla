---------------------------- MODULE ServiceProofs ----------------------------
(***************************************************************************)
(* What main promises of the options it accepts and of those it refuses,   *)
(* for every set of options and every answer of the exchange, and what     *)
(* the parsers make of every message of a connection that it opens.        *)
(***************************************************************************)
EXTENDS Service, ListFacts, FiniteSetTheorems

-----------------------------------------------------------------------------
(* The operators of Config.                                                *)

LEMMA Intervals == \A n \in Nat : IsFiniteSet(1..n) /\ Cardinality(1..n) = n
  BY FS_Interval

\* How many members of a finite set of numbers are no larger than one of them.
LEMMA RankFacts ==
    ASSUME NEW set \in SUBSET Nat, IsFiniteSet(set),
           NEW rank, rank = [x \in set |-> Cardinality({y \in set : y <= x})]
    PROVE  /\ rank \in [set -> 1..Cardinality(set)] /\ Cardinality(set) \in Nat
           /\ \A x, z \in set : x < z => rank[x] < rank[z]
<1>1. ASSUME NEW x \in set
      PROVE  rank[x] \in 1..Cardinality(set) /\ Cardinality(set) \in Nat
  <2> DEFINE low == {y \in set : y <= x}
  <2>1. x \in low /\ low \subseteq set /\ rank[x] = Cardinality(low)
    OBVIOUS
  <2> HIDE DEF low
  <2>2. IsFiniteSet(low) /\ Cardinality(low) <= Cardinality(set)
    BY <2>1, FS_Subset
  <2>3. Cardinality(low) \in Nat /\ Cardinality(set) \in Nat
    BY <2>2, FS_CardinalityType
  <2>4. Cardinality(low) # 0
    BY <2>1, <2>2, FS_EmptySet
  <2>5. QED
    BY <2>1, <2>2, <2>3, <2>4
<1>2. ASSUME NEW x \in set, NEW z \in set, x < z PROVE rank[x] < rank[z]
  <2> DEFINE low == {y \in set : y <= x}
  <2> DEFINE high == {y \in set : y <= z}
  <2>1. /\ low \subseteq high /\ high \subseteq set /\ z \in high /\ z \notin low
        /\ rank[x] = Cardinality(low) /\ rank[z] = Cardinality(high)
    <3>1. \A y \in set : y \in Nat
      OBVIOUS
    <3>2. low \subseteq high
      <4>1. ASSUME NEW y \in set, y <= x PROVE y <= z
        BY <1>2, <3>1, <4>1
      <4>2. QED
        BY <4>1
    <3>3. z \in high /\ z \notin low /\ high \subseteq set
      BY <1>2, <3>1
    <3>4. QED
      BY <3>2, <3>3
  <2> HIDE DEF low, high
  <2>2. IsFiniteSet(high)
    BY <2>1, FS_Subset
  <2>3. IsFiniteSet(low) /\ Cardinality(low) <= Cardinality(high) /\ (Cardinality(high) = Cardinality(low) => high = low)
    BY <2>1, <2>2, FS_Subset
  <2>4. Cardinality(low) \in Nat /\ Cardinality(high) \in Nat
    BY <2>2, <2>3, FS_CardinalityType
  <2>5. high # low
    BY <2>1
  <2>6. QED
    BY <2>1, <2>3, <2>4, <2>5
<1>3. Cardinality(set) \in Nat
  BY FS_CardinalityType
<1>4. QED
  BY <1>1, <1>2, <1>3

\* Ascending lists every member of the set once, the smaller before the larger.
LEMMA AscendingFacts ==
    ASSUME NEW set \in SUBSET Nat, IsFiniteSet(set)
    PROVE  /\ DOMAIN Ascending(set) = 1..Cardinality(set) /\ Cardinality(set) \in Nat
           /\ \A k \in 1..Cardinality(set) : Ascending(set)[k] \in set
           /\ \A k, n \in 1..Cardinality(set) : k < n => Ascending(set)[k] < Ascending(set)[n]
           /\ \A x \in set : \E k \in 1..Cardinality(set) : Ascending(set)[k] = x
<1>1. PICK rank : rank = [x \in set |-> Cardinality({y \in set : y <= x})]
  OBVIOUS
<1>2. /\ rank \in [set -> 1..Cardinality(set)] /\ Cardinality(set) \in Nat
      /\ \A x, z \in set : x < z => rank[x] < rank[z]
  BY <1>1, RankFacts
<1>3. \A x, z \in set : rank[x] = rank[z] => x = z
  <2> SUFFICES ASSUME NEW x \in set, NEW z \in set, rank[x] = rank[z], x # z PROVE FALSE
    OBVIOUS
  <2>1. x \in Nat /\ z \in Nat /\ rank[x] \in Nat /\ rank[z] \in Nat
    BY <1>2
  <2>2. x < z \/ z < x
    BY <2>1
  <2>3. QED
    BY <1>2, <2>1, <2>2
<1>4. \A k \in 1..Cardinality(set) : \E x \in set : rank[x] = k
  <2>1. rank \in Injection(set, 1..Cardinality(set))
    BY <1>2, <1>3 DEF Injection, IsInjective
  <2>2. IsFiniteSet(1..Cardinality(set)) /\ Cardinality(1..Cardinality(set)) = Cardinality(set)
    BY <1>2, Intervals
  <2>3. rank \in Surjection(set, 1..Cardinality(set))
    BY <2>1, <2>2, FS_Injection
  <2>4. QED
    BY <2>3 DEF Surjection
<1>5. Ascending(set) = [k \in 1..Cardinality(set) |-> CHOOSE x \in set : rank[x] = k]
  BY <1>1 DEF Ascending
<1>6. \A k \in 1..Cardinality(set) : Ascending(set)[k] \in set /\ rank[Ascending(set)[k]] = k
  <2> TAKE k \in 1..Cardinality(set)
  <2>1. \E x \in set : rank[x] = k
    BY <1>4
  <2>2. Ascending(set)[k] = CHOOSE x \in set : rank[x] = k
    BY <1>5
  <2>3. QED
    BY <2>1, <2>2
<1>7. ASSUME NEW k \in 1..Cardinality(set), NEW n \in 1..Cardinality(set), k < n
      PROVE  Ascending(set)[k] < Ascending(set)[n]
  <2>1. PICK x \in set : x = Ascending(set)[k] /\ rank[x] = k
    BY <1>6
  <2>2. PICK z \in set : z = Ascending(set)[n] /\ rank[z] = n
    BY <1>6
  <2>3. ~(z < x) /\ x # z /\ x \in Nat /\ z \in Nat
    BY <1>2, <1>7, <2>1, <2>2
  <2>4. QED
    BY <2>1, <2>2, <2>3
<1>8. ASSUME NEW x \in set PROVE \E k \in 1..Cardinality(set) : Ascending(set)[k] = x
  <2>1. PICK k \in 1..Cardinality(set) : k = rank[x]
    BY <1>2
  <2>2. Ascending(set)[k] = x
    BY <1>3, <1>6, <2>1
  <2>3. QED
    BY <2>2
<1>9. QED
  BY <1>2, <1>5, <1>6, <1>7, <1>8

\* q lists the items at the positions, in their order.
IsPick(q, items, positions, S) ==
    \E n \in Nat : \E kept \in [1..n -> positions] :
        /\ n = Cardinality(positions)
        /\ q \in Seq(S) /\ Len(q) = n
        /\ q = [k \in 1..n |-> items[kept[k]]]
        /\ \A k, m \in 1..n : k < m => kept[k] < kept[m]
        /\ \A x \in positions : \E k \in 1..n : kept[k] = x

LEMMA PickedFacts ==
    ASSUME NEW S, NEW items \in Seq(S), NEW positions \in SUBSET (1..Len(items))
    PROVE  IsPick(Picked(items, positions), items, positions, S)
<1>1. Len(items) \in Nat /\ positions \in SUBSET Nat
  OBVIOUS
<1>2. IsFiniteSet(positions)
  BY <1>1, Intervals, FS_Subset
<1>3. PICK kept : kept = Ascending(positions)
  OBVIOUS
<1>4. PICK n \in Nat : n = Cardinality(positions) /\ DOMAIN kept = 1..n
  BY <1>1, <1>2, <1>3, AscendingFacts
<1>5. /\ \A k \in 1..n : kept[k] \in positions
      /\ \A k, m \in 1..n : k < m => kept[k] < kept[m]
      /\ \A x \in positions : \E k \in 1..n : kept[k] = x
  BY <1>1, <1>2, <1>3, <1>4, AscendingFacts
<1>6. kept \in [1..n -> positions]
  <2>0. PICK rank : rank = [x \in positions |-> Cardinality({y \in positions : y <= x})]
    OBVIOUS
  <2>1. kept = [k \in 1..n |-> CHOOSE x \in positions : rank[x] = k]
    BY <1>3, <1>4, <2>0 DEF Ascending
  <2>2. QED
    BY <1>5, <2>1
<1>7. Picked(items, positions) = [k \in 1..n |-> items[kept[k]]]
  BY <1>3, <1>4 DEF Picked
<1>8. Picked(items, positions) \in Seq(S) /\ Len(Picked(items, positions)) = n
  <2>1. \A i \in 1..Len(items) : items[i] \in S
    OBVIOUS
  <2>2. \A k \in 1..n : items[kept[k]] \in S
    BY <1>5, <2>1, Zenon
  <2>3. QED
    BY <1>7, <2>2
<1>9. QED
  BY <1>4, <1>5, <1>6, <1>7, <1>8 DEF IsPick

\* csv keeps each item once, where it is first: nothing is lost, nothing is repeated, and it is
\* empty only if there is no item.
LEMMA CsvFacts ==
    ASSUME NEW S, NEW items \in Seq(S)
    PROVE  /\ csv(items) \in Seq(S)
           /\ \A i \in 1..Len(items) : \E k \in 1..Len(csv(items)) : csv(items)[k] = items[i]
           /\ \A k, n \in 1..Len(csv(items)) : csv(items)[k] = csv(items)[n] => k = n
           /\ csv(items) = <<>> <=> items = <<>>
<1>1. PICK first : first = {i \in 1..Len(items) : \A j \in 1..(i - 1) : items[j] # items[i]}
  OBVIOUS
<1>2. Len(items) \in Nat /\ first \subseteq 1..Len(items)
  BY <1>1
<1>3. csv(items) = Picked(items, first)
  BY <1>1 DEF csv
<1>n. IsPick(csv(items), items, first, S)
  BY <1>2, <1>3, PickedFacts
<1>m. PICK n \in Nat : \E kept \in [1..n -> first] :
        /\ n = Cardinality(first)
        /\ csv(items) \in Seq(S) /\ Len(csv(items)) = n
        /\ csv(items) = [k \in 1..n |-> items[kept[k]]]
        /\ \A k, m \in 1..n : k < m => kept[k] < kept[m]
        /\ \A x \in first : \E k \in 1..n : kept[k] = x
  BY <1>n DEF IsPick
<1>4. PICK kept \in [1..n -> first] :
        /\ n = Cardinality(first)
        /\ csv(items) \in Seq(S) /\ Len(csv(items)) = n
        /\ csv(items) = [k \in 1..n |-> items[kept[k]]]
        /\ \A k, m \in 1..n : k < m => kept[k] < kept[m]
        /\ \A x \in first : \E k \in 1..n : kept[k] = x
  BY <1>m
<1>5. n = Cardinality(first)
  BY <1>4
<1>6. /\ \A k \in 1..n : kept[k] \in first
      /\ \A k, m \in 1..n : k < m => kept[k] < kept[m]
      /\ \A x \in first : \E k \in 1..n : kept[k] = x
  BY <1>4
<1>7. csv(items) = [k \in 1..n |-> items[kept[k]]]
  BY <1>3, <1>4
<1>8. csv(items) \in Seq(S) /\ Len(csv(items)) = n
  BY <1>3, <1>4
<1>9. ASSUME NEW k \in 1..n, NEW m \in 1..n, csv(items)[k] = csv(items)[m], k < m PROVE FALSE
  <2>1. kept[k] \in first /\ kept[m] \in first /\ kept[k] < kept[m] /\ items[kept[k]] = items[kept[m]]
    BY <1>6, <1>7, <1>9
  <2>2. kept[k] \in 1..(kept[m] - 1)
    <3>1. kept[k] \in 1..Len(items) /\ kept[m] \in 1..Len(items)
      BY <1>2, <2>1, Zenon
    <3>2. QED
      BY <1>2, <2>1, <3>1
  <2>3. QED
    BY <1>1, <2>1, <2>2
<1>10. ASSUME NEW i \in 1..Len(items) PROVE \E k \in 1..n : csv(items)[k] = items[i]
  <2> DEFINE same == {j \in 1..Len(items) : items[j] = items[i]}
  <2>1. same \in SUBSET Nat /\ same # {}
    BY <1>2
  <2>2. PICK f \in same : \A j \in same : f <= j
    BY <2>1, LeastNumber
  <2>3. f \in first
    <3>1. ASSUME NEW j \in 1..(f - 1), items[j] = items[f] PROVE FALSE
      <4>1. f \in 1..Len(items) /\ j \in 1..Len(items) /\ items[f] = items[i]
        BY <1>2
      <4>2. j \in same
        BY <3>1, <4>1
      <4>3. QED
        BY <2>2, <4>1, <4>2
    <3>2. QED
      BY <1>1, <3>1
  <2>4. PICK k \in 1..n : kept[k] = f
    BY <1>6, <2>3
  <2>5. QED
    BY <1>7, <2>4
<1>11. csv(items) = <<>> <=> items = <<>>
  <2>1. ASSUME items # <<>> PROVE csv(items) # <<>>
    <3>1. 1 \in 1..Len(items)
      BY <1>2, <2>1
    <3>2. PICK k \in 1..n : csv(items)[k] = items[1]
      BY <1>10, <3>1
    <3>3. QED
      BY <1>8, <3>2
  <2>2. ASSUME items = <<>> PROVE csv(items) = <<>>
    <3>1. first = {}
      BY <1>2, <2>2
    <3>2. n = 0
      BY <1>5, <3>1, FS_EmptySet
    <3>3. QED
      BY <1>8, <3>2
  <2>3. QED
    BY <2>1, <2>2
<1>12. \A k, m \in 1..n : csv(items)[k] = csv(items)[m] => k = m
  BY <1>9
<1>13. QED
  BY <1>8, <1>10, <1>11, <1>12

\* A filter of a list without repetition lists what it keeps once.
Distinct(q) == \A k, m \in 1..Len(q) : q[k] = q[m] => k = m

IsFilter(q, items, keep, S) ==
    /\ q \in Seq(S) /\ Distinct(q)
    /\ \A k \in 1..Len(q) : q[k] \in keep /\ \E i \in 1..Len(items) : q[k] = items[i]
    /\ \A i \in 1..Len(items) : items[i] \in keep => \E k \in 1..Len(q) : q[k] = items[i]

LEMMA FilterFacts ==
    ASSUME NEW S, NEW items \in Seq(S), Distinct(items), NEW keep, NEW positions,
           positions = {i \in 1..Len(items) : items[i] \in keep}
    PROVE  IsFilter(Picked(items, positions), items, keep, S)
<1>1. PICK q : q = Picked(items, positions)
  OBVIOUS
<1>2. positions \in SUBSET (1..Len(items))
  OBVIOUS
<1>3. IsPick(q, items, positions, S)
  BY <1>1, <1>2, PickedFacts
<1>4. PICK n \in Nat : \E kept \in [1..n -> positions] :
        /\ q \in Seq(S) /\ Len(q) = n /\ q = [k \in 1..n |-> items[kept[k]]]
        /\ \A k, m \in 1..n : k < m => kept[k] < kept[m]
        /\ \A x \in positions : \E k \in 1..n : kept[k] = x
  BY <1>3 DEF IsPick
<1>5. PICK kept \in [1..n -> positions] :
        /\ q \in Seq(S) /\ Len(q) = n /\ q = [k \in 1..n |-> items[kept[k]]]
        /\ \A k, m \in 1..n : k < m => kept[k] < kept[m]
        /\ \A x \in positions : \E k \in 1..n : kept[k] = x
  BY <1>4
<1>6. \A k \in 1..n : kept[k] \in 1..Len(items) /\ items[kept[k]] \in keep /\ q[k] = items[kept[k]]
  BY <1>5
<1>7. Distinct(q)
  <2> SUFFICES ASSUME NEW k \in 1..n, NEW m \in 1..n, q[k] = q[m], k < m PROVE FALSE
    BY <1>5 DEF Distinct
  <2>1. kept[k] = kept[m]
    BY <1>6 DEF Distinct
  <2>2. kept[k] < kept[m] /\ kept[k] \in Nat
    BY <1>5, <1>6
  <2>3. QED
    BY <2>1, <2>2
<1>8. ASSUME NEW i \in 1..Len(items), items[i] \in keep PROVE \E k \in 1..n : q[k] = items[i]
  <2>1. i \in positions
    BY <1>8
  <2>2. PICK k \in 1..n : kept[k] = i
    BY <1>5, <2>1
  <2>3. QED
    BY <1>6, <2>2
<1>9. Len(q) = n /\ q \in Seq(S)
  BY <1>5
<1>10. \A k \in 1..n : q[k] \in keep /\ \E i \in 1..Len(items) : q[k] = items[i]
  BY <1>6, Zenon
<1>11. IsFilter(q, items, keep, S)
  BY <1>7, <1>8, <1>9, <1>10, Zenon DEF IsFilter
<1>12. QED
  BY <1>1, <1>11

LEMMA OnlyFacts ==
    ASSUME NEW S, NEW items \in Seq(S), Distinct(items), NEW set
    PROVE  IsFilter(Only(items, set), items, set, S)
  BY FilterFacts DEF Only

LEMMA WithoutFacts ==
    ASSUME NEW S, NEW items \in Seq(S), Distinct(items), NEW set
    PROVE  IsFilter(Without(items, set), items, S \ set, S)
<1>1. \A i \in 1..Len(items) : items[i] \in S \ set <=> items[i] \notin set
  OBVIOUS
<1>2. {i \in 1..Len(items) : items[i] \notin set} = {i \in 1..Len(items) : items[i] \in S \ set}
  BY <1>1
<1>3. QED
  BY <1>2, FilterFacts DEF Without

-----------------------------------------------------------------------------
(* Dealing out streams.                                                    *)

LEMMA Division ==
    ASSUME NEW a \in Nat, NEW b \in Nat \ {0}
    PROVE  a \div b \in Nat /\ (a % b) \in 0..(b - 1) /\ a = (a \div b) * b + (a % b)
  OBVIOUS

LEMMA QuotientBound ==
    ASSUME NEW a \in Nat, NEW b \in Nat \ {0}, NEW k \in Nat
    PROVE  k <= a \div b <=> k * b <= a
  OBVIOUS

LEMMA QuotientNotLess ==
    ASSUME NEW p \in Nat, NEW q \in Nat, NEW r \in Nat, NEW s \in Nat, NEW b \in Nat \ {0},
           r < b, s < b, p * b + r = q * b + s
    PROVE  ~(p < q)
<1>1. SUFFICES ASSUME p < q PROVE FALSE
  OBVIOUS
<1>2. PICK d \in Nat : q = p + 1 + d
  <2>1. q - p - 1 \in Nat /\ q = p + 1 + (q - p - 1)
    BY <1>1
  <2>2. QED
    BY <2>1
<1>3. q * b = p * b + b + d * b
  BY <1>2
<1>4. d * b \in Nat /\ p * b \in Nat
  OBVIOUS
<1>5. QED
  BY <1>3, <1>4

LEMMA DivisionUnique ==
    ASSUME NEW p \in Nat, NEW q \in Nat, NEW r \in Nat, NEW s \in Nat, NEW b \in Nat \ {0},
           r < b, s < b, p * b + r = q * b + s
    PROVE  p = q /\ r = s
<1>1. ~(p < q) /\ ~(q < p)
  BY QuotientNotLess
<1>2. p = q
  BY <1>1
<1>3. p * b \in Nat /\ p * b = q * b
  BY <1>2
<1>4. QED
  BY <1>2, <1>3

\* The positions the i-th of count hands gets: those within the list, and no other.
LEMMA DealtPositions ==
    ASSUME NEW len \in Nat, NEW count \in Nat \ {0}, NEW i \in 1..count, NEW k \in Nat \ {0}
    PROVE  /\ div_ceil(len - i + 1, count) \in Nat
           /\ k <= div_ceil(len - i + 1, count) <=> (k - 1) * count + i <= len
<1>1. PICK a \in Nat : a = len - i + count
  <2>1. len - i + count \in Nat
    OBVIOUS
  <2>2. QED
    BY <2>1
<1>2. div_ceil(len - i + 1, count) = a \div count
  <2>1. len - i + 1 + count - 1 = a
    BY <1>1
  <2>2. QED
    BY <2>1 DEF div_ceil
<1>3. k <= a \div count <=> k * count <= a
  BY QuotientBound
<1>4. (k - 1) * count = k * count - count /\ k * count \in Nat
  OBVIOUS
<1>5. k * count <= a <=> (k - 1) * count + i <= len
  BY <1>1, <1>4
<1>6. a \div count \in Nat
  BY Division
<1>7. QED
  BY <1>2, <1>3, <1>5, <1>6

\* The k-th item of a hand is the one at its place in the deal, and a hand holds all such.
IsHand(q, items, i, count) ==
    /\ \A k \in 1..Len(q) :
         (k - 1) * count + i \in 1..Len(items) /\ q[k] = items[(k - 1) * count + i]
    /\ \A k \in Nat \ {0} : k <= Len(q) <=> (k - 1) * count + i <= Len(items)

LEMMA DealtType ==
    ASSUME NEW S, NEW items \in Seq(S), NEW count \in Nat \ {0}, NEW i \in 1..count
    PROVE  Dealt(items, i, count) \in Seq(S) /\ IsHand(Dealt(items, i, count), items, i, count)
<1>1. Len(items) \in Nat /\ \A n \in 1..Len(items) : items[n] \in S
  OBVIOUS
<1>2. PICK share \in Nat : share = div_ceil(Len(items) - i + 1, count)
  BY <1>1, DealtPositions
<1>3. \A k \in Nat \ {0} : k <= share <=> (k - 1) * count + i <= Len(items)
  BY <1>1, <1>2, DealtPositions
<1>4. Dealt(items, i, count) = [k \in 1..share |-> items[(k - 1) * count + i]]
  BY <1>2 DEF Dealt
<1>5. ASSUME NEW k \in 1..share PROVE (k - 1) * count + i \in 1..Len(items)
  <2>1. (k - 1) * count \in Nat
    OBVIOUS
  <2>2. (k - 1) * count + i <= Len(items)
    BY <1>3
  <2>3. QED
    BY <1>1, <2>1, <2>2
<1>6. \A k \in 1..share : items[(k - 1) * count + i] \in S
  BY <1>1, <1>5
<1>7. Dealt(items, i, count) \in Seq(S) /\ Len(Dealt(items, i, count)) = share
  BY <1>4, <1>6
<1>8. \A k \in 1..share : Dealt(items, i, count)[k] = items[(k - 1) * count + i]
  BY <1>4
<1>9. QED
  BY <1>3, <1>5, <1>7, <1>8 DEF IsHand

\* Every item is dealt to some hand.
LEMMA DealtCovers ==
    ASSUME NEW S, NEW items \in Seq(S), NEW count \in Nat \ {0}, NEW n \in 1..Len(items)
    PROVE  \E i \in 1..count : \E k \in 1..Len(Dealt(items, i, count)) : Dealt(items, i, count)[k] = items[n]
<1>1. Len(items) \in Nat /\ n - 1 \in Nat
  OBVIOUS
<1>2. PICK q \in Nat, r \in 0..(count - 1) : n - 1 = q * count + r
  BY <1>1, Division
<1>3. PICK i \in 1..count : i = r + 1
  OBVIOUS
<1>4. PICK k \in Nat \ {0} : k = q + 1
  OBVIOUS
<1>5. (k - 1) * count + i = n
  <2>1. k - 1 = q
    BY <1>4
  <2>2. (k - 1) * count = q * count /\ q * count \in Nat
    BY <2>1
  <2>3. QED
    BY <1>2, <1>3, <2>2
<1>6. k \in 1..Len(Dealt(items, i, count)) /\ Dealt(items, i, count)[k] = items[n]
  <2>0. Dealt(items, i, count) \in Seq(S) /\ IsHand(Dealt(items, i, count), items, i, count)
    BY DealtType
  <2>1. k <= Len(Dealt(items, i, count))
    BY <1>5, <2>0 DEF IsHand
  <2>2. k \in 1..Len(Dealt(items, i, count))
    BY <2>0, <2>1
  <2>3. Dealt(items, i, count)[k] = items[(k - 1) * count + i]
    BY <2>0, <2>2, Zenon DEF IsHand
  <2>4. QED
    BY <1>5, <2>2, <2>3
<1>7. QED
  BY <1>6

\* No item is dealt twice.
LEMMA DealtDistinct ==
    ASSUME NEW S, NEW items \in Seq(S), NEW count \in Nat \ {0}, Distinct(items),
           NEW i \in 1..count, NEW j \in 1..count,
           NEW k \in 1..Len(Dealt(items, i, count)), NEW m \in 1..Len(Dealt(items, j, count)),
           Dealt(items, i, count)[k] = Dealt(items, j, count)[m]
    PROVE  i = j /\ k = m
<1>1. /\ (k - 1) * count + i \in 1..Len(items) /\ (m - 1) * count + j \in 1..Len(items)
      /\ items[(k - 1) * count + i] = items[(m - 1) * count + j]
  <2>1. IsHand(Dealt(items, i, count), items, i, count)
    BY DealtType
  <2>2. IsHand(Dealt(items, j, count), items, j, count)
    BY DealtType
  <2>3. QED
    BY <2>1, <2>2, Zenon DEF IsHand
<1>2. (k - 1) * count + i = (m - 1) * count + j
  BY <1>1 DEF Distinct
<1>3. k - 1 \in Nat /\ m - 1 \in Nat /\ i - 1 \in Nat /\ j - 1 \in Nat /\ i - 1 < count /\ j - 1 < count
  OBVIOUS
<1>4. (k - 1) * count + (i - 1) = (m - 1) * count + (j - 1)
  <2>1. (k - 1) * count \in Nat /\ (m - 1) * count \in Nat
    BY <1>3
  <2>2. QED
    BY <1>2, <2>1
<1>5. k - 1 = m - 1 /\ i - 1 = j - 1
  BY <1>3, <1>4, DivisionUnique
<1>6. QED
  BY <1>3, <1>5

\* A connection's list, symbol by symbol: the k-th entry is the b-th stream of the a-th symbol.
IsEntry(mine, per, k, a, b) ==
    /\ k = (a - 1) * Len(per) + b
    /\ Subscriptions(mine, per)[k] = [symbol |-> mine[a], stream |-> per[b]]

LEMMA SubscriptionType ==
    ASSUME NEW S, NEW mine \in Seq(S), NEW T, NEW per \in Seq(T)
    PROVE  /\ Subscriptions(mine, per) \in Seq([symbol : S, stream : T])
           /\ Len(Subscriptions(mine, per)) = Len(mine) * Len(per)
           /\ \A k \in 1..(Len(mine) * Len(per)) :
                \E a \in 1..Len(mine), b \in 1..Len(per) : IsEntry(mine, per, k, a, b)
<1>1. Len(mine) \in Nat /\ Len(per) \in Nat /\ Len(mine) * Len(per) \in Nat
  OBVIOUS
<1>2. PICK size \in Nat : size = Len(mine) * Len(per)
  BY <1>1
<1>3. PICK q : q = Subscriptions(mine, per)
  OBVIOUS
<1>4. q = [k \in 1..size |-> [symbol |-> mine[((k - 1) \div Len(per)) + 1],
                              stream |-> per[((k - 1) % Len(per)) + 1]]]
  BY <1>2, <1>3 DEF Subscriptions
<1>5. ASSUME NEW k \in 1..size
      PROVE  \E a \in 1..Len(mine), b \in 1..Len(per) :
                /\ k = (a - 1) * Len(per) + b
                /\ q[k] = [symbol |-> mine[a], stream |-> per[b]]
  <2>1. k - 1 \in Nat /\ Len(per) \in Nat \ {0}
    <3>1. Len(per) = 0 => size = 0
      BY <1>1, <1>2
    <3>2. QED
      BY <1>1, <3>1
  <2>2. PICK x \in Nat : x = (k - 1) \div Len(per)
    BY <2>1, Division
  <2>3. PICK y \in 0..(Len(per) - 1) : y = (k - 1) % Len(per)
    BY <2>1, Division
  <2>4. k - 1 = x * Len(per) + y
    BY <2>1, <2>2, <2>3, Division
  <2>5. x < Len(mine)
    <3>1. SUFFICES ASSUME Len(mine) <= x PROVE FALSE
      BY <1>1
    <3>2. PICK d \in Nat : x = Len(mine) + d
      <4>1. x - Len(mine) \in Nat /\ x = Len(mine) + (x - Len(mine))
        BY <1>1, <3>1
      <4>2. QED
        BY <4>1
    <3>3. x * Len(per) = size + d * Len(per) /\ d * Len(per) \in Nat
      BY <1>1, <1>2, <3>2
    <3>4. QED
      BY <2>4, <3>3
  <2>6. x + 1 \in 1..Len(mine) /\ y + 1 \in 1..Len(per)
    BY <1>1, <2>5
  <2>7. q[k] = [symbol |-> mine[x + 1], stream |-> per[y + 1]]
    BY <1>4, <2>2, <2>3
  <2>8. k = ((x + 1) - 1) * Len(per) + (y + 1)
    <3>1. (x + 1) - 1 = x /\ x * Len(per) \in Nat
      BY <2>1
    <3>2. QED
      BY <2>1, <2>4, <3>1
  <2>9. QED
    BY <2>6, <2>7, <2>8
<1>6. q \in Seq([symbol : S, stream : T]) /\ Len(q) = size
  <2>1. \A k \in 1..size : q[k] \in [symbol : S, stream : T]
    <3> TAKE k \in 1..size
    <3>1. PICK a \in 1..Len(mine), b \in 1..Len(per) : q[k] = [symbol |-> mine[a], stream |-> per[b]]
      BY <1>5
    <3>2. mine[a] \in S /\ per[b] \in T
      OBVIOUS
    <3>3. QED
      BY <3>1, <3>2
  <2>2. q = [k \in 1..size |-> q[k]]
    BY <1>4
  <2>3. PICK R : R = [symbol : S, stream : T]
    OBVIOUS
  <2>4. q \in [1..size -> R]
    BY <2>1, <2>2, <2>3
  <2>5. q \in Seq(R) /\ Len(q) = size
    BY <2>4
  <2>6. QED
    BY <2>3, <2>5
<1>7. ASSUME NEW k \in 1..size
      PROVE  \E a \in 1..Len(mine), b \in 1..Len(per) : IsEntry(mine, per, k, a, b)
  BY <1>3, <1>5 DEF IsEntry
<1>8. QED
  BY <1>2, <1>3, <1>6, <1>7

\* A symbol's stream is in the list of its connection.
LEMMA SubscriptionCovers ==
    ASSUME NEW S, NEW mine \in Seq(S), NEW T, NEW per \in Seq(T),
           NEW a \in 1..Len(mine), NEW b \in 1..Len(per)
    PROVE  \E k \in 1..Len(Subscriptions(mine, per)) :
              Subscriptions(mine, per)[k] = [symbol |-> mine[a], stream |-> per[b]]
<1>1. Len(mine) \in Nat /\ Len(per) \in Nat \ {0} /\ a - 1 \in Nat /\ b - 1 \in Nat /\ b - 1 < Len(per)
  OBVIOUS
<1>2. (a - 1) * Len(per) \in Nat
  BY <1>1
<1>3. PICK k \in Nat \ {0} : k = (a - 1) * Len(per) + b
  BY <1>2
<1>4. k <= Len(mine) * Len(per)
  <2>1. PICK d \in Nat : Len(mine) = a + d
    <3>1. Len(mine) - a \in Nat /\ Len(mine) = a + (Len(mine) - a)
      BY <1>1
    <3>2. QED
      BY <3>1
  <2>2. Len(mine) * Len(per) = (a - 1) * Len(per) + Len(per) + d * Len(per) /\ d * Len(per) \in Nat
    BY <1>1, <2>1
  <2>3. QED
    BY <1>1, <1>2, <1>3, <2>2
<1>5. k \in 1..(Len(mine) * Len(per)) /\ k \in 1..Len(Subscriptions(mine, per))
  <2>1. Len(mine) * Len(per) \in Nat
    BY <1>1
  <2>2. Len(Subscriptions(mine, per)) = Len(mine) * Len(per)
    BY SubscriptionType
  <2>3. QED
    BY <1>4, <2>1, <2>2
<1>p. \A x \in 1..(Len(mine) * Len(per)) :
        \E c \in 1..Len(mine), e \in 1..Len(per) : IsEntry(mine, per, x, c, e)
  BY SubscriptionType, Zenon
<1>q. PICK c \in 1..Len(mine), e \in 1..Len(per) : IsEntry(mine, per, k, c, e)
  BY <1>5, <1>p, Zenon
<1>6. /\ k = (c - 1) * Len(per) + e
      /\ Subscriptions(mine, per)[k] = [symbol |-> mine[c], stream |-> per[e]]
  BY <1>q DEF IsEntry
<1>7. c = a /\ e = b
  <2>1. c - 1 \in Nat /\ e - 1 \in Nat /\ e - 1 < Len(per)
    BY <1>1
  <2>2. (a - 1) * Len(per) + (b - 1) = (c - 1) * Len(per) + (e - 1)
    <3>1. (c - 1) * Len(per) \in Nat
      BY <1>1, <2>1
    <3>2. QED
      BY <1>2, <1>3, <1>6, <3>1
  <2>3. a - 1 = c - 1 /\ b - 1 = e - 1
    <3>1. PICK w \in Nat \ {0} : w = Len(per)
      BY <1>1
    <3>2. /\ (a - 1) * w + (b - 1) = (c - 1) * w + (e - 1)
          /\ b - 1 < w /\ e - 1 < w
      BY <1>1, <2>1, <2>2, <3>1
    <3>3. PICK p \in Nat : p = a - 1
      BY <1>1
    <3>4. PICK r \in Nat : r = b - 1
      BY <1>1
    <3>5. PICK x \in Nat : x = c - 1
      BY <2>1
    <3>6. PICK s \in Nat : s = e - 1
      BY <2>1
    <3>7. p = x /\ r = s
      BY <3>2, <3>3, <3>4, <3>5, <3>6, DivisionUnique
    <3>8. QED
      BY <3>3, <3>4, <3>5, <3>6, <3>7
  <2>4. QED
    BY <1>1, <2>1, <2>3
<1>8. QED
  BY <1>5, <1>6, <1>7

\* No entry of a connection's list occurs twice.
LEMMA SubscriptionDistinct ==
    ASSUME NEW S, NEW mine \in Seq(S), NEW T, NEW per \in Seq(T), Distinct(mine), Distinct(per)
    PROVE  Distinct(Subscriptions(mine, per))
<1>1. SUFFICES ASSUME NEW k \in 1..(Len(mine) * Len(per)), NEW m \in 1..(Len(mine) * Len(per)),
                      Subscriptions(mine, per)[k] = Subscriptions(mine, per)[m]
               PROVE  k = m
  BY SubscriptionType DEF Distinct
<1>p. \A x \in 1..(Len(mine) * Len(per)) :
        \E a \in 1..Len(mine), b \in 1..Len(per) : IsEntry(mine, per, x, a, b)
  BY SubscriptionType, Zenon
<1>2. PICK a \in 1..Len(mine), b \in 1..Len(per) : IsEntry(mine, per, k, a, b)
  BY <1>p, Zenon
<1>3. PICK c \in 1..Len(mine), e \in 1..Len(per) : IsEntry(mine, per, m, c, e)
  BY <1>p, Zenon
<1>4. mine[a] = mine[c] /\ per[b] = per[e]
  BY <1>1, <1>2, <1>3 DEF IsEntry
<1>5. a = c /\ b = e
  BY <1>4 DEF Distinct
<1>6. QED
  BY <1>2, <1>3, <1>5 DEF IsEntry

-----------------------------------------------------------------------------
(* What all connections subscribe to.                                      *)

\* The lists plan[1], ..., plan[count] hold every wanted entry, each in one place, and no other.
Once(plan, count, wanted) ==
    /\ \A i \in 1..count : \A k \in 1..Len(plan[i]) : plan[i][k] \in wanted
    /\ \A w \in wanted : \E i \in 1..count : \E k \in 1..Len(plan[i]) : plan[i][k] = w
    /\ \A i, j \in 1..count : \A k \in 1..Len(plan[i]) : \A m \in 1..Len(plan[j]) :
          plan[i][k] = plan[j][m] => i = j /\ k = m

Items(q) == {q[n] : n \in 1..Len(q)}

\* Dealing out a list without repetition.
LEMMA DealtOnce ==
    ASSUME NEW S, NEW items \in Seq(S), Distinct(items), NEW count \in Nat \ {0},
           NEW hands, hands = [i \in 1..count |-> Dealt(items, i, count)]
    PROVE  /\ \A i \in 1..count : hands[i] \in Seq(S)
           /\ Once(hands, count, Items(items))
<1>1. \A i \in 1..count : hands[i] = Dealt(items, i, count)
  OBVIOUS
<1>2. \A i \in 1..count : hands[i] \in Seq(S)
  BY <1>1, DealtType
<1>3. ASSUME NEW i \in 1..count, NEW k \in 1..Len(hands[i])
      PROVE  hands[i][k] \in Items(items)
  <2>1. hands[i] = Dealt(items, i, count)
    BY <1>1
  <2>2. IsHand(Dealt(items, i, count), items, i, count)
    BY DealtType
  <2>3. (k - 1) * count + i \in 1..Len(items) /\ hands[i][k] = items[(k - 1) * count + i]
    BY <2>1, <2>2, Zenon DEF IsHand
  <2>4. QED
    BY <2>3, Zenon DEF Items
<1>4. ASSUME NEW n \in 1..Len(items)
      PROVE  \E i \in 1..count : \E k \in 1..Len(hands[i]) : hands[i][k] = items[n]
  <2>1. PICK i \in 1..count : \E k \in 1..Len(Dealt(items, i, count)) : Dealt(items, i, count)[k] = items[n]
    BY DealtCovers
  <2>2. QED
    BY <1>1, <2>1, Zenon
<1>5. ASSUME NEW i \in 1..count, NEW j \in 1..count,
             NEW k \in 1..Len(hands[i]), NEW m \in 1..Len(hands[j]), hands[i][k] = hands[j][m]
      PROVE  i = j /\ k = m
  BY <1>1, <1>5, DealtDistinct
<1>6. Once(hands, count, Items(items))
  <2>1. \A w \in Items(items) : \E i \in 1..count : \E k \in 1..Len(hands[i]) : hands[i][k] = w
    BY <1>4 DEF Items
  <2>2. QED
    BY <1>3, <1>5, <2>1, Zenon DEF Once
<1>7. QED
  BY <1>2, <1>6

\* The all-market streams, each on one connection.
LEMMA UnboundOnce ==
    ASSUME NEW S, NEW global \in Seq(S), Distinct(global), NEW count \in Nat \ {0},
           NEW plan, plan = [i \in 1..count |-> Unbound(Dealt(global, i, count))]
    PROVE  /\ \A i \in 1..count : plan[i] \in Seq([symbol : {None}, stream : S])
           /\ Once(plan, count, [symbol : {None}, stream : Items(global)])
<1>1. PICK hands : hands = [i \in 1..count |-> Dealt(global, i, count)]
  OBVIOUS
<1>2. \A i \in 1..count : hands[i] \in Seq(S)
  BY <1>1, DealtOnce
<1>3. Once(hands, count, Items(global))
  BY <1>1, DealtOnce
<1>4. \A i \in 1..count : plan[i] = [k \in 1..Len(hands[i]) |-> [symbol |-> None, stream |-> hands[i][k]]]
  BY <1>1 DEF Unbound
<1>5. ASSUME NEW i \in 1..count
      PROVE  /\ plan[i] \in Seq([symbol : {None}, stream : S]) /\ Len(plan[i]) = Len(hands[i])
             /\ \A k \in 1..Len(hands[i]) : plan[i][k] = [symbol |-> None, stream |-> hands[i][k]]
  <2>1. PICK len \in Nat : len = Len(hands[i])
    BY <1>2
  <2>2. PICK h : h = hands[i]
    OBVIOUS
  <2>3. \A k \in 1..len : h[k] \in S
    BY <1>2, <2>1, <2>2
  <2>4. PICK R : R = [symbol : {None}, stream : S]
    OBVIOUS
  <2>5. plan[i] = [k \in 1..len |-> [symbol |-> None, stream |-> h[k]]]
    BY <1>4, <2>1, <2>2
  <2>6. \A k \in 1..len : [symbol |-> None, stream |-> h[k]] \in R
    BY <2>3, <2>4
  <2>7. plan[i] \in [1..len -> R]
    BY <2>5, <2>6
  <2>8. plan[i] \in Seq(R) /\ Len(plan[i]) = len
    BY <2>7
  <2>9. QED
    BY <2>1, <2>2, <2>4, <2>5, <2>8
<1>6. ASSUME NEW i \in 1..count, NEW k \in 1..Len(plan[i])
      PROVE  plan[i][k] \in [symbol : {None}, stream : Items(global)]
  <2>1. k \in 1..Len(hands[i])
    BY <1>5
  <2>2. hands[i][k] \in Items(global)
    BY <1>3, <2>1 DEF Once
  <2>3. plan[i][k] = [symbol |-> None, stream |-> hands[i][k]]
    BY <1>5, <2>1
  <2>4. QED
    BY <2>2, <2>3
<1>7. ASSUME NEW w \in [symbol : {None}, stream : Items(global)]
      PROVE  \E i \in 1..count : \E k \in 1..Len(plan[i]) : plan[i][k] = w
  <2>0. w.stream \in Items(global) /\ w = [symbol |-> None, stream |-> w.stream]
    OBVIOUS
  <2>1. PICK i \in 1..count : \E k \in 1..Len(hands[i]) : hands[i][k] = w.stream
    BY <1>3, <2>0 DEF Once
  <2>2. PICK k \in 1..Len(hands[i]) : hands[i][k] = w.stream
    BY <2>1
  <2>3. k \in 1..Len(plan[i]) /\ plan[i][k] = w
    BY <1>5, <2>0, <2>2
  <2>4. QED
    BY <2>3
<1>8. ASSUME NEW i \in 1..count, NEW j \in 1..count,
             NEW k \in 1..Len(plan[i]), NEW m \in 1..Len(plan[j]), plan[i][k] = plan[j][m]
      PROVE  i = j /\ k = m
  <2>1. k \in 1..Len(hands[i]) /\ m \in 1..Len(hands[j])
    BY <1>5
  <2>2. hands[i][k] = hands[j][m]
    <3>1. plan[i][k] = [symbol |-> None, stream |-> hands[i][k]]
      BY <1>5, <2>1
    <3>2. plan[j][m] = [symbol |-> None, stream |-> hands[j][m]]
      BY <1>5, <2>1
    <3>3. QED
      BY <1>8, <3>1, <3>2
  <2>3. QED
    BY <1>3, <2>1, <2>2 DEF Once
<1>9. Once(plan, count, [symbol : {None}, stream : Items(global)])
  BY <1>6, <1>7, <1>8, Zenon DEF Once
<1>10. QED
  BY <1>5, <1>9

LEMMA EntryFields ==
    \A a, b, c, d : [symbol |-> a, stream |-> b] = [symbol |-> c, stream |-> d] => a = c /\ b = d
  OBVIOUS

\* The streams of all pairs, each on the connection of its symbol.
LEMMA SubscriptionsOnce ==
    ASSUME NEW S, NEW pairs \in Seq(S), Distinct(pairs), NEW T, NEW per \in Seq(T), Distinct(per),
           NEW count \in Nat \ {0},
           NEW plan, plan = [i \in 1..count |-> Subscriptions(Dealt(pairs, i, count), per)]
    PROVE  /\ \A i \in 1..count : plan[i] \in Seq([symbol : S, stream : T])
           /\ Once(plan, count, [symbol : Items(pairs), stream : Items(per)])
<1>1. PICK hands : hands = [i \in 1..count |-> Dealt(pairs, i, count)]
  OBVIOUS
<1>2. \A i \in 1..count : hands[i] \in Seq(S)
  BY <1>1, DealtOnce
<1>3. Once(hands, count, Items(pairs))
  BY <1>1, DealtOnce
<1>4. \A i \in 1..count : plan[i] = Subscriptions(hands[i], per)
  BY <1>1
<1>5. \A i \in 1..count : plan[i] \in Seq([symbol : S, stream : T])
  BY <1>2, <1>4, SubscriptionType
<1>6. ASSUME NEW i \in 1..count, NEW k \in 1..Len(plan[i])
      PROVE  \E c \in 1..Len(hands[i]), b \in 1..Len(per) :
                plan[i][k] = [symbol |-> hands[i][c], stream |-> per[b]]
  <2>1. PICK mine \in Seq(S) : mine = hands[i]
    BY <1>2
  <2>2. /\ Len(Subscriptions(mine, per)) = Len(mine) * Len(per)
        /\ \A x \in 1..(Len(mine) * Len(per)) :
              \E c \in 1..Len(mine), b \in 1..Len(per) : IsEntry(mine, per, x, c, b)
    BY SubscriptionType, Zenon
  <2>3. plan[i] = Subscriptions(mine, per)
    BY <1>4, <2>1
  <2>4. PICK c \in 1..Len(mine), b \in 1..Len(per) : IsEntry(mine, per, k, c, b)
    BY <2>2, <2>3
  <2>5. QED
    BY <2>1, <2>3, <2>4, Zenon DEF IsEntry
<1>7. ASSUME NEW i \in 1..count, NEW k \in 1..Len(plan[i])
      PROVE  plan[i][k] \in [symbol : Items(pairs), stream : Items(per)]
  <2>1. PICK c \in 1..Len(hands[i]), b \in 1..Len(per) : plan[i][k] = [symbol |-> hands[i][c], stream |-> per[b]]
    BY <1>6
  <2>2. hands[i][c] \in Items(pairs)
    BY <1>3 DEF Once
  <2>3. per[b] \in Items(per)
    BY DEF Items
  <2>4. QED
    BY <2>1, <2>2, <2>3
<1>8. ASSUME NEW w \in [symbol : Items(pairs), stream : Items(per)]
      PROVE  \E i \in 1..count : \E k \in 1..Len(plan[i]) : plan[i][k] = w
  <2>0. /\ w.symbol \in Items(pairs) /\ w.stream \in Items(per)
        /\ w = [symbol |-> w.symbol, stream |-> w.stream]
    OBVIOUS
  <2>b. PICK b \in 1..Len(per) : w.stream = per[b]
    BY <2>0 DEF Items
  <2>1. PICK i \in 1..count : \E c \in 1..Len(hands[i]) : hands[i][c] = w.symbol
    BY <1>3, <2>0 DEF Once
  <2>2. PICK c \in 1..Len(hands[i]) : hands[i][c] = w.symbol
    BY <2>1
  <2>3. \E k \in 1..Len(plan[i]) : plan[i][k] = [symbol |-> hands[i][c], stream |-> per[b]]
    <3>1. PICK mine \in Seq(S) : mine = hands[i]
      BY <1>2
    <3>2. PICK x \in 1..Len(mine) : x = c
      BY <3>1
    <3>3. PICK k \in 1..Len(Subscriptions(mine, per)) :
             Subscriptions(mine, per)[k] = [symbol |-> mine[x], stream |-> per[b]]
      BY SubscriptionCovers
    <3>4. plan[i] = Subscriptions(mine, per)
      BY <1>4, <3>1
    <3>5. QED
      BY <3>1, <3>2, <3>3, <3>4, Zenon
  <2>4. QED
    BY <2>0, <2>b, <2>2, <2>3
<1>9. ASSUME NEW i \in 1..count, NEW j \in 1..count,
             NEW k \in 1..Len(plan[i]), NEW m \in 1..Len(plan[j]), plan[i][k] = plan[j][m]
      PROVE  i = j /\ k = m
  <2>1. PICK c \in 1..Len(hands[i]), b \in 1..Len(per) : plan[i][k] = [symbol |-> hands[i][c], stream |-> per[b]]
    BY <1>6
  <2>2. PICK e \in 1..Len(hands[j]), f \in 1..Len(per) : plan[j][m] = [symbol |-> hands[j][e], stream |-> per[f]]
    BY <1>6
  <2>x. [symbol |-> hands[i][c], stream |-> per[b]] = [symbol |-> hands[j][e], stream |-> per[f]]
    BY <1>9, <2>1, <2>2, Zenon
  <2>3. hands[i][c] = hands[j][e]
    BY <2>x, EntryFields, Zenon
  <2>4. i = j
    BY <1>3, <2>3 DEF Once
  <2>5. PICK mine \in Seq(S) : mine = hands[i]
    BY <1>2
  <2>6. Distinct(mine)
    BY <1>3, <2>5 DEF Once, Distinct
  <2>7. Distinct(Subscriptions(mine, per))
    BY <2>6, SubscriptionDistinct
  <2>8. plan[i] = Subscriptions(mine, per)
    BY <1>4, <2>5
  <2>9. QED
    BY <1>9, <2>4, <2>7, <2>8 DEF Distinct
<1>10. Once(plan, count, [symbol : Items(pairs), stream : Items(per)])
  BY <1>7, <1>8, <1>9, Zenon DEF Once
<1>11. QED
  BY <1>5, <1>10

\* A position of a concatenation is a position of one of its parts.
LEMMA JoinedPositions ==
    ASSUME NEW R, NEW u \in Seq(R), NEW v \in Seq(R)
    PROVE  /\ Len(u \o v) = Len(u) + Len(v) /\ Len(u) \in Nat /\ Len(v) \in Nat
           /\ \A k \in 1..Len(u) : (u \o v)[k] = u[k]
           /\ \A k \in 1..Len(v) : (u \o v)[Len(u) + k] = v[k]
  OBVIOUS

LEMMA TwoParts ==
    \A a, c \in Nat :
        /\ \A k \in 1..a : k \in 1..(a + c)
        /\ \A k \in 1..c : a + k \in 1..(a + c)
        /\ \A k \in 1..(a + c) : k \in 1..a \/ (k - a \in 1..c /\ k = a + (k - a))
  OBVIOUS

AreLists(plan, count, R) == \A i \in 1..count : plan[i] \in Seq(R)

IsJoined(plan, count, U, V) == plan = [i \in 1..count |-> U[i] \o V[i]]

LEMMA OnceJoined ==
    ASSUME NEW R, NEW count, NEW U, NEW V, NEW A, NEW B, A \cap B = {},
           AreLists(U, count, R), AreLists(V, count, R),
           Once(U, count, A), Once(V, count, B),
           NEW plan, IsJoined(plan, count, U, V)
    PROVE  Once(plan, count, A \cup B)
<1>1. ASSUME NEW i \in 1..count
      PROVE  /\ Len(plan[i]) = Len(U[i]) + Len(V[i]) /\ Len(U[i]) \in Nat /\ Len(V[i]) \in Nat
             /\ \A k \in 1..Len(U[i]) : plan[i][k] = U[i][k]
             /\ \A k \in 1..Len(V[i]) : plan[i][Len(U[i]) + k] = V[i][k]
  <2>1. PICK u \in Seq(R) : u = U[i]
    BY DEF AreLists
  <2>2. PICK v \in Seq(R) : v = V[i]
    BY DEF AreLists
  <2>3. plan[i] = u \o v
    BY <2>1, <2>2 DEF IsJoined
  <2>4. /\ Len(u \o v) = Len(u) + Len(v) /\ Len(u) \in Nat /\ Len(v) \in Nat
        /\ \A k \in 1..Len(u) : (u \o v)[k] = u[k]
        /\ \A k \in 1..Len(v) : (u \o v)[Len(u) + k] = v[k]
    BY JoinedPositions
  <2>5. QED
    BY <2>1, <2>2, <2>3, <2>4, Zenon
<1>2. ASSUME NEW i \in 1..count, NEW k \in 1..Len(plan[i])
      PROVE  \/ k \in 1..Len(U[i]) /\ plan[i][k] = U[i][k] /\ plan[i][k] \in A
             \/ k - Len(U[i]) \in 1..Len(V[i]) /\ plan[i][k] = V[i][k - Len(U[i])] /\ plan[i][k] \in B
  <2>1. CASE k \in 1..Len(U[i])
    BY <1>1, <2>1 DEF Once
  <2>2. CASE k \notin 1..Len(U[i])
    <3>1. PICK n \in 1..Len(V[i]) : k = Len(U[i]) + n
      <4>1. PICK a \in Nat : a = Len(U[i])
        BY <1>1
      <4>2. PICK c \in Nat : c = Len(V[i])
        BY <1>1
      <4>3. Len(plan[i]) = a + c
        BY <1>1, <4>1, <4>2
      <4>x. k \in 1..(a + c) /\ k \notin 1..a
        BY <2>2, <4>1, <4>3, Zenon
      <4>4. k - a \in 1..c /\ k = a + (k - a)
        BY <4>x, TwoParts, Zenon
      <4>5. QED
        BY <4>1, <4>2, <4>4
    <3>a. plan[i][Len(U[i]) + n] = V[i][n]
      BY <1>1
    <3>b. V[i][n] \in B
      BY DEF Once
    <3>2. plan[i][k] = V[i][n] /\ V[i][n] \in B
      BY <3>1, <3>a, <3>b
    <3>3. k - Len(U[i]) = n
      BY <1>1, <3>1
    <3>4. QED
      BY <3>2, <3>3
  <2>3. QED
    BY <2>1, <2>2
<1>3. ASSUME NEW w \in A \cup B
      PROVE  \E i \in 1..count : \E k \in 1..Len(plan[i]) : plan[i][k] = w
  <2>1. CASE w \in A
    <3>1. PICK i \in 1..count : \E k \in 1..Len(U[i]) : U[i][k] = w
      BY <2>1 DEF Once
    <3>2. PICK k \in 1..Len(U[i]) : U[i][k] = w
      BY <3>1
    <3>3. Len(plan[i]) = Len(U[i]) + Len(V[i]) /\ Len(U[i]) \in Nat /\ Len(V[i]) \in Nat
      BY <1>1
    <3>4. k \in 1..Len(plan[i])
      BY <3>3, TwoParts, Zenon
    <3>5. plan[i][k] = w
      BY <1>1, <3>2
    <3>6. QED
      BY <3>4, <3>5
  <2>2. CASE w \in B
    <3>1. PICK i \in 1..count : \E k \in 1..Len(V[i]) : V[i][k] = w
      BY <2>2 DEF Once
    <3>2. PICK k \in 1..Len(V[i]) : V[i][k] = w
      BY <3>1
    <3>3. Len(plan[i]) = Len(U[i]) + Len(V[i]) /\ Len(U[i]) \in Nat /\ Len(V[i]) \in Nat
      BY <1>1
    <3>4. Len(U[i]) + k \in 1..Len(plan[i])
      BY <3>3, TwoParts, Zenon
    <3>5. plan[i][Len(U[i]) + k] = w
      BY <1>1, <3>2
    <3>6. QED
      BY <3>4, <3>5
  <2>3. QED
    BY <2>1, <2>2
<1>4. ASSUME NEW i \in 1..count, NEW j \in 1..count,
             NEW k \in 1..Len(plan[i]), NEW m \in 1..Len(plan[j]), plan[i][k] = plan[j][m]
      PROVE  i = j /\ k = m
  <2>1. CASE plan[i][k] \in A
    <3>1. k \in 1..Len(U[i]) /\ m \in 1..Len(U[j]) /\ U[i][k] = U[j][m]
      BY <1>2, <1>4, <2>1
    <3>2. QED
      BY <3>1 DEF Once
  <2>2. CASE plan[i][k] \in B
    <3>a. plan[i][k] \notin A /\ plan[j][m] \notin A
      BY <1>4, <2>2
    <3>b. k - Len(U[i]) \in 1..Len(V[i]) /\ plan[i][k] = V[i][k - Len(U[i])]
      BY <1>2, <3>a
    <3>c. m - Len(U[j]) \in 1..Len(V[j]) /\ plan[j][m] = V[j][m - Len(U[j])]
      BY <1>2, <3>a
    <3>1. PICK x \in 1..Len(V[i]) : x = k - Len(U[i]) /\ plan[i][k] = V[i][x]
      BY <3>b
    <3>2. PICK y \in 1..Len(V[j]) : y = m - Len(U[j]) /\ plan[j][m] = V[j][y]
      BY <3>c
    <3>e. V[i][x] = V[j][y]
      BY <1>4, <3>1, <3>2
    <3>f. \A p, q \in 1..count : \A g \in 1..Len(V[p]) : \A h \in 1..Len(V[q]) :
             V[p][g] = V[q][h] => p = q /\ g = h
      BY DEF Once
    <3>3. i = j /\ x = y
      BY <3>e, <3>f
    <3>4. Len(U[i]) \in Nat /\ k \in Int /\ m \in Int
      BY <1>1
    <3>5. QED
      BY <3>1, <3>2, <3>3, <3>4
  <2>3. QED
    BY <1>2, <2>1, <2>2
<1>5. ASSUME NEW i \in 1..count, NEW k \in 1..Len(plan[i]) PROVE plan[i][k] \in A \cup B
  BY <1>2
<1>6. QED
  BY <1>3, <1>4, <1>5, Zenon DEF Once

\* What is wanted of one endpoint: its all-market streams, and its other streams for each symbol.
Wanted(pairs, all) ==
    [symbol : {None}, stream : Items(all) \cap GlobalStreams]
    \cup [symbol : Items(pairs), stream : Items(all) \ GlobalStreams]

\* The all-market streams and the others, as lists that name each stream once.
LEMMA FilteredStreams ==
    ASSUME NEW T, NEW all \in Seq(T), Distinct(all), NEW keep, NEW q, IsFilter(q, all, keep, T)
    PROVE  Items(q) = Items(all) \cap keep
<1>1. \A k \in 1..Len(q) : q[k] \in keep /\ \E i \in 1..Len(all) : q[k] = all[i]
  BY DEF IsFilter
<1>2. \A i \in 1..Len(all) : all[i] \in keep => \E k \in 1..Len(q) : q[k] = all[i]
  BY DEF IsFilter
<1>3. ASSUME NEW x \in Items(q) PROVE x \in Items(all) \cap keep
  BY <1>1 DEF Items
<1>4. ASSUME NEW x \in Items(all) \cap keep PROVE x \in Items(q)
  <2>1. PICK i \in 1..Len(all) : x = all[i]
    BY DEF Items
  <2>2. PICK k \in 1..Len(q) : q[k] = x
    BY <1>2, <2>1
  <2>3. QED
    BY <2>2 DEF Items
<1>5. QED
  BY <1>3, <1>4

\* However many connections the streams of an endpoint are spread over, every all-market stream and
\* every stream of every symbol is subscribed to on exactly one of them, once, and nothing else is
\* (shards deals both out round-robin, config.rs).
THEOREM ShardsSubscribeOnce ==
    ASSUME NEW S, None \notin S, NEW pairs \in Seq(S), Distinct(pairs),
           NEW T, NEW all \in Seq(T), Distinct(all), NEW count \in Nat \ {0}
    PROVE  Once(shards(pairs, all, count), count, Wanted(pairs, all))
<1>1. PICK global \in Seq(T) : global = Only(all, GlobalStreams) /\ IsFilter(global, all, GlobalStreams, T)
  BY OnlyFacts DEF IsFilter
<1>2. PICK per \in Seq(T) : per = Without(all, GlobalStreams) /\ IsFilter(per, all, T \ GlobalStreams, T)
  BY WithoutFacts DEF IsFilter
<1>3. Distinct(global) /\ Distinct(per)
  BY <1>1, <1>2 DEF IsFilter
<1>4. PICK U : U = [i \in 1..count |-> Unbound(Dealt(global, i, count))]
  OBVIOUS
<1>5. PICK V : V = [i \in 1..count |-> Subscriptions(Dealt(pairs, i, count), per)]
  OBVIOUS
<1>6. PICK A : A = [symbol : {None}, stream : Items(global)]
  OBVIOUS
<1>7. PICK B : B = [symbol : Items(pairs), stream : Items(per)]
  OBVIOUS
<1>8. Once(U, count, A) /\ \A i \in 1..count : U[i] \in Seq([symbol : {None}, stream : T])
  BY <1>3, <1>4, <1>6, UnboundOnce
<1>9. Once(V, count, B) /\ \A i \in 1..count : V[i] \in Seq([symbol : S, stream : T])
  BY <1>3, <1>5, <1>7, SubscriptionsOnce
<1>10. PICK R : R = [symbol : S \cup {None}, stream : T]
  OBVIOUS
<1>11. AreLists(U, count, R) /\ AreLists(V, count, R)
  <2>1. PICK G : G = [symbol : {None}, stream : T]
    OBVIOUS
  <2>2. PICK P : P = [symbol : S, stream : T]
    OBVIOUS
  <2>3. G \subseteq R /\ P \subseteq R
    BY <1>10, <2>1, <2>2
  <2>4. \A i \in 1..count : U[i] \in Seq(G) /\ V[i] \in Seq(P)
    BY <1>8, <1>9, <2>1, <2>2
  <2>5. \A q : (q \in Seq(G) => q \in Seq(R)) /\ (q \in Seq(P) => q \in Seq(R))
    BY <2>3
  <2>6. QED
    BY <2>4, <2>5, Zenon DEF AreLists
<1>12. A \cap B = {}
  <2>1. \A x \in Items(pairs) : x \in S
    BY DEF Items
  <2>2. \A w \in A : w.symbol = None
    BY <1>6
  <2>3. \A w \in B : w.symbol \in S
    BY <1>7, <2>1
  <2>4. QED
    BY <2>2, <2>3
<1>13. shards(pairs, all, count) = [i \in 1..count |-> U[i] \o V[i]]
  BY <1>1, <1>2, <1>4, <1>5 DEF shards
<1>14. Once(shards(pairs, all, count), count, A \cup B)
  <2>1. Once(U, count, A) /\ Once(V, count, B)
    BY <1>8, <1>9
  <2>2. PICK plan : IsJoined(plan, count, U, V)
    BY DEF IsJoined
  <2>3. Once(plan, count, A \cup B)
    BY <1>11, <1>12, <2>1, <2>2, OnceJoined, Zenon
  <2>4. QED
    BY <1>13, <2>2, <2>3 DEF IsJoined
<1>15. A \cup B = Wanted(pairs, all)
  <2>0. Items(all) \subseteq T
    <3>1. \A n \in 1..Len(all) : all[n] \in T
      OBVIOUS
    <3>2. QED
      BY <3>1 DEF Items
  <2>1. PICK X : X = Items(all) /\ X \subseteq T
    BY <2>0
  <2>2. Items(global) = X \cap GlobalStreams
    BY <1>1, <2>1, FilteredStreams
  <2>3. Items(per) = X \cap (T \ GlobalStreams)
    BY <1>2, <2>1, FilteredStreams
  <2>4. X \cap (T \ GlobalStreams) = X \ GlobalStreams
    BY <2>1
  <2>5. A = [symbol : {None}, stream : X \cap GlobalStreams]
    BY <1>6, <2>2
  <2>6. B = [symbol : Items(pairs), stream : X \ GlobalStreams]
    BY <1>7, <2>3, <2>4
  <2>7. QED
    BY <2>1, <2>5, <2>6 DEF Wanted
<1>16. QED
  BY <1>14, <1>15

-----------------------------------------------------------------------------
(* The settings.                                                           *)

LEMMA AscendingNonEmpty ==
    ASSUME NEW set, IsFiniteSet(set), set # {}
    PROVE  Ascending(set) # <<>>
<1>1. Cardinality(set) \in Nat /\ Cardinality(set) # 0
  BY FS_CardinalityType, FS_EmptySet
<1>2. DOMAIN Ascending(set) = 1..Cardinality(set)
  BY DEF Ascending
<1>3. 1 \in DOMAIN Ascending(set)
  BY <1>1, <1>2
<1>4. QED
  BY <1>3

LEMMA MinOfTwo ==
    ASSUME NEW a \in Nat, NEW b \in Nat
    PROVE  Min({a, b}) \in {a, b} /\ Min({a, b}) <= a /\ Min({a, b}) <= b
<1>1. \E x \in {a, b} : \A y \in {a, b} : x <= y
  OBVIOUS
<1>2. QED
  BY <1>1 DEF Min

LEMMA MaxOfTwo ==
    ASSUME NEW a \in Nat, NEW b \in Nat
    PROVE  Max({a, b}) \in {a, b} /\ Max({a, b}) >= a /\ Max({a, b}) >= b
<1>1. \E x \in {a, b} : \A y \in {a, b} : x >= y
  OBVIOUS
<1>2. QED
  BY <1>1 DEF Max

LEMMA ClampFacts ==
    ASSUME NEW x \in Nat, NEW low \in Nat, NEW high \in Nat
    PROVE  clamp(x, low, high) \in Nat /\ clamp(x, low, high) >= low
<1>1. Min({x, high}) \in Nat
  BY MinOfTwo
<1>2. QED
  BY <1>1, MaxOfTwo DEF clamp

-----------------------------------------------------------------------------
(* Sizes and options.                                                      *)

LEMMA SettingTypes ==
    ASSUME NEW c \in Settings
    PROVE  /\ c.buffer_mb \in Nat /\ c.segment_mb \in Nat /\ c.all_markets \in BOOLEAN
           /\ c.physical_mb \in {None} \cup Nat /\ c.cgroup_mb \in {None} \cup Nat
           /\ c.queue_capacity \in Nat /\ c.parquet_queue_capacity \in Nat
           /\ c.min_retention_hours \in Nat /\ c.max_retention_hours \in Nat
           /\ c.snapshot_interval_seconds \in Nat /\ c.snapshot_concurrency \in Nat
           /\ c.symbols \in Seq({ALL} \cup Nat) /\ c.streams \in {None} \cup Seq(STRING)
           /\ c.market \in Range(Markets)
  BY SettingsAssumption

\* The sizes buffer_sizes chooses are not zero, and those it chooses itself fit.
LEMMA SizesFit ==
    ASSUME NEW c \in Settings
    PROVE  /\ buffer_mb(c) \in Nat \ {0} /\ segment_mb(c) \in Nat \ {0}
           /\ ~buffer_sizes_ok(c) => c.segment_mb > 0
<1>1. /\ c.buffer_mb \in Nat /\ c.segment_mb \in Nat /\ c.all_markets \in BOOLEAN
      /\ c.physical_mb \in {None} \cup Nat /\ c.cgroup_mb \in {None} \cup Nat
  BY SettingTypes
<1>2. memory_limit(c) \in Nat
  <2>1. c.physical_mb # None /\ c.cgroup_mb # None => Min({c.physical_mb, c.cgroup_mb}) \in Nat
    BY <1>1, MinOfTwo
  <2>2. QED
    BY <1>1, <2>1 DEF memory_limit
<1>3. PICK part \in Nat : part = ((memory_limit(c) * 30) \div 100) \div (IF c.all_markets THEN 3 ELSE 1)
  <2>1. (memory_limit(c) * 30) \div 100 \in Nat
    BY <1>2
  <2>2. PICK m \in Nat : m = (memory_limit(c) * 30) \div 100
    BY <2>1
  <2>3. m \div 3 \in Nat /\ m \div 1 \in Nat
    OBVIOUS
  <2>4. QED
    BY <2>2, <2>3
<1>4. buffer_mb(c) \in Nat \ {0}
  <2>1. clamp(part, 32, 256) \in Nat /\ clamp(part, 32, 256) >= 32
    BY ClampFacts
  <2>2. QED
    BY <1>1, <1>3, <2>1 DEF buffer_mb
<1>5. PICK half \in Nat : half = clamp(buffer_mb(c) \div 2, 16, 64) /\ half >= 16
  <2>1. buffer_mb(c) \div 2 \in Nat
    BY <1>4
  <2>2. QED
    BY <2>1, ClampFacts
<1>6. Min({half, buffer_mb(c)}) \in {half, buffer_mb(c)} /\ Min({half, buffer_mb(c)}) <= buffer_mb(c)
  BY <1>4, <1>5, MinOfTwo
<1>7. segment_mb(c) = IF c.segment_mb # 0 THEN c.segment_mb ELSE Min({half, buffer_mb(c)})
  BY <1>5 DEF segment_mb
<1>8. QED
  BY <1>1, <1>4, <1>5, <1>6, <1>7 DEF buffer_sizes_ok

\* The datasets differ from the options in their market only.
LEMMA ConfigFacts ==
    ASSUME settings \in Settings
    PROVE  /\ Len(dataset_configs(settings)) \in Nat \ {0}
           /\ \A i \in 1..Len(dataset_configs(settings)) :
                LET c == dataset_configs(settings)[i] IN
                /\ c.market \in Range(Markets)
                /\ c.exchange = settings.exchange /\ c.symbols = settings.symbols /\ c.streams = settings.streams
                /\ c.queue_capacity = settings.queue_capacity
                /\ c.parquet_queue_capacity = settings.parquet_queue_capacity
                /\ c.buffer_mb = settings.buffer_mb /\ c.segment_mb = settings.segment_mb
                /\ c.min_retention_hours = settings.min_retention_hours
                /\ c.max_retention_hours = settings.max_retention_hours
                /\ c.min_free_disk_percent = settings.min_free_disk_percent
                /\ c.snapshot_interval_seconds = settings.snapshot_interval_seconds
                /\ c.snapshot_depth_limit = settings.snapshot_depth_limit
                /\ c.snapshot_concurrency = settings.snapshot_concurrency
<1>1. PICK markets : markets = IF settings.all_markets THEN Markets ELSE <<settings.market>>
  OBVIOUS
<1>2. /\ DOMAIN markets \in {1..1, 1..3} /\ \A i \in DOMAIN markets : markets[i] \in Range(Markets)
  <2>1. settings.market \in Range(Markets)
    BY SettingTypes
  <2>2. DOMAIN Markets = 1..3 /\ \A i \in 1..3 : Markets[i] \in Range(Markets)
    BY DEF Markets, Range
  <2>3. QED
    BY <1>1, <2>1, <2>2
<1>3. dataset_configs(settings) =
        [i \in DOMAIN markets |-> [settings EXCEPT !.market = markets[i], !.all_markets = FALSE]]
  BY <1>1 DEF dataset_configs
<1>4. PICK n \in {1, 3} : DOMAIN markets = 1..n
  BY <1>2
<1>5. Len(dataset_configs(settings)) = n
  <2>1. dataset_configs(settings) =
          [i \in 1..n |-> [settings EXCEPT !.market = markets[i], !.all_markets = FALSE]]
    BY <1>3, <1>4
  <2>2. PICK g : g = dataset_configs(settings)
    OBVIOUS
  <2>3. DOMAIN g = 1..n /\ g = [i \in 1..n |-> g[i]] /\ n \in Nat
    <3>1. DOMAIN g = 1..n
      BY <2>1, <2>2, Zenon
    <3>2. g = [i \in 1..n |-> g[i]]
      BY <2>1, <2>2, Zenon
    <3>3. QED
      BY <3>1, <3>2
  <2>4. PICK S : S = {g[i] : i \in 1..n}
    OBVIOUS
  <2>5. g \in [1..n -> S]
    BY <2>3, <2>4
  <2>6. g \in Seq(S) /\ Len(g) = n
    BY <2>3, <2>5
  <2>7. QED
    BY <2>2, <2>6
<1>6. \A i \in 1..n :
        /\ dataset_configs(settings)[i] = [settings EXCEPT !.market = markets[i], !.all_markets = FALSE]
        /\ markets[i] \in Range(Markets)
  BY <1>2, <1>3, <1>4
<1>7. ASSUME NEW i \in 1..n, NEW c, c = dataset_configs(settings)[i]
      PROVE  /\ c.market \in Range(Markets)
             /\ c.exchange = settings.exchange /\ c.symbols = settings.symbols /\ c.streams = settings.streams
             /\ c.queue_capacity = settings.queue_capacity
             /\ c.parquet_queue_capacity = settings.parquet_queue_capacity
             /\ c.buffer_mb = settings.buffer_mb /\ c.segment_mb = settings.segment_mb
             /\ c.min_retention_hours = settings.min_retention_hours
             /\ c.max_retention_hours = settings.max_retention_hours
             /\ c.min_free_disk_percent = settings.min_free_disk_percent
             /\ c.snapshot_interval_seconds = settings.snapshot_interval_seconds
             /\ c.snapshot_depth_limit = settings.snapshot_depth_limit
             /\ c.snapshot_concurrency = settings.snapshot_concurrency
  <2>1. c = [settings EXCEPT !.market = markets[i], !.all_markets = FALSE] /\ markets[i] \in Range(Markets)
    BY <1>6, <1>7
  <2>2. QED
    BY <2>1, SettingsAssumption
<1>8. QED
  BY <1>5, <1>7

-----------------------------------------------------------------------------
(* What main has checked so far.                                           *)

\* What validate asks of the options whatever the market: once the first dataset has passed
\* it, so will the others.
Accepted(c) ==
    /\ c.exchange = "binance"
    /\ csv(c.symbols) # <<>> /\ (c.streams # None => csv(c.streams) # <<>>)
    /\ c.queue_capacity > 0 /\ c.parquet_queue_capacity > 0
    /\ c.buffer_mb > 0 => c.segment_mb <= c.buffer_mb
    /\ c.min_retention_hours > 0 /\ c.max_retention_hours >= c.min_retention_hours
    /\ c.min_free_disk_percent <= 100
    /\ c.snapshot_interval_seconds > 0
    /\ c.snapshot_depth_limit \in {5, 10, 20, 50, 100, 500, 1000, 5000}
    /\ c.snapshot_concurrency > 0

Nothing == datasets = <<>> /\ connections = <<>>

MainInv ==
    /\ settings \in Settings /\ at \in Nat \ {0}
    /\ pc \in {"resolve", "sleep", "start"} => at <= Len(dataset_configs(settings))
    /\ pc \in {"sizes", "writer"} => Nothing /\ at = 1
    /\ datasets = <<>> => connections = <<>>
    /\ pc \in {"writer", "resolve", "sleep", "start", "bind", "up"} \/ datasets # <<>> =>
         buffer_sizes_ok(settings)
    /\ datasets # <<>> => Accepted(settings)
    /\ pc = "start" => \/ csv(settings.symbols) = <<ALL>> /\ symbols # <<>>
                       \/ symbols = csv(settings.symbols)
    /\ cause \in {"sizes", "settings"} => pc = "failed" /\ Nothing
    /\ cause = "sizes" => settings.segment_mb > 0

\* The streams of a dataset are empty only if the option names none.
LEMMA StreamsNonEmpty ==
    ASSUME settings \in Settings, NEW i \in 1..Len(dataset_configs(settings))
    PROVE  streams(dataset_configs(settings)[i]) = <<>> <=>
               settings.streams # None /\ csv(settings.streams) = <<>>
<1>1. PICK c : c = dataset_configs(settings)[i]
  OBVIOUS
<1>2. c.streams = settings.streams
  BY <1>1, ConfigFacts
<1>3. /\ csv(DEFAULT_STREAMS) # <<>> /\ csv(DEFAULT_USDM_STREAMS) # <<>> /\ csv(DEFAULT_COINM_STREAMS) # <<>>
  <2>1. (\E S : DEFAULT_STREAMS \in Seq(S)) /\ DEFAULT_STREAMS # <<>>
    <3>1. DEFAULT_STREAMS \in Seq(
            {"depth@100ms", "aggTrade", "trade", "kline_1s", "!miniTicker@arr", 
            "ticker", "!ticker_1h@arr", "!ticker_4h@arr", "!ticker_1d@arr", 
            "bookTicker", "avgPrice"})
      BY DEF DEFAULT_STREAMS
    <3>2. DEFAULT_STREAMS # <<>>
      BY DEF DEFAULT_STREAMS
    <3>3. QED
      BY <3>1, <3>2
  <2>2. (\E S : DEFAULT_USDM_STREAMS \in Seq(S)) /\ DEFAULT_USDM_STREAMS # <<>>
    <3>1. DEFAULT_USDM_STREAMS \in Seq(
            {"depth@100ms", "aggTrade", "kline_1m", "!miniTicker@arr", 
            "!ticker@arr", "!bookTicker", "!markPrice@arr@1s", "!forceOrder@arr"})
      BY DEF DEFAULT_USDM_STREAMS
    <3>2. DEFAULT_USDM_STREAMS # <<>>
      BY DEF DEFAULT_USDM_STREAMS
    <3>3. QED
      BY <3>1, <3>2
  <2>3. (\E S : DEFAULT_COINM_STREAMS \in Seq(S)) /\ DEFAULT_COINM_STREAMS # <<>>
    <3>1. DEFAULT_COINM_STREAMS \in Seq(
            {"depth@100ms", "aggTrade", "kline_1m"})
      BY DEF DEFAULT_COINM_STREAMS
    <3>2. DEFAULT_COINM_STREAMS # <<>>
      BY DEF DEFAULT_COINM_STREAMS
    <3>3. QED
      BY <3>1, <3>2
  <2>4. QED
    BY <2>1, <2>2, <2>3, CsvFacts
<1>4. CASE settings.streams # None
  BY <1>1, <1>2, <1>4 DEF streams
<1>5. CASE settings.streams = None
  BY <1>1, <1>2, <1>3, <1>5 DEF streams
<1>6. QED
  BY <1>4, <1>5

\* The first dataset that passes validate shows that the options are accepted, and accepted
\* options pass it for every other dataset.
LEMMA ValidateFacts ==
    ASSUME MainInv, pc = "start"
    PROVE  validate(config, symbols) <=> Accepted(settings)
<1>1. settings \in Settings /\ at \in 1..Len(dataset_configs(settings))
  BY ConfigFacts DEF MainInv
<1>2. config = dataset_configs(settings)[at]
  BY DEF config
<1>3. /\ config.exchange = settings.exchange
      /\ config.queue_capacity = settings.queue_capacity
      /\ config.parquet_queue_capacity = settings.parquet_queue_capacity
      /\ config.buffer_mb = settings.buffer_mb /\ config.segment_mb = settings.segment_mb
      /\ config.min_retention_hours = settings.min_retention_hours
      /\ config.max_retention_hours = settings.max_retention_hours
      /\ config.min_free_disk_percent = settings.min_free_disk_percent
      /\ config.snapshot_interval_seconds = settings.snapshot_interval_seconds
      /\ config.snapshot_depth_limit = settings.snapshot_depth_limit
      /\ config.snapshot_concurrency = settings.snapshot_concurrency
  BY <1>1, <1>2, ConfigFacts
<1>4. streams(config) # <<>> <=> (settings.streams # None => csv(settings.streams) # <<>>)
  BY <1>1, <1>2, StreamsNonEmpty
<1>5. symbols # <<>> <=> csv(settings.symbols) # <<>>
  BY DEF MainInv
<1>6. QED
  BY <1>3, <1>4, <1>5 DEF validate, Accepted

\* What is traded, of a finite answer, is finite.
LEMMA TradedFinite ==
    ASSUME MainInv, pc = "resolve", NEW listing \in Listings[config.market]
    PROVE  IsFiniteSet(Traded(listing))
<1>1. config.market \in Range(Markets)
  BY ConfigFacts DEF MainInv, config
<1>2. IsFiniteSet(listing)
  BY <1>1, ListingsAssumption
<1>3. PICK some : some = {i \in listing : i.status = "TRADING" /\ (config.market = "spot" => i.spot)}
  OBVIOUS
<1>4. IsFiniteSet(some)
  BY <1>2, <1>3, FS_Subset
<1>5. Traded(listing) = {item.symbol : item \in some}
  BY <1>3 DEF Traded
<1>6. [item \in some |-> item.symbol] \in Surjection(some, Traded(listing))
  BY <1>5 DEF Surjection
<1>7. QED
  BY <1>4, <1>6, FS_Surjection

LEMMA MainInit == Init => MainInv
<1> SUFFICES ASSUME Init PROVE MainInv
  OBVIOUS
<1>1. cause \notin {"sizes", "settings"}
  BY ServiceAssumption DEF Init
<1>2. QED
  BY <1>1 DEF Init, MainInv, Nothing

\* Before the first dataset.
LEMMA MainStart ==
    ASSUME MainInv, BufferSizes \/ StartWriter \/ StartWriterFails
    PROVE  MainInv'
<1>1. /\ settings' = settings /\ at' = at /\ symbols' = symbols
      /\ datasets' = datasets /\ connections' = connections /\ pc \in {"sizes", "writer"}
  BY DEF BufferSizes, StartWriter, StartWriterFails
<1>2. /\ settings \in Settings /\ at = 1 /\ Nothing
      /\ cause \notin {"sizes", "settings"}
  BY <1>1 DEF MainInv
<1>3. Nothing'
  BY <1>1, <1>2 DEF Nothing
<1>4. CASE BufferSizes
  <2>1. CASE buffer_sizes_ok(settings)
    <3>1. pc' = "writer" /\ cause' = cause
      BY <1>4, <2>1 DEF BufferSizes, Goto
    <3>2. QED
      BY <1>1, <1>2, <1>3, <2>1, <3>1 DEF MainInv, Nothing
  <2>2. CASE ~buffer_sizes_ok(settings)
    <3>1. pc' = "failed" /\ cause' = "sizes"
      BY <1>4, <2>2 DEF BufferSizes, Fail
    <3>2. settings.segment_mb > 0
      BY <1>2, <2>2, SizesFit
    <3>3. QED
      BY <1>1, <1>2, <1>3, <3>1, <3>2 DEF MainInv, Nothing
  <2>3. QED
    BY <2>1, <2>2
<1>5. CASE StartWriter \/ StartWriterFails
  <2>1. buffer_sizes_ok(settings)
    BY <1>5 DEF MainInv, StartWriter, StartWriterFails
  <2>2. 1 <= Len(dataset_configs(settings))
    BY <1>2, ConfigFacts
  <2>3. (pc' = "resolve" /\ cause' = cause) \/ (pc' = "failed" /\ cause' \in {"settings", "system"})
    BY <1>5 DEF StartWriter, StartWriterFails, Goto, Fail
  <2>4. QED
    BY <1>1, <1>2, <1>3, <2>1, <2>2, <2>3 DEF MainInv, Nothing
<1>6. QED
  BY <1>4, <1>5

\* The symbols of a dataset.
LEMMA MainResolve ==
    ASSUME MainInv, Resolve \/ FetchAnswered \/ FetchFailed \/ Sleep
    PROVE  MainInv'
<1>1. /\ settings' = settings /\ at' = at /\ datasets' = datasets /\ connections' = connections
      /\ pc \in {"resolve", "sleep"}
  BY DEF Resolve, FetchAnswered, FetchFailed, Sleep
<1>2. /\ settings \in Settings /\ at \in Nat \ {0} /\ at <= Len(dataset_configs(settings))
      /\ (datasets = <<>> => connections = <<>>) /\ buffer_sizes_ok(settings)
      /\ (datasets # <<>> => Accepted(settings)) /\ cause \notin {"sizes", "settings"}
  BY <1>1 DEF MainInv
<1>3. config.symbols = settings.symbols
  BY <1>2, ConfigFacts DEF config
<1>4. CASE Resolve
  <2>1. symbols' = csv(settings.symbols) /\ pc' = "start" /\ cause' = cause
    BY <1>3, <1>4 DEF Resolve, Goto
  <2>2. QED
    BY <1>1, <1>2, <2>1 DEF MainInv
<1>5. CASE FetchAnswered
  <2>1. PICK listing \in Listings[config.market] :
          /\ symbols' = Ascending(Traded(listing))
          /\ IF Traded(listing) = {} THEN NothingTraded ELSE Goto("start")
    BY <1>5 DEF FetchAnswered
  <2>2. csv(settings.symbols) = <<ALL>> /\ pc = "resolve"
    BY <1>3, <1>5 DEF FetchAnswered
  <2>3. CASE Traded(listing) = {}
    <3>1. pc' = "failed" /\ cause' = "symbols"
      BY <2>1, <2>3 DEF NothingTraded, Fail
    <3>2. QED
      BY <1>1, <1>2, <3>1 DEF MainInv
  <2>4. CASE Traded(listing) # {}
    <3>1. pc' = "start" /\ cause' = cause
      BY <2>1, <2>4 DEF Goto
    <3>2. symbols' # <<>>
      BY <2>1, <2>2, <2>4, TradedFinite, AscendingNonEmpty
    <3>3. QED
      BY <1>1, <1>2, <2>2, <3>1, <3>2 DEF MainInv
  <2>5. QED
    BY <2>3, <2>4
<1>6. CASE FetchFailed \/ Sleep
  <2>1. pc' \in {"sleep", "resolve"} /\ cause' = cause
    BY <1>6 DEF FetchFailed, Sleep, Goto
  <2>2. QED
    BY <1>1, <1>2, <2>1 DEF MainInv
<1>7. QED
  BY <1>4, <1>5, <1>6

\* A dataset is started, or its options are refused.
LEMMA MainDataset == ASSUME MainInv, StartDataset \/ StartRejected PROVE MainInv'
<1>1. settings' = settings /\ pc = "start"
  BY DEF StartDataset, StartRejected
<1>2. /\ settings \in Settings /\ at \in Nat \ {0} /\ at <= Len(dataset_configs(settings))
      /\ (datasets = <<>> => connections = <<>>) /\ buffer_sizes_ok(settings)
      /\ (datasets # <<>> => Accepted(settings)) /\ cause \notin {"sizes", "settings"}
  BY <1>1 DEF MainInv
<1>3. validate(config, symbols) <=> Accepted(settings)
  BY <1>1, ValidateFacts
<1>4. CASE StartDataset
  <2>1. /\ datasets' = Append(datasets, [market |-> config.market, symbols |-> symbols, tasks |-> Tasks])
        /\ at' = at + 1 /\ cause' = cause /\ validate(config, symbols)
        /\ pc' = IF at = Len(dataset_configs(settings)) THEN "bind" ELSE "resolve"
    BY <1>4 DEF StartDataset, Goto
  <2>2. datasets' # <<>>
    BY <2>1
  <2>3. Len(dataset_configs(settings)) \in Nat
    BY <1>2, ConfigFacts
  <2>4. pc' \in {"bind", "resolve"} /\ at' \in Nat \ {0} /\ (pc' = "resolve" => at' <= Len(dataset_configs(settings)))
    BY <1>2, <2>1, <2>3
  <2>5. QED
    BY <1>1, <1>2, <1>3, <2>1, <2>2, <2>4 DEF MainInv
<1>5. CASE StartRejected
  <2>1. /\ datasets' = datasets /\ connections' = connections /\ at' = at /\ ~validate(config, symbols)
        /\ pc' = "failed" /\ cause' = "settings"
    BY <1>5 DEF StartRejected, Fail
  <2>2. Nothing /\ Nothing'
    BY <1>2, <1>3, <2>1 DEF Nothing
  <2>3. QED
    BY <1>1, <1>2, <2>1, <2>2 DEF MainInv, Nothing
<1>6. QED
  BY <1>4, <1>5

\* What happens beside main changes nothing that it has decided.
LEMMA MainOther == ASSUME MainInv, Bind \/ Stop \/ Deliver \/ Poll \/ HandOver \/ UNCHANGED vars PROVE MainInv'
<1>1. CASE Deliver \/ Poll \/ HandOver \/ UNCHANGED vars
  <2>1. UNCHANGED <<main, datasets, connections>>
    BY <1>1 DEF Deliver, Poll, HandOver, vars
  <2>2. QED
    BY <2>1 DEF main, MainInv, Nothing
<1>2. CASE Bind
  <2>1. UNCHANGED <<settings, at, delay, symbols, datasets, connections>> /\ pc = "bind"
    BY <1>2 DEF Bind
  <2>2. (pc' = "up" /\ cause' = cause) \/ (pc' = "failed" /\ cause' = "system")
    BY <1>2 DEF Bind, Goto, Fail
  <2>3. QED
    BY <2>1, <2>2 DEF MainInv, Nothing
<1>3. CASE Stop
  <2>1. UNCHANGED <<settings, at, delay, symbols, datasets, connections>> /\ pc # "failed"
    BY <1>3 DEF Stop, Ended
  <2>2. pc' = "stopped" /\ cause' = cause
    BY <1>3 DEF Stop, Goto
  <2>3. QED
    BY <2>1, <2>2 DEF MainInv, Nothing
<1>4. QED
  BY <1>1, <1>2, <1>3

LEMMA MainAlways == Spec => []MainInv
<1>1. MainInv /\ [Next]_vars => MainInv'
  BY MainStart, MainResolve, MainDataset, MainOther DEF Next, Main, MainAlone
<1>2. QED
  BY <1>1, MainInit, PTL DEF Spec

\* Options that buffer_sizes, Writer::start or validate refuse are refused before a connection
\* is opened or a dataset started, in whichever dataset they are looked at and whatever the
\* exchange answers: validate has the same verdict for every market.
THEOREM RefusedBeforeCollecting == Spec => []RejectedBeforeCollecting
<1>1. MainInv => RejectedBeforeCollecting
  BY DEF MainInv, Nothing, RejectedBeforeCollecting
<1>2. QED
  BY <1>1, MainAlways, PTL

\* Once a dataset is started, the options satisfy what the writer, the archiver and the
\* scheduler assume of them, and sizes that buffer_sizes chose itself are never refused, for
\* every size of memory.
THEOREM AcceptedSettingsUsable == Spec => []SettingsUsable
<1>1. MainInv => SettingsUsable
  <2> SUFFICES ASSUME MainInv PROVE SettingsUsable
    OBVIOUS
  <2>1. settings \in Settings
    BY DEF MainInv
  <2>2. ASSUME datasets # <<>>
        PROVE  0 < segment_mb(settings) /\ segment_mb(settings) <= buffer_mb(settings)
    <3>1. segment_mb(settings) \in Nat \ {0}
      BY <2>1, SizesFit
    <3>2. QED
      BY <2>2, <3>1 DEF MainInv, buffer_sizes_ok
  <2>3. ASSUME datasets # <<>>
        PROVE  /\ settings.queue_capacity > 0 /\ settings.parquet_queue_capacity > 0
               /\ 0 < settings.min_retention_hours
               /\ settings.min_retention_hours <= settings.max_retention_hours
               /\ settings.snapshot_interval_seconds > 0 /\ settings.snapshot_concurrency > 0
    <3>1. Accepted(settings)
      BY <2>3 DEF MainInv
    <3>2. settings.min_retention_hours \in Nat /\ settings.max_retention_hours \in Nat
      BY <2>1, SettingTypes
    <3>3. QED
      BY <3>1, <3>2 DEF Accepted
  <2>4. cause = "sizes" => settings.segment_mb > 0
    BY DEF MainInv
  <2>5. QED
    BY <2>2, <2>3, <2>4 DEF SettingsUsable
<1>2. QED
  BY <1>1, MainAlways, PTL

-----------------------------------------------------------------------------
(* How many connections.                                                   *)

\* Rounded up: enough for all.
LEMMA RoundedUp ==
    ASSUME NEW a \in Nat, NEW b \in Nat \ {0}
    PROVE  div_ceil(a, b) \in Nat /\ a <= div_ceil(a, b) * b
<1>1. PICK s \in Nat : s = a + b - 1
  <2>1. a + b - 1 \in Nat
    OBVIOUS
  <2>2. QED
    BY <2>1
<1>2. /\ s \div b \in Nat /\ (s % b) \in 0..(b - 1) /\ s = (s \div b) * b + (s % b)
  BY Division
<1>3. div_ceil(a, b) = s \div b
  BY <1>1 DEF div_ceil
<1>4. PICK q \in Nat : q = s \div b
  BY <1>2
<1>5. PICK r \in 0..(b - 1) : r = s % b
  BY <1>2
<1>6. q * b \in Nat /\ a + b - 1 = q * b + r
  BY <1>1, <1>2, <1>4, <1>5
<1>7. a <= q * b
  BY <1>6
<1>8. QED
  BY <1>3, <1>4, <1>7

\* As many as there are symbols, or enough for all streams.
IsEnough(count, n, load, limit) == count = n \/ load <= count * limit

LEMMA EnoughMore ==
    ASSUME NEW n \in Nat, NEW load \in Nat, NEW limit \in Nat, NEW a \in Nat, NEW b \in 0..n, a <= b,
           IsEnough(a, n, load, limit)
    PROVE  IsEnough(b, n, load, limit)
<1>1. CASE a = n
  BY <1>1 DEF IsEnough
<1>2. CASE load <= a * limit
  <2>1. PICK d \in Nat : b = a + d
    <3>1. b - a \in Nat /\ b = a + (b - a)
      OBVIOUS
    <3>2. QED
      BY <3>1
  <2>2. b * limit = a * limit + d * limit /\ d * limit \in Nat /\ a * limit \in Nat
    BY <2>1
  <2>3. QED
    BY <1>2, <2>2 DEF IsEnough
<1>3. QED
  BY <1>1, <1>2 DEF IsEnough

\* What all symbols subscribe to at an endpoint.
Load(n, group) == n * PerSymbol(group) + Globals(group)

\* The names of streams and endpoints: what the options may hold, and those of the code.
Texts ==
    STRING \cup {"custom", "public", "market"}
           \cup {"depth@100ms", "aggTrade", "trade", "kline_1s", "kline_1m", "ticker", "bookTicker", "avgPrice",
                 "!miniTicker@arr", "!ticker@arr", "!ticker_1h@arr", "!ticker_4h@arr", "!ticker_1d@arr",
                 "!bookTicker", "!markPrice@arr@1s", "!forceOrder@arr"}

Groups == [name : Texts, streams : Seq(Texts)]

LEMMA GroupNumbers ==
    ASSUME NEW c, NEW group \in Groups, Distinct(group.streams)
    PROVE  /\ PerSymbol(group) \in Nat /\ Globals(group) \in Nat
           /\ stream_limit(c, group) \in Nat \ {0}
<1>1. PICK all \in Seq(Texts) : all = group.streams
  BY DEF Groups
<1>2. IsFilter(Only(all, GlobalStreams), all, GlobalStreams, Texts)
  BY <1>1, OnlyFacts
<1>3. IsFilter(Without(all, GlobalStreams), all, Texts \ GlobalStreams, Texts)
  BY <1>1, WithoutFacts
<1>4. PerSymbol(group) \in Nat
  BY <1>1, <1>3 DEF PerSymbol, IsFilter
<1>5. Globals(group) \in Nat
  BY <1>1, <1>2 DEF Globals, IsFilter
<1>6. QED
  BY <1>4, <1>5, StreamLimitAssumption DEF stream_limit

LEMMA RequiredFacts ==
    ASSUME NEW c, c.exchange = "binance", NEW n \in Nat \ {0}, NEW group \in Groups, Distinct(group.streams)
    PROVE  /\ required_connection_count(c, n, group) \in 1..n
           /\ IsEnough(required_connection_count(c, n, group), n, Load(n, group), stream_limit(c, group))
<1>1. PICK p \in Nat : p = PerSymbol(group)
  BY GroupNumbers
<1>2. PICK g \in Nat : g = Globals(group)
  BY GroupNumbers
<1>3. PICK limit \in Nat \ {0} : limit = stream_limit(c, group)
  BY GroupNumbers
<1>4. PICK load \in Nat : load = n * p + g
  <2>1. n * p + g \in Nat
    OBVIOUS
  <2>2. QED
    BY <2>1
<1>5. PICK w \in Nat : w = div_ceil(load, limit) /\ load <= w * limit
  BY RoundedUp
<1>6. PICK x \in Nat \ {0} : x = Max({w, 1}) /\ w <= x
  <2>1. Max({w, 1}) \in {w, 1} /\ Max({w, 1}) >= w /\ Max({w, 1}) >= 1
    BY MaxOfTwo
  <2>2. QED
    BY <2>1
<1>7. PICK y \in 1..n : y = Min({x, n}) /\ (y = x \/ y = n)
  <2>1. Min({x, n}) \in {x, n} /\ Min({x, n}) <= x /\ Min({x, n}) <= n
    BY MinOfTwo
  <2>2. QED
    BY <2>1
<1>8. required_connection_count(c, n, group) = y
  BY <1>1, <1>2, <1>3, <1>4, <1>5, <1>6, <1>7 DEF required_connection_count
<1>9. load <= x * limit
  <2>1. PICK d \in Nat : x = w + d
    <3>1. x - w \in Nat /\ x = w + (x - w)
      BY <1>6
    <3>2. QED
      BY <3>1
  <2>2. x * limit = w * limit + d * limit /\ d * limit \in Nat /\ w * limit \in Nat
    BY <2>1
  <2>3. QED
    BY <1>5, <2>2
<1>10. IsEnough(y, n, load, limit)
  BY <1>7, <1>9 DEF IsEnough
<1>11. Load(n, group) = load
  BY <1>1, <1>2, <1>4 DEF Load
<1>12. QED
  BY <1>3, <1>8, <1>10, <1>11

\* The smallest of a set of numbers.
LEMMA MinOfSet ==
    ASSUME NEW A \in SUBSET Nat, A # {}
    PROVE  Min(A) \in A
<1>1. \E m \in A : \A k \in A : m <= k
  BY LeastNumber
<1>2. QED
  BY <1>1 DEF Min

\* The groups of a dataset: each has streams, and none twice.
AreGroups(groups) ==
    /\ groups \in Seq(Groups)
    /\ \A i \in 1..Len(groups) : groups[i].streams # <<>> /\ Distinct(groups[i].streams)

\* The next connection goes to a group that can have one.
LEMMA TightestFacts ==
    ASSUME NEW c, NEW groups, AreGroups(groups), NEW n \in Nat \ {0},
           NEW counts \in [1..Len(groups) -> 1..n], Open(counts, n) # {}
    PROVE  Tightest(c, groups, counts, n) \in Open(counts, n)
<1>1. PICK m \in Nat : m = Len(groups)
  BY DEF AreGroups
<1>2. PICK open : open = Open(counts, n)
  OBVIOUS
<1>3. open \subseteq 1..m /\ open # {}
  BY <1>1, <1>2 DEF Open
<1>4. ASSUME NEW i \in 1..m PROVE Room(c, groups, counts, i) \in Nat
  <2>1. PICK g \in Groups : g = groups[i] /\ g.streams # <<>> /\ Distinct(g.streams)
    BY <1>1 DEF AreGroups
  <2>2. PICK limit \in Nat \ {0} : limit = stream_limit(c, g)
    BY <2>1, GroupNumbers
  <2>3. PICK len \in Nat \ {0} : len = Len(g.streams)
    BY <2>1 DEF Groups
  <2>4. PICK k \in Nat : k = counts[i]
    BY <1>1
  <2>5. PICK a \in Nat : a = k * limit
    <3>1. k * limit \in Nat
      OBVIOUS
    <3>2. QED
      BY <3>1
  <2>6. div_ceil(a, len) \in Nat
    BY RoundedUp
  <2>7. QED
    BY <2>1, <2>2, <2>3, <2>4, <2>5, <2>6 DEF Room
<1>5. PICK rooms : rooms = {Room(c, groups, counts, i) : i \in open}
  OBVIOUS
<1>6. rooms \in SUBSET Nat /\ rooms # {}
  BY <1>3, <1>4, <1>5
<1>7. PICK r \in rooms : \A x \in rooms : r <= x
  BY <1>6, LeastNumber
<1>8. PICK least : least = {i \in open : \A j \in open : Room(c, groups, counts, i) <= Room(c, groups, counts, j)}
  OBVIOUS
<1>9. PICK i \in open : r = Room(c, groups, counts, i)
  BY <1>5
<1>10. i \in least
  BY <1>5, <1>7, <1>8, <1>9
<1>11. least \in SUBSET Nat /\ least # {} /\ least \subseteq open
  <2>1. least \subseteq open
    BY <1>8, Zenon
  <2>2. QED
    BY <1>3, <1>10, <2>1
<1>12. Min(least) \in least
  BY <1>11, MinOfSet
<1>13. Tightest(c, groups, counts, n) = Min(least)
  BY <1>2, <1>8 DEF Tightest
<1>14. QED
  BY <1>2, <1>11, <1>12, <1>13

\* No group loses a connection, and none gets more than there are symbols.
Grows(old, new, m, n) == new \in [1..m -> 1..n] /\ \A i \in 1..m : old[i] <= new[i]

LEMMA OneMoreFacts ==
    ASSUME NEW c, NEW groups, AreGroups(groups), NEW n \in Nat \ {0},
           NEW counts \in [1..Len(groups) -> 1..n]
    PROVE  Grows(counts, OneMore(c, groups, counts, n), Len(groups), n)
<1>1. PICK m \in Nat : m = Len(groups)
  BY DEF AreGroups
<1>2. CASE Open(counts, n) = {}
  <2>1. OneMore(c, groups, counts, n) = counts
    BY <1>2 DEF OneMore
  <2>2. QED
    BY <1>1, <2>1 DEF Grows
<1>3. CASE Open(counts, n) # {}
  <2>1. PICK t : t = Tightest(c, groups, counts, n)
    OBVIOUS
  <2>2. t \in 1..m /\ counts[t] < n /\ counts[t] \in 1..n
    BY <1>1, <1>3, <2>1, TightestFacts DEF Open
  <2>3. OneMore(c, groups, counts, n) = [counts EXCEPT ![t] = @ + 1]
    BY <1>3, <2>1 DEF OneMore
  <2>4. counts[t] + 1 \in 1..n
    BY <2>2
  <2>5. QED
    BY <1>1, <2>2, <2>3, <2>4 DEF Grows
<1>4. QED
  BY <1>2, <1>3

\* The counts after 0, 1, ..., k connections more.
IsGrowth(f, required, c, groups, n, k) ==
    f = [i \in 0..k |-> IF i = 0 THEN required ELSE OneMore(c, groups, f[i - 1], n)]

LEMMA GrowthNext ==
    ASSUME NEW required, NEW c, NEW groups, NEW n, NEW k \in Nat, NEW f, IsGrowth(f, required, c, groups, n, k)
    PROVE  \E g : IsGrowth(g, required, c, groups, n, k + 1)
<1>1. PICK g : g = [i \in 0..(k + 1) |-> IF i <= k THEN f[i] ELSE OneMore(c, groups, f[k], n)]
  OBVIOUS
<1>2. ASSUME NEW i \in 0..(k + 1)
      PROVE  g[i] = IF i = 0 THEN required ELSE OneMore(c, groups, g[i - 1], n)
  <2>1. CASE i <= k
    <3>1. i \in 0..k /\ (i # 0 => i - 1 \in 0..k /\ i - 1 \in 0..(k + 1) /\ i - 1 <= k)
      BY <2>1
    <3>2. f[i] = IF i = 0 THEN required ELSE OneMore(c, groups, f[i - 1], n)
      BY <3>1 DEF IsGrowth
    <3>3. g[i] = f[i] /\ (i # 0 => g[i - 1] = f[i - 1])
      BY <1>1, <2>1, <3>1
    <3>4. QED
      BY <3>2, <3>3
  <2>2. CASE i = k + 1
    <3>1. k \in 0..(k + 1) /\ i # 0 /\ i - 1 = k /\ k <= k /\ ~(i <= k)
      BY <2>2
    <3>2. g[i] = OneMore(c, groups, f[k], n) /\ g[k] = f[k]
      BY <1>1, <3>1
    <3>3. QED
      BY <3>1, <3>2
  <2>3. QED
    BY <2>1, <2>2
<1>3. g = [i \in 0..(k + 1) |-> g[i]]
  BY <1>1
<1>4. IsGrowth(g, required, c, groups, n, k + 1)
  BY <1>2, <1>3 DEF IsGrowth
<1>5. QED
  BY <1>4

LEMMA GrowthExists ==
    ASSUME NEW required, NEW c, NEW groups, NEW n, NEW k \in Nat
    PROVE  \E f : IsGrowth(f, required, c, groups, n, k)
<1> DEFINE A == {j \in Nat : \E f : IsGrowth(f, required, c, groups, n, j)}
<1>1. 0 \in A
  <2>1. IsGrowth([i \in 0..0 |-> required], required, c, groups, n, 0)
    BY DEF IsGrowth
  <2>2. QED
    BY <2>1
<1>2. ASSUME NEW j \in Nat, j \in A PROVE j + 1 \in A
  BY <1>2, GrowthNext
<1>3. \A j \in Nat : j \in A
  <2> HIDE DEF A
  <2>1. QED
    BY <1>1, <1>2, EveryNumber
<1>4. QED
  BY <1>3

LEMMA GrowthFacts ==
    ASSUME NEW c, NEW groups, AreGroups(groups), NEW n \in Nat \ {0},
           NEW required \in [1..Len(groups) -> 1..n], NEW k \in Nat,
           NEW f, IsGrowth(f, required, c, groups, n, k)
    PROVE  Grows(required, f[k], Len(groups), n)
<1>0. PICK m \in Nat : m = Len(groups)
  BY DEF AreGroups
<1> DEFINE A == {j \in Nat : j <= k => Grows(required, f[j], m, n)}
<1>1. 0 \in A
  <2>1. f[0] = required
    BY DEF IsGrowth
  <2>2. Grows(required, f[0], m, n)
    BY <1>0, <2>1 DEF Grows
  <2>3. QED
    BY <2>2
<1>2. ASSUME NEW j \in Nat, j \in A PROVE j + 1 \in A
  <2>1. SUFFICES ASSUME j + 1 <= k PROVE Grows(required, f[j + 1], m, n)
    OBVIOUS
  <2>2. j <= k /\ j + 1 \in 0..k /\ j + 1 # 0 /\ j + 1 - 1 = j
    BY <2>1
  <2>3. Grows(required, f[j], m, n)
    BY <1>2, <2>2
  <2>4. PICK old \in [1..m -> 1..n] : old = f[j] /\ \A i \in 1..m : required[i] <= old[i]
    BY <2>3 DEF Grows
  <2>5. Grows(old, OneMore(c, groups, old, n), m, n)
    BY <1>0, OneMoreFacts
  <2>6. PICK new \in [1..m -> 1..n] : new = OneMore(c, groups, old, n) /\ \A i \in 1..m : old[i] <= new[i]
    BY <2>5 DEF Grows
  <2>7. f[j + 1] = new
    BY <2>2, <2>4, <2>6 DEF IsGrowth
  <2>8. \A i \in 1..m : required[i] <= new[i]
    <3> TAKE i \in 1..m
    <3>1. required[i] \in 1..n /\ old[i] \in 1..n /\ new[i] \in 1..n
      BY <1>0
    <3>2. QED
      BY <2>4, <2>6, <3>1
  <2>9. QED
    BY <2>7, <2>8 DEF Grows
<1>3. \A j \in Nat : j \in A
  <2> HIDE DEF A
  <2>1. QED
    BY <1>1, <1>2, EveryNumber
<1>4. QED
  BY <1>0, <1>3

\* Each group gets from one connection to one per symbol, and enough of them.
LEMMA CountsFacts ==
    ASSUME NEW c, c.exchange = "binance", c.ws_connections \in Nat,
           NEW groups, AreGroups(groups), NEW n \in Nat \ {0}
    PROVE  /\ connection_counts(c, groups, n) \in [1..Len(groups) -> 1..n]
           /\ \A i \in 1..Len(groups) :
                IsEnough(connection_counts(c, groups, n)[i], n, Load(n, groups[i]), stream_limit(c, groups[i]))
<1>1. PICK m \in Nat : m = Len(groups) /\ DOMAIN groups = 1..m
  BY DEF AreGroups
<1>2. \A i \in 1..m : groups[i] \in Groups /\ Distinct(groups[i].streams)
  BY <1>1 DEF AreGroups
<1>3. PICK required : required = required_counts(c, groups, n)
  OBVIOUS
<1>4. required = [i \in 1..m |-> required_connection_count(c, n, groups[i])]
  BY <1>1, <1>3 DEF required_counts
<1>5. ASSUME NEW i \in 1..m
      PROVE  /\ required[i] \in 1..n
             /\ IsEnough(required[i], n, Load(n, groups[i]), stream_limit(c, groups[i]))
  <2>1. PICK g \in Groups : g = groups[i] /\ Distinct(g.streams)
    BY <1>2
  <2>2. required[i] = required_connection_count(c, n, g)
    BY <1>4, <2>1
  <2>3. QED
    BY <2>1, <2>2, RequiredFacts
<1>6. required \in [1..m -> 1..n]
  BY <1>4, <1>5
<1>7. PICK total \in Nat : total = SumFunction(required)
  <2>1. required \in [1..m -> Nat]
    BY <1>6
  <2>2. IsFiniteSet(1..m)
    BY Intervals
  <2>3. Total(required) \in Nat
    BY <2>1, <2>2, TotalType
  <2>4. SumFunction(required) = Total(required)
    BY DEF Total, SumFunction, SumFunctionOnSet, FoldFunction
  <2>5. QED
    BY <2>3, <2>4
<1>8. PICK missing \in Nat : missing = Max({c.ws_connections, SumFunction(required)}) - SumFunction(required)
  <2>1. Max({c.ws_connections, total}) \in {c.ws_connections, total} /\ Max({c.ws_connections, total}) >= total
    BY MaxOfTwo
  <2>2. Max({c.ws_connections, total}) - total \in Nat
    BY <2>1
  <2>3. QED
    BY <1>7, <2>2
<1>9. PICK f : f = CHOOSE g : IsGrowth(g, required, c, groups, n, missing)
  OBVIOUS
<1>10. IsGrowth(f, required, c, groups, n, missing)
  BY <1>9, GrowthExists
<1>11. connection_counts(c, groups, n) = f[missing]
  BY <1>3, <1>8, <1>9 DEF connection_counts, IsGrowth
<1>12. Grows(required, f[missing], m, n)
  BY <1>1, <1>6, <1>10, GrowthFacts
<1>13. f[missing] \in [1..m -> 1..n]
  BY <1>12 DEF Grows
<1>14. ASSUME NEW i \in 1..m
       PROVE  IsEnough(f[missing][i], n, Load(n, groups[i]), stream_limit(c, groups[i]))
  <2>1. PICK b \in 0..n : b = f[missing][i] /\ required[i] <= b
    <3>1. f[missing][i] \in 1..n
      BY <1>13
    <3>2. required[i] <= f[missing][i]
      BY <1>12 DEF Grows
    <3>3. QED
      BY <3>1, <3>2
  <2>2. PICK a \in Nat : a = required[i]
    BY <1>5
  <2>3. PICK g \in Groups : g = groups[i] /\ Distinct(g.streams)
    BY <1>2
  <2>4. PICK limit \in Nat : limit = stream_limit(c, g)
    BY <2>3, GroupNumbers
  <2>5. PICK load \in Nat : load = Load(n, g)
    <3>1. PICK p \in Nat : p = PerSymbol(g)
      BY <2>3, GroupNumbers
    <3>2. PICK q \in Nat : q = Globals(g)
      BY <2>3, GroupNumbers
    <3>3. n * p + q \in Nat
      OBVIOUS
    <3>4. QED
      BY <3>1, <3>2, <3>3 DEF Load
  <2>6. IsEnough(a, n, load, limit)
    BY <1>5, <2>2, <2>3, <2>4, <2>5
  <2>7. IsEnough(b, n, load, limit)
    BY <2>1, <2>2, <2>6, EnoughMore
  <2>8. QED
    BY <2>1, <2>3, <2>4, <2>5, <2>7
<1>15. QED
  BY <1>1, <1>11, <1>13, <1>14

-----------------------------------------------------------------------------
(* The streams of a dataset and their endpoints.                           *)

\* A list without repetition is as long as there are items.
LEMMA DistinctLength ==
    ASSUME NEW S, NEW q \in Seq(S), Distinct(q)
    PROVE  IsFiniteSet(Items(q)) /\ Cardinality(Items(q)) = Len(q) /\ Items(q) \subseteq S
<1>1. PICK n \in Nat : n = Len(q)
  OBVIOUS
<1>2. PICK I : I = Items(q)
  OBVIOUS
<1>3. I = {q[k] : k \in 1..n}
  BY <1>1, <1>2 DEF Items
<1>4. q \in [1..n -> I]
  BY <1>1, <1>3
<1>5. \A k, m \in 1..n : q[k] = q[m] => k = m
  BY <1>1 DEF Distinct
<1>6. q \in Injection(1..n, I)
  BY <1>4, <1>5 DEF Injection, IsInjective
<1>7. q \in Surjection(1..n, I)
  BY <1>3, <1>4 DEF Surjection
<1>8. ExistsBijection(1..n, I)
  BY <1>6, <1>7 DEF ExistsBijection, Bijection
<1>9. IsFiniteSet(I) /\ Cardinality(I) = n
  BY <1>8, FS_CountingElements, FS_NatBijection
<1>10. I \subseteq S
  <2>1. \A k \in 1..n : q[k] \in S
    BY <1>1
  <2>2. QED
    BY <1>3, <2>1
<1>11. QED
  BY <1>1, <1>2, <1>9, <1>10

LEMMA GlobalsFinite == IsFiniteSet(GlobalStreams)
<1>1. PICK q : q = <<"!miniTicker@arr", "!ticker@arr", "!ticker_1h@arr", "!ticker_4h@arr",
                     "!ticker_1d@arr", "!bookTicker", "!markPrice@arr@1s", "!forceOrder@arr">>
  OBVIOUS
<1>2. q \in [1..8 -> GlobalStreams]
  BY <1>1 DEF GlobalStreams
<1>3. \A s \in GlobalStreams : \E k \in 1..8 : q[k] = s
  <2>1. /\ q[1] = "!miniTicker@arr" /\ q[2] = "!ticker@arr" /\ q[3] = "!ticker_1h@arr"
        /\ q[4] = "!ticker_4h@arr" /\ q[5] = "!ticker_1d@arr" /\ q[6] = "!bookTicker"
        /\ q[7] = "!markPrice@arr@1s" /\ q[8] = "!forceOrder@arr"
    BY <1>1
  <2>2. {1, 2, 3, 4, 5, 6, 7, 8} \subseteq 1..8
    OBVIOUS
  <2>3. QED
    BY <2>1, <2>2 DEF GlobalStreams
<1>4. q \in Surjection(1..8, GlobalStreams)
  BY <1>2, <1>3 DEF Surjection
<1>5. QED
  BY <1>4, FS_NatSurjection DEF ExistsSurjection

\* The streams of a dataset, each named once.
LEMMA StreamsType ==
    ASSUME NEW c, c.streams \in {None} \cup Seq(STRING)
    PROVE  streams(c) \in Seq(Texts) /\ Distinct(streams(c))
<1>1. \A items \in Seq(Texts) : csv(items) \in Seq(Texts) /\ Distinct(csv(items))
  BY CsvFacts DEF Distinct
<1>2. /\ DEFAULT_STREAMS \in Seq(Texts) /\ DEFAULT_USDM_STREAMS \in Seq(Texts)
      /\ DEFAULT_COINM_STREAMS \in Seq(Texts)
  <2>1. /\ "depth@100ms" \in Texts /\ "aggTrade" \in Texts /\ "trade" \in Texts /\ "kline_1s" \in Texts
        /\ "kline_1m" \in Texts /\ "ticker" \in Texts /\ "bookTicker" \in Texts /\ "avgPrice" \in Texts
        /\ "!miniTicker@arr" \in Texts /\ "!ticker@arr" \in Texts /\ "!ticker_1h@arr" \in Texts
        /\ "!ticker_4h@arr" \in Texts /\ "!ticker_1d@arr" \in Texts /\ "!bookTicker" \in Texts
        /\ "!markPrice@arr@1s" \in Texts /\ "!forceOrder@arr" \in Texts
    BY DEF Texts
  <2>2. PICK S : S = Texts
    OBVIOUS
  <2>3. DEFAULT_STREAMS \in Seq(S)
    BY <2>1, <2>2 DEF DEFAULT_STREAMS
  <2>4. DEFAULT_USDM_STREAMS \in Seq(S)
    BY <2>1, <2>2 DEF DEFAULT_USDM_STREAMS
  <2>5. DEFAULT_COINM_STREAMS \in Seq(S)
    BY <2>1, <2>2 DEF DEFAULT_COINM_STREAMS
  <2>6. QED
    BY <2>2, <2>3, <2>4, <2>5
<1>3. CASE c.streams # None
  <2>1. c.streams \in Seq(Texts)
    <3>1. STRING \subseteq Texts
      BY DEF Texts
    <3>2. PICK S : S = STRING
      OBVIOUS
    <3>3. PICK T : T = Texts
      OBVIOUS
    <3>4. S \subseteq T
      BY <3>1, <3>2, <3>3
    <3>5. \A q : q \in Seq(S) => q \in Seq(T)
      BY <3>4
    <3>6. QED
      BY <1>3, <3>2, <3>3, <3>5
  <2>2. streams(c) = csv(c.streams)
    BY <1>3 DEF streams
  <2>3. QED
    BY <1>1, <2>1, <2>2
<1>4. CASE c.streams = None
  <2>1. streams(c) \in {csv(DEFAULT_STREAMS), csv(DEFAULT_USDM_STREAMS), csv(DEFAULT_COINM_STREAMS)}
    BY <1>4 DEF streams
  <2>2. QED
    BY <1>1, <1>2, <2>1
<1>5. QED
  BY <1>3, <1>4

\* The endpoints share the streams of a dataset out among them.
SharedOut(groups, all) ==
    \/ Len(groups) = 1 /\ Items(groups[1].streams) = Items(all)
    \/ /\ Len(groups) = 2
       /\ Items(groups[1].streams) \cup Items(groups[2].streams) = Items(all)
       /\ Items(groups[1].streams) \cap Items(groups[2].streams) = {}

\* The public endpoint gets its own streams only.
PublicOnly(c, groups) ==
    \A i \in 1..Len(groups) :
        c.market = "usdm" /\ groups[i].name = "public" => Items(groups[i].streams) \subseteq PublicStreams

AreEndpoints(c, groups) == AreGroups(groups) /\ SharedOut(groups, streams(c)) /\ PublicOnly(c, groups)

LEMMA OneGroup ==
    ASSUME NEW c, NEW g \in Groups, g.streams # <<>>, Distinct(g.streams),
           Items(g.streams) = Items(streams(c)),
           c.market = "usdm" /\ g.name = "public" => Items(g.streams) \subseteq PublicStreams
    PROVE  AreEndpoints(c, <<g>>)
<1>1. PICK groups : groups = <<g>>
  OBVIOUS
<1>2. groups \in Seq(Groups) /\ Len(groups) = 1 /\ groups[1] = g /\ 1..Len(groups) = {1}
  BY <1>1
<1>3. AreGroups(groups)
  BY <1>2 DEF AreGroups
<1>4. SharedOut(groups, streams(c))
  BY <1>2 DEF SharedOut
<1>5. PublicOnly(c, groups)
  BY <1>2 DEF PublicOnly
<1>6. QED
  BY <1>1, <1>3, <1>4, <1>5 DEF AreEndpoints

\* The group of a set of streams.
LEMMA PublicGroup ==
    ASSUME NEW all \in Seq(Texts), Distinct(all), NEW g, g = [name |-> "public", streams |-> Only(all, PublicStreams)]
    PROVE  /\ g \in Groups /\ Distinct(g.streams) /\ g.name = "public"
           /\ Items(g.streams) = Items(all) \cap PublicStreams
<1>1. IsFilter(Only(all, PublicStreams), all, PublicStreams, Texts)
  BY OnlyFacts
<1>2. Items(Only(all, PublicStreams)) = Items(all) \cap PublicStreams
  BY <1>1, FilteredStreams
<1>3. QED
  BY <1>1, <1>2 DEF IsFilter, Groups, Texts

LEMMA MarketGroup ==
    ASSUME NEW all \in Seq(Texts), Distinct(all), NEW g, g = [name |-> "market", streams |-> Without(all, PublicStreams)]
    PROVE  /\ g \in Groups /\ Distinct(g.streams) /\ g.name = "market"
           /\ Items(g.streams) = Items(all) \ PublicStreams
<1>1. IsFilter(Without(all, PublicStreams), all, Texts \ PublicStreams, Texts)
  BY WithoutFacts
<1>2. Items(Without(all, PublicStreams)) = Items(all) \cap (Texts \ PublicStreams)
  BY <1>1, FilteredStreams
<1>3. Items(all) \subseteq Texts
  BY DistinctLength
<1>4. QED
  BY <1>1, <1>2, <1>3 DEF IsFilter, Groups, Texts

LEMMA NoItems ==
    ASSUME NEW S, NEW q \in Seq(S)
    PROVE  q = <<>> <=> Items(q) = {}
<1>1. ASSUME q # <<>> PROVE q[1] \in Items(q)
  <2>1. 1 \in 1..Len(q)
    BY <1>1
  <2>2. QED
    BY <2>1 DEF Items
<1>2. ASSUME q = <<>> PROVE Items(q) = {}
  BY <1>2 DEF Items
<1>3. QED
  BY <1>1, <1>2

\* A pair of endpoints, of which an empty one is left out.
LEMMA NonEmptyOfTwo ==
    ASSUME NEW public \in Groups, NEW market \in Groups
    PROVE  /\ market.streams = <<>> /\ public.streams # <<>> => NonEmpty(public) \o NonEmpty(market) = <<public>>
           /\ public.streams = <<>> /\ market.streams # <<>> => NonEmpty(public) \o NonEmpty(market) = <<market>>
           /\ public.streams # <<>> /\ market.streams # <<>> => NonEmpty(public) \o NonEmpty(market) = <<public, market>>
<1>1. <<>> \in Seq(Groups) /\ <<public>> \in Seq(Groups) /\ <<market>> \in Seq(Groups)
  OBVIOUS
<1>2. <<public>> \o <<>> = <<public>>
  BY <1>1
<1>3. <<>> \o <<market>> = <<market>>
  BY <1>1
<1>4. <<public>> \o <<market>> = <<public, market>>
  <2>1. PICK first \in Seq(Groups) : first = <<public>> /\ Len(first) = 1 /\ first[1] = public
    BY <1>1
  <2>2. PICK second \in Seq(Groups) : second = <<market>> /\ Len(second) = 1 /\ second[1] = market
    BY <1>1
  <2>3. PICK q \in Seq(Groups) : q = first \o second
    <3>1. first \o second \in Seq(Groups)
      OBVIOUS
    <3>2. QED
      BY <3>1, Zenon
  <2>4. Len(q) = 2 /\ q[1] = public /\ q[1 + 1] = market
    BY <2>1, <2>2, <2>3
  <2>5. q = <<public, market>>
    BY <2>4
  <2>6. QED
    BY <2>1, <2>2, <2>3, <2>5, Zenon
<1>5. QED
  BY <1>2, <1>3, <1>4, Zenon DEF NonEmpty

\* The groups of a dataset with streams: each stream at one endpoint.
LEMMA GroupFacts ==
    ASSUME NEW c, c.exchange = "binance", c.streams \in {None} \cup Seq(STRING), streams(c) # <<>>
    PROVE  AreEndpoints(c, stream_groups(c))
<1>1. PICK all \in Seq(Texts) : all = streams(c) /\ Distinct(all) /\ all # <<>>
  BY StreamsType
<1>2. PICK public : public = [name |-> "public", streams |-> Only(all, PublicStreams)]
  OBVIOUS
<1>3. PICK market : market = [name |-> "market", streams |-> Without(all, PublicStreams)]
  OBVIOUS
<1>4. /\ public \in Groups /\ Distinct(public.streams) /\ public.name = "public"
      /\ Items(public.streams) = Items(all) \cap PublicStreams
  BY <1>1, <1>2, PublicGroup
<1>5. /\ market \in Groups /\ Distinct(market.streams) /\ market.name = "market"
      /\ Items(market.streams) = Items(all) \ PublicStreams
  BY <1>1, <1>3, MarketGroup
<1>6. CASE c.ws_url # None
  <2>1. PICK g : g = [name |-> "custom", streams |-> all]
    OBVIOUS
  <2>2. g \in Groups /\ g.streams = all /\ g.name # "public"
    BY <1>1, <2>1 DEF Groups, Texts
  <2>3. AreEndpoints(c, <<g>>)
    BY <1>1, <2>2, OneGroup
  <2>4. stream_groups(c) = <<g>>
    BY <1>1, <1>6, <2>1 DEF stream_groups
  <2>5. QED
    BY <2>3, <2>4
<1>7. CASE c.ws_url = None /\ c.market # "usdm"
  <2>1. PICK g : g = [name |-> "market", streams |-> all]
    OBVIOUS
  <2>2. g \in Groups /\ g.streams = all /\ g.name # "public"
    BY <1>1, <2>1 DEF Groups, Texts
  <2>3. AreEndpoints(c, <<g>>)
    BY <1>1, <2>2, OneGroup
  <2>4. stream_groups(c) = <<g>>
    BY <1>1, <1>7, <2>1 DEF stream_groups
  <2>5. QED
    BY <2>3, <2>4
<1>8. CASE c.ws_url = None /\ c.market = "usdm"
  <2>1. PICK both : both = <<public, market>>
    OBVIOUS
  <2>2. both \in Seq(Groups) /\ Len(both) = 2 /\ both[1] = public /\ both[2] = market
    BY <1>4, <1>5, <2>1
  <2>3. stream_groups(c) = NonEmpty(public) \o NonEmpty(market)
    BY <1>1, <1>2, <1>3, <1>8 DEF stream_groups
  <2>4. /\ public.streams = <<>> <=> Items(public.streams) = {}
        /\ market.streams = <<>> <=> Items(market.streams) = {}
    <3>1. public.streams \in Seq(Texts) /\ market.streams \in Seq(Texts)
      BY <1>4, <1>5 DEF Groups
    <3>2. QED
      BY <3>1, NoItems
  <2>5. Items(all) # {}
    BY <1>1, NoItems
  <2>6. CASE market.streams = <<>>
    <3>1. Items(public.streams) = Items(all) /\ public.streams # <<>> /\ Items(public.streams) \subseteq PublicStreams
      BY <1>4, <1>5, <2>4, <2>5, <2>6
    <3>2. stream_groups(c) = <<public>>
      BY <1>4, <1>5, <2>3, <2>6, <3>1, NonEmptyOfTwo
    <3>3. AreEndpoints(c, <<public>>)
      BY <1>1, <1>4, <3>1, OneGroup
    <3>4. QED
      BY <3>2, <3>3
  <2>7. CASE public.streams = <<>>
    <3>1. Items(market.streams) = Items(all) /\ market.streams # <<>> /\ market.name # "public"
      BY <1>4, <1>5, <2>4, <2>5, <2>7
    <3>2. stream_groups(c) = <<market>>
      BY <1>4, <1>5, <2>3, <2>7, <3>1, NonEmptyOfTwo
    <3>3. AreEndpoints(c, <<market>>)
      BY <1>1, <1>5, <3>1, OneGroup
    <3>4. QED
      BY <3>2, <3>3
  <2>8. CASE public.streams # <<>> /\ market.streams # <<>>
    <3>1. stream_groups(c) = both
      BY <1>4, <1>5, <2>1, <2>3, <2>8, NonEmptyOfTwo
    <3>2. AreGroups(both)
      <4>1. \A i \in 1..Len(both) : i = 1 \/ i = 2
        BY <2>2
      <4>2. QED
        BY <1>4, <1>5, <2>2, <2>8, <4>1 DEF AreGroups
    <3>3. SharedOut(both, streams(c))
      <4>1. Items(public.streams) \cup Items(market.streams) = Items(all)
        BY <1>4, <1>5
      <4>2. Items(public.streams) \cap Items(market.streams) = {}
        BY <1>4, <1>5
      <4>3. QED
        BY <1>1, <2>2, <4>1, <4>2 DEF SharedOut
    <3>4. PublicOnly(c, both)
      <4>1. \A i \in 1..Len(both) : i = 1 \/ i = 2
        BY <2>2
      <4>2. Items(public.streams) \subseteq PublicStreams /\ market.name # "public"
        BY <1>4, <1>5
      <4>3. QED
        BY <2>2, <4>1, <4>2 DEF PublicOnly
    <3>5. QED
      BY <3>1, <3>2, <3>3, <3>4 DEF AreEndpoints
  <2>9. QED
    BY <2>6, <2>7, <2>8
<1>9. QED
  BY <1>6, <1>7, <1>8

\* The all-market streams of an endpoint fit on one connection.
LEMMA GlobalsFit ==
    ASSUME NEW c, NEW group \in Groups, Distinct(group.streams),
           c.market = "usdm" /\ group.name = "public" => Items(group.streams) \subseteq PublicStreams
    PROVE  Globals(group) <= stream_limit(c, group)
<1>1. PICK all \in Seq(Texts) : all = group.streams /\ Distinct(all)
  BY DEF Groups
<1>2. PICK q \in Seq(Texts) : q = Only(all, GlobalStreams) /\ IsFilter(q, all, GlobalStreams, Texts)
  BY <1>1, OnlyFacts DEF IsFilter
<1>3. Distinct(q) /\ Globals(group) = Len(q)
  BY <1>1, <1>2 DEF IsFilter, Globals
<1>4. Items(q) = Items(all) \cap GlobalStreams
  BY <1>1, <1>2, FilteredStreams
<1>5. IsFiniteSet(Items(q)) /\ Cardinality(Items(q)) = Len(q)
  BY <1>3, DistinctLength
<1>6. Len(q) <= StreamLimit
  <2>1. Cardinality(Items(q)) <= Cardinality(GlobalStreams)
    BY <1>4, GlobalsFinite, FS_Subset
  <2>2. Cardinality(GlobalStreams) \in Nat
    BY GlobalsFinite, FS_CardinalityType
  <2>3. QED
    BY <1>5, <2>1, <2>2, StreamLimitAssumption
<1>7. ASSUME c.market = "usdm", group.name = "public" PROVE Len(q) <= PublicLimit
  <2>1. Items(q) \subseteq {"!bookTicker"}
    BY <1>1, <1>4, <1>7 DEF PublicStreams, GlobalStreams
  <2>2. Cardinality(Items(q)) <= 1
    <3>1. PICK s : s = {"!bookTicker"}
      OBVIOUS
    <3>2. IsFiniteSet(s) /\ Cardinality(s) = 1
      BY <3>1, FS_Singleton
    <3>3. Items(q) \in SUBSET s
      BY <2>1, <3>1
    <3>4. Cardinality(Items(q)) <= Cardinality(s)
      BY <3>2, <3>3, FS_Subset
    <3>5. QED
      BY <3>2, <3>4
  <2>3. QED
    BY <1>5, <2>2, StreamLimitAssumption
<1>8. QED
  BY <1>3, <1>6, <1>7 DEF stream_limit

-----------------------------------------------------------------------------
(* The load of a connection.                                               *)

LEMMA TimesMonotone ==
    ASSUME NEW x \in Nat, NEW y \in Nat, NEW k \in Nat, x <= y
    PROVE  x * k <= y * k
<1>1. PICK d \in Nat : y = x + d
  <2>1. y - x \in Nat /\ y = x + (y - x)
    OBVIOUS
  <2>2. QED
    BY <2>1
<1>2. y * k = x * k + d * k /\ d * k \in Nat /\ x * k \in Nat
  BY <1>1
<1>3. QED
  BY <1>2

\* A connection with a all-market streams and b symbols of p streams each, dealt to the i-th of count
\* hands, has at most the p streams of one symbol more than its limit.
LEMMA LoadArithmetic ==
    ASSUME NEW a \in Nat, NEW b \in Nat \ {0}, NEW p \in Nat, NEW g \in Nat, NEW n \in Nat \ {0},
           NEW limit \in Nat, NEW count \in 1..n, NEW i \in 1..count,
           a # 0 => (a - 1) * count + i <= g, (b - 1) * count + i <= n,
           IsEnough(count, n, n * p + g, limit), g <= limit
    PROVE  a + b * p <= limit + p
<1>1. PICK d \in Nat : d = b - 1
  <2>1. b - 1 \in Nat
    OBVIOUS
  <2>2. QED
    BY <2>1
<1>2. b * p = d * p + p /\ d * p \in Nat
  <2>1. b = d + 1
    BY <1>1
  <2>2. b * p = d * p + p
    BY <2>1
  <2>3. QED
    BY <2>2
<1>3. d * count \in Nat /\ d * count + i <= n
  BY <1>1
<1>4. CASE count = n
  <2>1. d = 0
    <3>1. SUFFICES ASSUME 1 <= d PROVE FALSE
      OBVIOUS
    <3>2. 1 * count <= d * count
      BY <3>1, TimesMonotone
    <3>3. QED
      BY <1>3, <1>4, <3>2
  <2>2. a <= g
    <3>1. CASE a = 0
      BY <3>1
    <3>2. CASE a # 0
      <4>1. PICK e \in Nat : e = a - 1
        <5>1. a - 1 \in Nat
          BY <3>2
        <5>2. QED
          BY <5>1
      <4>2. 1 * e <= count * e
        BY TimesMonotone
      <4>3. count * e = e * count /\ e * count + i <= g /\ e * count \in Nat
        BY <3>2, <4>1
      <4>4. e + 1 <= g
        BY <4>2, <4>3
      <4>5. QED
        BY <4>1, <4>4
    <3>3. QED
      BY <3>1, <3>2
  <2>3. d * p = 0
    BY <2>1
  <2>4. QED
    BY <1>2, <2>2, <2>3
<1>5. CASE n * p + g <= count * limit
  <2>1. PICK w \in Nat : w = d * p
    BY <1>2
  <2>2. SUFFICES ASSUME limit < a + w PROVE FALSE
    BY <1>2, <2>1
  <2>3. w * count <= n * p
    <3>1. (d * count) * p <= n * p
      BY <1>3, TimesMonotone
    <3>2. (d * count) * p = w * count
      BY <2>1
    <3>3. QED
      BY <3>1, <3>2
  <2>4. count * limit = limit * count /\ limit * count \in Nat /\ n * p \in Nat /\ w * count \in Nat
    OBVIOUS
  <2>5. CASE a = 0
    <3>1. (limit + 1) * count <= w * count
      BY <2>2, <2>5, TimesMonotone
    <3>2. (limit + 1) * count = limit * count + count
      OBVIOUS
    <3>3. QED
      BY <1>5, <2>3, <2>4, <3>1, <3>2
  <2>6. CASE a # 0
    <3>1. PICK e \in Nat : e = a - 1
      <4>1. a - 1 \in Nat
        BY <2>6
      <4>2. QED
        BY <4>1
    <3>2. limit * count <= (e + w) * count
      BY <2>2, <3>1, TimesMonotone
    <3>3. (e + w) * count = e * count + w * count /\ e * count \in Nat
      OBVIOUS
    <3>4. e * count + i <= g
      BY <2>6, <3>1
    <3>5. QED
      BY <1>5, <2>3, <2>4, <3>2, <3>3, <3>4
  <2>7. QED
    BY <2>5, <2>6
<1>6. QED
  BY <1>4, <1>5 DEF IsEnough

LEMMA UnboundType ==
    ASSUME NEW S, NEW hand \in Seq(S)
    PROVE  Unbound(hand) \in Seq([symbol : {None}, stream : S]) /\ Len(Unbound(hand)) = Len(hand)
<1>1. PICK len \in Nat : len = Len(hand)
  OBVIOUS
<1>2. PICK R : R = [symbol : {None}, stream : S]
  OBVIOUS
<1>3. \A k \in 1..len : hand[k] \in S
  BY <1>1
<1>4. \A k \in 1..len : [symbol |-> None, stream |-> hand[k]] \in R
  BY <1>2, <1>3
<1>5. Unbound(hand) = [k \in 1..len |-> [symbol |-> None, stream |-> hand[k]]]
  BY <1>1 DEF Unbound
<1>6. Unbound(hand) \in [1..len -> R]
  BY <1>4, <1>5
<1>7. Unbound(hand) \in Seq(R) /\ Len(Unbound(hand)) = len
  BY <1>6
<1>8. QED
  BY <1>1, <1>2, <1>7

Subs(S, T) == [symbol : S \cup {None}, stream : T]

\* The list of a connection: its all-market streams, then the streams of its symbols.
IsShard(q, i, pairs, all, count, S, T) ==
    \E u \in Seq([symbol : {None}, stream : T]) : \E v \in Seq([symbol : S, stream : T]) :
        /\ q = u \o v /\ q \in Seq(Subs(S, T))
        /\ u = Unbound(Dealt(Only(all, GlobalStreams), i, count))
        /\ v = Subscriptions(Dealt(pairs, i, count), Without(all, GlobalStreams))

LEMMA ShardParts ==
    ASSUME NEW S, NEW pairs \in Seq(S), NEW T, NEW all \in Seq(T), Distinct(all),
           NEW count \in Nat \ {0}, NEW i \in 1..count
    PROVE  IsShard(shards(pairs, all, count)[i], i, pairs, all, count, S, T)
<1>1. PICK global \in Seq(T) : global = Only(all, GlobalStreams)
  BY OnlyFacts DEF IsFilter
<1>2. PICK per \in Seq(T) : per = Without(all, GlobalStreams)
  BY WithoutFacts DEF IsFilter
<1>3. PICK U : U = [symbol : {None}, stream : T]
  OBVIOUS
<1>4. PICK V : V = [symbol : S, stream : T]
  OBVIOUS
<1>5. PICK R : R = Subs(S, T)
  OBVIOUS
<1>6. U \subseteq R /\ V \subseteq R
  BY <1>3, <1>4, <1>5 DEF Subs
<1>7. PICK u \in Seq(U) : u = Unbound(Dealt(global, i, count))
  <2>1. Dealt(global, i, count) \in Seq(T)
    BY DealtType
  <2>2. Unbound(Dealt(global, i, count)) \in Seq(U)
    BY <1>3, <2>1, UnboundType
  <2>3. QED
    BY <2>2, Zenon
<1>8. PICK v \in Seq(V) : v = Subscriptions(Dealt(pairs, i, count), per)
  <2>1. Dealt(pairs, i, count) \in Seq(S)
    BY DealtType
  <2>2. Subscriptions(Dealt(pairs, i, count), per) \in Seq(V)
    BY <1>4, <2>1, SubscriptionType
  <2>3. QED
    BY <2>2, Zenon
<1>9. u \o v \in Seq(R)
  <2>1. u \in Seq(R) /\ v \in Seq(R)
    BY <1>6
  <2>2. QED
    BY <2>1
<1>10. shards(pairs, all, count)[i] = u \o v
  BY <1>1, <1>2, <1>7, <1>8 DEF shards
<1>11. PICK q : q = shards(pairs, all, count)[i]
  OBVIOUS
<1>12. q = u \o v /\ q \in Seq(R)
  BY <1>9, <1>10, <1>11
<1>13. /\ u = Unbound(Dealt(Only(all, GlobalStreams), i, count))
       /\ v = Subscriptions(Dealt(pairs, i, count), Without(all, GlobalStreams))
  BY <1>1, <1>2, <1>7, <1>8
<1>14. IsShard(q, i, pairs, all, count, S, T)
  BY <1>3, <1>4, <1>5, <1>12, <1>13, Zenon DEF IsShard
<1>15. QED
  BY <1>11, <1>14

Bare(T) == [symbol : {None}, stream : T]

\* The streams a connection has for symbols.
OwnStreams(q) == {sub.stream : sub \in {s \in Range(q) : s.symbol # None}}

\* A connection that has a symbol has all streams that symbols have.
LEMMA OwnStreamsFacts ==
    ASSUME NEW S, None \notin S, NEW T, NEW u \in Seq(Bare(T)),
           NEW mine \in Seq(S), mine # <<>>, NEW per \in Seq(T)
    PROVE  OwnStreams(u \o Subscriptions(mine, per)) = Items(per)
<1>1. PICK v : v = Subscriptions(mine, per)
  OBVIOUS
<1>2. PICK U : U = [symbol : {None}, stream : T]
  OBVIOUS
<1>3. PICK V : V = [symbol : S, stream : T]
  OBVIOUS
<1>4. PICK R : R = U \cup V
  OBVIOUS
<1>5. u \in Seq(R) /\ v \in Seq(R)
  <2>1. u \in Seq(U) /\ v \in Seq(V)
    BY <1>1, <1>2, <1>3, SubscriptionType DEF Bare
  <2>2. U \subseteq R /\ V \subseteq R
    BY <1>4
  <2>3. QED
    BY <2>1, <2>2
<1>6. Range(u \o v) = Range(u) \cup Range(v)
  BY <1>5, RangeOfBoth
<1>7. ASSUME NEW s \in Range(u) PROVE s.symbol = None
  <2>0. u \in Seq(U)
    BY <1>2 DEF Bare
  <2>1. \A k \in 1..Len(u) : u[k] \in U
    BY <2>0
  <2>2. s \in U
    BY <2>1 DEF Range
  <2>3. QED
    BY <1>2, <2>2
<1>8. ASSUME NEW s \in Range(v)
      PROVE  s.symbol # None /\ s.stream \in Items(per)
  <2>1. /\ v \in Seq(V) /\ Len(v) = Len(mine) * Len(per)
        /\ \A k \in 1..(Len(mine) * Len(per)) :
              \E a \in 1..Len(mine), b \in 1..Len(per) : IsEntry(mine, per, k, a, b)
    BY <1>1, <1>3, SubscriptionType
  <2>2. PICK k \in 1..Len(v) : s = v[k]
    BY <2>1 DEF Range
  <2>3. PICK a \in 1..Len(mine), b \in 1..Len(per) : IsEntry(mine, per, k, a, b)
    BY <2>1, <2>2
  <2>4. s = [symbol |-> mine[a], stream |-> per[b]]
    BY <1>1, <2>2, <2>3 DEF IsEntry
  <2>5. mine[a] \in S
    OBVIOUS
  <2>6. per[b] \in Items(per)
    BY DEF Items
  <2>7. QED
    BY <2>4, <2>5, <2>6
<1>9. ASSUME NEW t \in Items(per)
      PROVE  \E s \in Range(v) : s.stream = t
  <2>1. PICK b \in 1..Len(per) : t = per[b]
    BY DEF Items
  <2>2. PICK a \in 1..Len(mine) : a = 1
    <3>1. 1 \in 1..Len(mine)
      OBVIOUS
    <3>2. QED
      BY <3>1
  <2>3. PICK k \in 1..Len(v) : v[k] = [symbol |-> mine[a], stream |-> per[b]]
    BY <1>1, SubscriptionCovers
  <2>4. v[k] \in Range(v)
    BY <1>5 DEF Range
  <2>5. QED
    BY <2>1, <2>3, <2>4
<1>10. OwnStreams(u \o v) = {s.stream : s \in Range(v)}
  <2>1. {s \in Range(u \o v) : s.symbol # None} = Range(v)
    BY <1>6, <1>7, <1>8
  <2>2. QED
    BY <2>1 DEF OwnStreams
<1>11. {s.stream : s \in Range(v)} = Items(per)
  BY <1>8, <1>9
<1>12. QED
  BY <1>1, <1>10, <1>11

\* However the streams of an endpoint are spread over enough connections.
LEMMA ShardLoad ==
    ASSUME NEW S, None \notin S, NEW pairs \in Seq(S), pairs # <<>>,
           NEW group \in Groups, Distinct(group.streams), NEW limit \in Nat, Globals(group) <= limit,
           NEW count \in 1..Len(pairs), IsEnough(count, Len(pairs), Load(Len(pairs), group), limit),
           NEW i \in 1..count, NEW q, q = shards(pairs, group.streams, count)[i]
    PROVE  Len(q) <= limit + Cardinality(OwnStreams(q))
<1>1. PICK all \in Seq(Texts) : all = group.streams /\ Distinct(all)
  BY DEF Groups
<1>2. PICK n \in Nat \ {0} : n = Len(pairs)
  OBVIOUS
<1>3. PICK global \in Seq(Texts) : global = Only(all, GlobalStreams)
  BY <1>1, OnlyFacts DEF IsFilter
<1>4. PICK per \in Seq(Texts) : per = Without(all, GlobalStreams) /\ Distinct(per)
  BY <1>1, WithoutFacts DEF IsFilter
<1>5. PICK p \in Nat : p = Len(per) /\ p = PerSymbol(group)
  BY <1>1, <1>4 DEF PerSymbol
<1>6. PICK g \in Nat : g = Len(global) /\ g = Globals(group)
  BY <1>1, <1>3 DEF Globals
<1>c. count \in Nat \ {0}
  BY <1>2
<1>7. PICK mine \in Seq(S) : mine = Dealt(pairs, i, count) /\ IsHand(mine, pairs, i, count)
  <2>1. Dealt(pairs, i, count) \in Seq(S) /\ IsHand(Dealt(pairs, i, count), pairs, i, count)
    BY <1>c, DealtType
  <2>2. QED
    BY <2>1, Zenon
<1>8. PICK hand \in Seq(Texts) : hand = Dealt(global, i, count) /\ IsHand(hand, global, i, count)
  <2>1. Dealt(global, i, count) \in Seq(Texts) /\ IsHand(Dealt(global, i, count), global, i, count)
    BY <1>c, DealtType
  <2>2. QED
    BY <2>1, Zenon
<1>9. PICK b \in Nat \ {0} : b = Len(mine) /\ (b - 1) * count + i <= n
  <2>1. 1 <= Len(mine)
    <3>1. (1 - 1) * count + i = i /\ i <= n
      BY <1>2
    <3>2. 1 <= Len(mine) <=> (1 - 1) * count + i <= Len(pairs)
      BY <1>7 DEF IsHand
    <3>3. QED
      BY <1>2, <3>1, <3>2
  <2>2. Len(mine) \in Nat \ {0}
    BY <2>1
  <2>3. (Len(mine) - 1) * count + i <= Len(pairs)
    BY <1>7, <2>2 DEF IsHand
  <2>4. QED
    BY <1>2, <2>2, <2>3
<1>10. PICK a \in Nat : a = Len(hand) /\ (a # 0 => (a - 1) * count + i <= g)
  <2>1. PICK x \in Nat : x = Len(hand)
    OBVIOUS
  <2>2. x # 0 => (x - 1) * count + i <= Len(global)
    BY <1>8, <2>1 DEF IsHand
  <2>3. QED
    BY <1>6, <2>1, <2>2
<1>11. a + b * p <= limit + p
  <2>1. IsEnough(count, n, n * p + g, limit)
    BY <1>2, <1>5, <1>6 DEF Load
  <2>2. g <= limit /\ count \in 1..n
    BY <1>2, <1>6
  <2>3. QED
    BY <1>9, <1>10, <2>1, <2>2, LoadArithmetic
<1>12. PICK u \in Seq([symbol : {None}, stream : Texts]) : u = Unbound(hand) /\ Len(u) = a
  BY <1>10, UnboundType
<1>13. q = u \o Subscriptions(mine, per)
  BY <1>1, <1>3, <1>4, <1>7, <1>8, <1>12 DEF shards
<1>14. Len(q) = a + b * p
  <2>1. PICK v \in Seq([symbol : S, stream : Texts]) : v = Subscriptions(mine, per) /\ Len(v) = b * p
    <3>1. Subscriptions(mine, per) \in Seq([symbol : S, stream : Texts])
      BY SubscriptionType
    <3>2. Len(Subscriptions(mine, per)) = Len(mine) * Len(per)
      BY SubscriptionType
    <3>3. QED
      BY <1>5, <1>9, <3>1, <3>2, Zenon
  <2>2. Len(u \o v) = Len(u) + Len(v)
    <3>1. PICK x \in Seq([symbol : {None}, stream : Texts]) : x = u
      OBVIOUS
    <3>2. QED
      OBVIOUS
  <2>3. QED
    BY <1>12, <1>13, <2>1, <2>2
<1>15. OwnStreams(q) = Items(per)
  <2>1. mine # <<>>
    BY <1>9
  <2>2. OwnStreams(u \o Subscriptions(mine, per)) = Items(per)
    <3>1. u \in Seq(Bare(Texts))
      BY DEF Bare
    <3>2. QED
      BY <2>1, <3>1, OwnStreamsFacts
  <2>3. QED
    BY <1>13, <2>2
<1>16. Cardinality(Items(per)) = p
  BY <1>4, <1>5, DistinctLength
<1>17. QED
  BY <1>11, <1>14, <1>15, <1>16

-----------------------------------------------------------------------------
(* Lists of lists.                                                         *)

\* One list after another.
LEMMA OnceConcat ==
    ASSUME NEW R, NEW u \in Seq(Seq(R)), NEW v \in Seq(Seq(R)), NEW X, NEW Y, X \cap Y = {},
           Once(u, Len(u), X), Once(v, Len(v), Y)
    PROVE  Once(u \o v, Len(u \o v), X \cup Y)
<1>1. PICK a \in Nat : a = Len(u)
  OBVIOUS
<1>2. PICK c \in Nat : c = Len(v)
  OBVIOUS
<1>3. PICK w \in Seq(Seq(R)) : w = u \o v
  <2>1. PICK S : S = Seq(R)
    OBVIOUS
  <2>2. u \o v \in Seq(S)
    BY <2>1
  <2>3. QED
    BY <2>1, <2>2, Zenon
<1>4. Len(w) = a + c /\ (\A k \in 1..a : w[k] = u[k]) /\ (\A k \in 1..c : w[a + k] = v[k])
  BY <1>1, <1>2, <1>3, JoinedPositions
<1>5. ASSUME NEW i \in 1..(a + c), NEW k \in 1..Len(w[i])
      PROVE  \/ i \in 1..a /\ k \in 1..Len(u[i]) /\ w[i][k] = u[i][k] /\ w[i][k] \in X
             \/ /\ i - a \in 1..c /\ k \in 1..Len(v[i - a])
                /\ w[i][k] = v[i - a][k] /\ w[i][k] \in Y
  <2>1. CASE i \in 1..a
    <3>1. w[i] = u[i]
      BY <1>4, <2>1
    <3>2. \A x \in 1..a : \A y \in 1..Len(u[x]) : u[x][y] \in X
      BY <1>1 DEF Once
    <3>3. QED
      BY <2>1, <3>1, <3>2
  <2>2. CASE i \notin 1..a
    <3>1. i - a \in 1..c /\ i = a + (i - a)
      BY <2>2, TwoParts, Zenon
    <3>2. PICK j \in 1..c : j = i - a /\ i = a + j
      BY <3>1
    <3>3. w[i] = v[j]
      BY <1>4, <3>2
    <3>4. \A x \in 1..c : \A y \in 1..Len(v[x]) : v[x][y] \in Y
      BY <1>2 DEF Once
    <3>5. QED
      BY <3>2, <3>3, <3>4
  <2>3. QED
    BY <2>1, <2>2
<1>6. ASSUME NEW x \in X \cup Y
      PROVE  \E i \in 1..(a + c) : \E k \in 1..Len(w[i]) : w[i][k] = x
  <2>1. CASE x \in X
    <3>1. PICK i \in 1..a : \E k \in 1..Len(u[i]) : u[i][k] = x
      BY <1>1, <2>1 DEF Once
    <3>2. i \in 1..(a + c) /\ w[i] = u[i]
      BY <1>4
    <3>3. QED
      BY <3>1, <3>2
  <2>2. CASE x \in Y
    <3>1. PICK i \in 1..c : \E k \in 1..Len(v[i]) : v[i][k] = x
      BY <1>2, <2>2 DEF Once
    <3>2. a + i \in 1..(a + c) /\ w[a + i] = v[i]
      BY <1>4
    <3>3. QED
      BY <3>1, <3>2
  <2>3. QED
    BY <2>1, <2>2
<1>7. ASSUME NEW i \in 1..(a + c), NEW j \in 1..(a + c),
             NEW k \in 1..Len(w[i]), NEW m \in 1..Len(w[j]), w[i][k] = w[j][m]
      PROVE  i = j /\ k = m
  <2>1. CASE w[i][k] \in X
    <3>1. w[i][k] \notin Y /\ w[j][m] \notin Y
      BY <1>7, <2>1
    <3>2. i \in 1..a /\ k \in 1..Len(u[i]) /\ w[i][k] = u[i][k]
      BY <1>5, <3>1
    <3>3. j \in 1..a /\ m \in 1..Len(u[j]) /\ w[j][m] = u[j][m]
      BY <1>5, <3>1
    <3>4. u[i][k] = u[j][m]
      BY <1>7, <3>2, <3>3
    <3>5. QED
      BY <1>1, <3>2, <3>3, <3>4 DEF Once
  <2>2. CASE w[i][k] \notin X
    <3>1. w[j][m] \notin X
      BY <1>7, <2>2
    <3>2. i - a \in 1..c /\ k \in 1..Len(v[i - a]) /\ w[i][k] = v[i - a][k]
      BY <1>5, <2>2
    <3>3. j - a \in 1..c /\ m \in 1..Len(v[j - a]) /\ w[j][m] = v[j - a][m]
      BY <1>5, <3>1
    <3>4. PICK x \in 1..c : x = i - a
      BY <3>2
    <3>5. PICK y \in 1..c : y = j - a
      BY <3>3
    <3>6. v[x][k] = v[y][m] /\ k \in 1..Len(v[x]) /\ m \in 1..Len(v[y])
      BY <1>7, <3>2, <3>3, <3>4, <3>5
    <3>7. x = y /\ k = m
      BY <1>2, <3>6 DEF Once
    <3>8. QED
      BY <3>4, <3>5, <3>7
  <2>3. QED
    BY <2>1, <2>2
<1>8. ASSUME NEW i \in 1..(a + c), NEW k \in 1..Len(w[i]) PROVE w[i][k] \in X \cup Y
  BY <1>5
<1>9. Once(w, a + c, X \cup Y)
  BY <1>6, <1>7, <1>8, Zenon DEF Once
<1>10. QED
  BY <1>3, <1>4, <1>9

\* Two lists without repetition that have no item in common.
LEMMA DistinctConcat ==
    ASSUME NEW R, NEW a \in Seq(R), NEW b \in Seq(R)
    PROVE  /\ Items(a \o b) = Items(a) \cup Items(b)
           /\ Distinct(a) /\ Distinct(b) /\ Items(a) \cap Items(b) = {} => Distinct(a \o b)
<1>1. PICK x \in Nat : x = Len(a)
  OBVIOUS
<1>2. PICK y \in Nat : y = Len(b)
  OBVIOUS
<1>3. PICK c \in Seq(R) : c = a \o b
  <2>1. a \o b \in Seq(R)
    OBVIOUS
  <2>2. QED
    BY <2>1, Zenon
<1>4. Len(c) = x + y /\ (\A k \in 1..x : c[k] = a[k]) /\ (\A k \in 1..y : c[x + k] = b[k])
  BY <1>1, <1>2, <1>3, JoinedPositions
<1>5. ASSUME NEW k \in 1..(x + y)
      PROVE  (k \in 1..x /\ c[k] = a[k]) \/ (k - x \in 1..y /\ c[k] = b[k - x])
  <2>1. CASE k \in 1..x
    BY <1>4, <2>1
  <2>2. CASE k \notin 1..x
    <3>1. k - x \in 1..y /\ k = x + (k - x)
      BY <2>2, TwoParts, Zenon
    <3>2. PICK j \in 1..y : j = k - x /\ k = x + j
      BY <3>1
    <3>3. QED
      BY <1>4, <3>2
  <2>3. QED
    BY <2>1, <2>2
<1>6. Items(c) \subseteq Items(a) \cup Items(b)
  <2>1. SUFFICES ASSUME NEW k \in 1..(x + y) PROVE c[k] \in Items(a) \cup Items(b)
    BY <1>4 DEF Items
  <2>2. CASE k \in 1..x /\ c[k] = a[k]
    BY <1>1, <2>2 DEF Items
  <2>3. CASE k - x \in 1..y /\ c[k] = b[k - x]
    BY <1>2, <2>3 DEF Items
  <2>4. QED
    BY <1>5, <2>2, <2>3
<1>7. Items(a) \subseteq Items(c)
  <2>1. \A k \in 1..x : k \in 1..(x + y)
    OBVIOUS
  <2>2. QED
    BY <1>1, <1>4, <2>1 DEF Items
<1>8. Items(b) \subseteq Items(c)
  <2>1. \A k \in 1..y : x + k \in 1..(x + y)
    OBVIOUS
  <2>2. QED
    BY <1>2, <1>4, <2>1 DEF Items
<1>9. ASSUME Distinct(a), Distinct(b), Items(a) \cap Items(b) = {} PROVE Distinct(c)
  <2>1. SUFFICES ASSUME NEW k \in 1..(x + y), NEW m \in 1..(x + y), c[k] = c[m] PROVE k = m
    BY <1>4 DEF Distinct
  <2>2. CASE k \in 1..x /\ c[k] = a[k] /\ m \in 1..x /\ c[m] = a[m]
    BY <1>1, <1>9, <2>1, <2>2 DEF Distinct
  <2>3. CASE k - x \in 1..y /\ c[k] = b[k - x] /\ m - x \in 1..y /\ c[m] = b[m - x]
    <3>1. PICK i \in 1..y : i = k - x
      BY <2>3
    <3>2. PICK j \in 1..y : j = m - x
      BY <2>3
    <3>3. i = j
      BY <1>2, <1>9, <2>1, <2>3, <3>1, <3>2 DEF Distinct
    <3>4. QED
      BY <3>1, <3>2, <3>3
  <2>4. ASSUME NEW i \in 1..x, NEW j \in 1..y PROVE a[i] # b[j]
    BY <1>1, <1>2, <1>9 DEF Items
  <2>5. QED
    BY <1>5, <2>1, <2>2, <2>3, <2>4
<1>10. QED
  BY <1>3, <1>6, <1>7, <1>8, <1>9

\* What the lists hold, and that no item is in two places of them.
Contents(plan) == UNION {Items(plan[i]) : i \in 1..Len(plan)}
Apart(plan) ==
    \A i, j \in 1..Len(plan) : \A k \in 1..Len(plan[i]) : \A m \in 1..Len(plan[j]) :
        plan[i][k] = plan[j][m] => i = j /\ k = m

FlattensWell(plan) ==
    Items(FlattenSeq(plan)) = Contents(plan) /\ (Apart(plan) => Distinct(FlattenSeq(plan)))

LEMMA FlattensNext ==
    ASSUME NEW R, NEW plan \in Seq(Seq(R)), NEW x \in Seq(R), FlattensWell(plan)
    PROVE  FlattensWell(Append(plan, x))
<1>1. PICK n \in Nat : n = Len(plan)
  OBVIOUS
<1>2. PICK more \in Seq(Seq(R)) : more = Append(plan, x) /\ Len(more) = n + 1 /\ more[n + 1] = x
        /\ \A i \in 1..n : more[i] = plan[i]
  <2>1. Append(plan, x) \in Seq(Seq(R)) /\ IsAppended(Append(plan, x), plan, x, n)
    BY <1>1 DEF IsAppended
  <2>2. QED
    BY <2>1, Zenon DEF IsAppended
<1>3. PICK flat \in Seq(R) : flat = FlattenSeq(plan)
  BY FlattenType
<1>4. FlattenSeq(more) = flat \o x
  BY <1>2, <1>3, FlattenAppend
<1>5. Items(flat \o x) = Items(flat) \cup Items(x)
  BY DistinctConcat
<1>6. Contents(more) = Contents(plan) \cup Items(x)
  <2>1. \A i \in 1..(n + 1) : i \in 1..n \/ i = n + 1
    OBVIOUS
  <2>2. n + 1 \in 1..(n + 1) /\ \A i \in 1..n : i \in 1..(n + 1)
    OBVIOUS
  <2>3. \A i \in 1..n : Items(more[i]) = Items(plan[i])
    BY <1>2
  <2>4. Items(more[n + 1]) = Items(x)
    BY <1>2
  <2>5. QED
    BY <1>1, <1>2, <2>1, <2>2, <2>3, <2>4 DEF Contents
<1>7. ASSUME Apart(more) PROVE Distinct(flat \o x)
  <2>1. Apart(plan)
    <3>1. \A i \in 1..n : i \in 1..(n + 1)
      OBVIOUS
    <3>2. QED
      BY <1>1, <1>2, <1>7, <3>1 DEF Apart
  <2>2. Distinct(x)
    <3>1. n + 1 \in 1..(n + 1)
      OBVIOUS
    <3>2. QED
      BY <1>2, <1>7, <3>1 DEF Apart, Distinct
  <2>3. Items(flat) \cap Items(x) = {}
    <3>1. SUFFICES ASSUME NEW s \in Contents(plan), s \in Items(x) PROVE FALSE
      BY <1>3 DEF FlattensWell
    <3>2. PICK i \in 1..n : s \in Items(plan[i])
      BY <1>1 DEF Contents
    <3>3. PICK k \in 1..Len(plan[i]) : plan[i][k] = s
      BY <3>2 DEF Items
    <3>4. PICK m \in 1..Len(x) : x[m] = s
      BY <3>1 DEF Items
    <3>5. i \in 1..(n + 1) /\ n + 1 \in 1..(n + 1) /\ i # n + 1
      OBVIOUS
    <3>6. more[i] = plan[i]
      BY <1>2
    <3>7. more[i][k] = more[n + 1][m] /\ k \in 1..Len(more[i]) /\ m \in 1..Len(more[n + 1])
      BY <1>2, <3>3, <3>4, <3>6
    <3>8. QED
      BY <1>2, <1>7, <3>5, <3>7 DEF Apart
  <2>4. Distinct(flat)
    BY <1>3, <2>1 DEF FlattensWell
  <2>5. QED
    BY <2>2, <2>3, <2>4, DistinctConcat
<1>8. Items(flat) = Contents(plan)
  BY <1>3 DEF FlattensWell
<1>9. FlattensWell(more)
  BY <1>4, <1>5, <1>6, <1>7, <1>8 DEF FlattensWell
<1>10. QED
  BY <1>2, <1>9

LEMMA FlattensAlways == ASSUME NEW R, NEW plan \in Seq(Seq(R)) PROVE FlattensWell(plan)
<1> DEFINE A == {q \in Seq(Seq(R)) : FlattensWell(q)}
<1>1. <<>> \in A
  <2>1. <<>> \in Seq(Seq(R)) /\ Len(<<>>) = 0
    OBVIOUS
  <2>2. Items(<<>>) = {} /\ Distinct(<<>>) /\ Contents(<<>>) = {}
    BY <2>1 DEF Items, Distinct, Contents
  <2>3. QED
    BY <2>1, <2>2, FlattenEmpty DEF FlattensWell
<1>2. ASSUME NEW q \in Seq(Seq(R)), NEW x \in Seq(R), q \in A PROVE Append(q, x) \in A
  <2>1. FlattensWell(Append(q, x))
    BY <1>2, FlattensNext
  <2>2. Append(q, x) \in Seq(Seq(R))
    OBVIOUS
  <2>3. QED
    BY <2>1, <2>2
<1>3. \A q \in Seq(Seq(R)) : q \in A
  <2> HIDE DEF A
  <2>1. QED
    BY <1>1, <1>2, EverySequence
<1>4. QED
  BY <1>3

\* The lists one after the other name every wanted item once.
LEMMA OnceFlattened ==
    ASSUME NEW R, NEW plan \in Seq(Seq(R)), NEW wanted, Once(plan, Len(plan), wanted)
    PROVE  /\ FlattenSeq(plan) \in Seq(R) /\ Range(FlattenSeq(plan)) = wanted
           /\ Len(FlattenSeq(plan)) = Cardinality(wanted)
<1>1. PICK flat \in Seq(R) : flat = FlattenSeq(plan)
  BY FlattenType
<1>2. Apart(plan)
  BY DEF Once, Apart
<1>3. Contents(plan) = wanted
  <2>1. ASSUME NEW x \in Contents(plan) PROVE x \in wanted
    <3>1. PICK i \in 1..Len(plan) : x \in Items(plan[i])
      BY DEF Contents
    <3>2. PICK k \in 1..Len(plan[i]) : x = plan[i][k]
      BY <3>1 DEF Items
    <3>3. QED
      BY <3>2 DEF Once
  <2>2. ASSUME NEW x \in wanted PROVE x \in Contents(plan)
    <3>1. PICK i \in 1..Len(plan) : \E k \in 1..Len(plan[i]) : plan[i][k] = x
      BY DEF Once
    <3>2. x \in Items(plan[i])
      BY <3>1 DEF Items
    <3>3. QED
      BY <3>2 DEF Contents
  <2>3. QED
    BY <2>1, <2>2
<1>4. Items(flat) = wanted /\ Distinct(flat)
  <2>1. FlattensWell(plan)
    BY FlattensAlways
  <2>2. QED
    BY <1>1, <1>2, <1>3, <2>1 DEF FlattensWell
<1>5. Cardinality(Items(flat)) = Len(flat)
  BY <1>4, DistinctLength
<1>6. Range(flat) = Items(flat)
  BY DEF Range, Items
<1>7. QED
  BY <1>1, <1>4, <1>5, <1>6

-----------------------------------------------------------------------------
(* The connections of a dataset.                                           *)

Instruments == {ALL} \cup Nat
Conns == [market : Range(Markets), group : Texts, streams : Seq(Subs(Instruments, Texts))]

\* The lists of a market's connections, and an empty list for every other.
Plan(conns, m) == [i \in DOMAIN conns |-> IF conns[i].market = m THEN conns[i].streams ELSE <<>>]

\* No connection has more than the streams of one symbol above its limit.
Fits(conn) == Len(conn.streams) <= Limit(conn) + Cardinality(OwnStreams(conn.streams))

IsPlan(conns, m) ==
    /\ Plan(conns, m) \in Seq(Seq(Subs(Instruments, Texts))) /\ Len(Plan(conns, m)) = Len(conns)
    /\ \A i \in 1..Len(conns) :
         Plan(conns, m)[i] = IF conns[i].market = m THEN conns[i].streams ELSE <<>>

LEMMA PlanType == ASSUME NEW conns \in Seq(Conns), NEW m PROVE IsPlan(conns, m)
<1>1. PICK n \in Nat : n = Len(conns) /\ DOMAIN conns = 1..n
  OBVIOUS
<1>2. PICK L : L = Seq(Subs(Instruments, Texts))
  OBVIOUS
<1>3. \A i \in 1..n : conns[i].streams \in L
  <2>1. \A i \in 1..n : conns[i] \in Conns
    BY <1>1
  <2>2. \A x \in Conns : x.streams \in L
    BY <1>2 DEF Conns
  <2>3. QED
    BY <2>1, <2>2
<1>4. <<>> \in L
  BY <1>2
<1>5. PICK q : q = Plan(conns, m)
  OBVIOUS
<1>6. q = [i \in 1..n |-> IF conns[i].market = m THEN conns[i].streams ELSE <<>>]
  BY <1>1, <1>5 DEF Plan
<1>7. q \in [1..n -> L]
  BY <1>3, <1>4, <1>6
<1>8. q \in Seq(L) /\ Len(q) = n
  BY <1>7
<1>9. QED
  BY <1>1, <1>2, <1>5, <1>6, <1>8 DEF IsPlan

LEMMA PlanConcat ==
    ASSUME NEW a \in Seq(Conns), NEW b \in Seq(Conns), NEW m
    PROVE  Plan(a \o b, m) = Plan(a, m) \o Plan(b, m)
<1>1. PICK x \in Nat : x = Len(a)
  OBVIOUS
<1>2. PICK y \in Nat : y = Len(b)
  OBVIOUS
<1>3. PICK c \in Seq(Conns) : c = a \o b
  <2>1. a \o b \in Seq(Conns)
    OBVIOUS
  <2>2. QED
    BY <2>1, Zenon
<1>4. Len(c) = x + y /\ (\A k \in 1..x : c[k] = a[k]) /\ (\A k \in 1..y : c[x + k] = b[k])
  BY <1>1, <1>2, <1>3, JoinedPositions
<1>5. PICK L : L = Seq(Subs(Instruments, Texts))
  OBVIOUS
<1>6. PICK p \in Seq(L) : p = Plan(a, m) /\ Len(p) = x
        /\ \A i \in 1..x : p[i] = IF a[i].market = m THEN a[i].streams ELSE <<>>
  <2>1. IsPlan(a, m)
    BY PlanType
  <2>2. QED
    BY <1>1, <1>5, <2>1, Zenon DEF IsPlan
<1>7. PICK q \in Seq(L) : q = Plan(b, m) /\ Len(q) = y
        /\ \A i \in 1..y : q[i] = IF b[i].market = m THEN b[i].streams ELSE <<>>
  <2>1. IsPlan(b, m)
    BY PlanType
  <2>2. QED
    BY <1>2, <1>5, <2>1, Zenon DEF IsPlan
<1>8. PICK r \in Seq(L) : r = Plan(c, m) /\ Len(r) = x + y
        /\ \A i \in 1..(x + y) : r[i] = IF c[i].market = m THEN c[i].streams ELSE <<>>
  <2>1. IsPlan(c, m)
    BY PlanType
  <2>2. QED
    BY <1>4, <1>5, <2>1, Zenon DEF IsPlan
<1>9. PICK s \in Seq(L) : s = p \o q
  <2>1. p \o q \in Seq(L)
    OBVIOUS
  <2>2. QED
    BY <2>1, Zenon
<1>10. Len(s) = x + y /\ (\A k \in 1..x : s[k] = p[k]) /\ (\A k \in 1..y : s[x + k] = q[k])
  <2>1. /\ Len(p \o q) = Len(p) + Len(q)
        /\ \A k \in 1..Len(p) : (p \o q)[k] = p[k]
        /\ \A k \in 1..Len(q) : (p \o q)[Len(p) + k] = q[k]
    BY JoinedPositions
  <2>2. QED
    BY <1>6, <1>7, <1>9, <2>1
<1>11. ASSUME NEW i \in 1..(x + y) PROVE r[i] = s[i]
  <2>1. CASE i \in 1..x
    <3>1. c[i] = a[i] /\ s[i] = p[i]
      BY <1>4, <1>10, <2>1
    <3>2. QED
      BY <1>6, <1>8, <2>1, <3>1
  <2>2. CASE i \notin 1..x
    <3>1. PICK j \in 1..y : i = x + j
      <4>1. i - x \in 1..y /\ i = x + (i - x)
        BY <2>2, TwoParts, Zenon
      <4>2. QED
        BY <4>1
    <3>2. c[i] = b[j] /\ s[i] = q[j]
      BY <1>4, <1>10, <3>1
    <3>3. QED
      BY <1>7, <1>8, <3>2
  <2>3. QED
    BY <2>1, <2>2
<1>12. r = s
  BY <1>8, <1>10, <1>11
<1>13. QED
  BY <1>3, <1>6, <1>7, <1>8, <1>9, <1>12

LEMMA OncePointwise ==
    ASSUME NEW u, NEW v, NEW n, NEW wanted, Once(u, n, wanted), \A i \in 1..n : v[i] = u[i]
    PROVE  Once(v, n, wanted)
<1>1. ASSUME NEW w \in wanted PROVE \E i \in 1..n : \E k \in 1..Len(v[i]) : v[i][k] = w
  BY DEF Once
<1>2. ASSUME NEW i \in 1..n, NEW k \in 1..Len(v[i]) PROVE v[i][k] \in wanted
  BY DEF Once
<1>3. ASSUME NEW i \in 1..n, NEW j \in 1..n, NEW k \in 1..Len(v[i]), NEW m \in 1..Len(v[j]), v[i][k] = v[j][m]
      PROVE  i = j /\ k = m
  BY <1>3 DEF Once
<1>4. QED
  BY <1>1, <1>2, <1>3 DEF Once

\* Connections of other markets hold nothing of this one.
LEMMA OtherMarkets ==
    ASSUME NEW conns \in Seq(Conns), NEW m, \A i \in 1..Len(conns) : conns[i].market # m
    PROVE  Once(Plan(conns, m), Len(conns), {})
<1>1. \A i \in 1..Len(conns) : Plan(conns, m)[i] = <<>>
  BY PlanType DEF IsPlan
<1>2. Len(<<>>) = 0
  OBVIOUS
<1>3. \A i \in 1..Len(conns) : Len(Plan(conns, m)[i]) = 0
  BY <1>1, <1>2
<1>4. \A i \in 1..Len(conns) : 1..Len(Plan(conns, m)[i]) = {}
  BY <1>3
<1>5. QED
  BY <1>4 DEF Once

\* Connections of one market that together subscribe to what is wanted.
AreOpened(conns, m, wanted) ==
    /\ conns \in Seq(Conns)
    /\ \A i \in 1..Len(conns) : conns[i].market = m /\ Fits(conns[i])
    /\ Once(Plan(conns, m), Len(conns), wanted)

LEMMA OpenedConcat ==
    ASSUME NEW a, NEW b, NEW m, NEW X, NEW Y, X \cap Y = {}, AreOpened(a, m, X), AreOpened(b, m, Y)
    PROVE  AreOpened(a \o b, m, X \cup Y)
<1>1. PICK p \in Seq(Conns) : p = a /\ \A i \in 1..Len(p) : p[i].market = m /\ Fits(p[i])
  BY DEF AreOpened
<1>2. PICK q \in Seq(Conns) : q = b /\ \A i \in 1..Len(q) : q[i].market = m /\ Fits(q[i])
  BY DEF AreOpened
<1>3. PICK r \in Seq(Conns) : r = p \o q
  <2>1. p \o q \in Seq(Conns)
    OBVIOUS
  <2>2. QED
    BY <2>1, Zenon
<1>4. PICK x \in Nat : x = Len(p)
  OBVIOUS
<1>5. PICK y \in Nat : y = Len(q)
  OBVIOUS
<1>6. Len(r) = x + y /\ (\A k \in 1..x : r[k] = p[k]) /\ (\A k \in 1..y : r[x + k] = q[k])
  BY <1>3, <1>4, <1>5, JoinedPositions
<1>7. ASSUME NEW i \in 1..Len(r) PROVE r[i].market = m /\ Fits(r[i])
  <2>1. CASE i \in 1..x
    <3>1. r[i] = p[i] /\ i \in 1..Len(p)
      BY <1>4, <1>6, <2>1
    <3>2. QED
      BY <1>1, <3>1
  <2>2. CASE i \notin 1..x
    <3>1. PICK j \in 1..y : i = x + j
      <4>0. i \in 1..(x + y)
        BY <1>6
      <4>1. i - x \in 1..y /\ i = x + (i - x)
        BY <2>2, <4>0, TwoParts, Zenon
      <4>2. QED
        BY <4>1
    <3>2. r[i] = q[j] /\ j \in 1..Len(q)
      BY <1>5, <1>6, <3>1
    <3>3. QED
      BY <1>2, <3>2
  <2>3. QED
    BY <2>1, <2>2
<1>8. PICK S : S = Subs(Instruments, Texts)
  OBVIOUS
<1>9. PICK u \in Seq(Seq(S)) : u = Plan(p, m) /\ Len(u) = x /\ Once(u, x, X)
  <2>1. IsPlan(p, m)
    BY PlanType
  <2>2. QED
    BY <1>1, <1>4, <1>8, <2>1, Zenon DEF IsPlan, AreOpened
<1>10. PICK v \in Seq(Seq(S)) : v = Plan(q, m) /\ Len(v) = y /\ Once(v, y, Y)
  <2>1. IsPlan(q, m)
    BY PlanType
  <2>2. QED
    BY <1>2, <1>5, <1>8, <2>1, Zenon DEF IsPlan, AreOpened
<1>11. Plan(r, m) = u \o v
  <2>1. Plan(p \o q, m) = Plan(p, m) \o Plan(q, m)
    BY PlanConcat
  <2>2. QED
    BY <1>3, <1>9, <1>10, <2>1
<1>12. Once(u \o v, Len(u \o v), X \cup Y)
  BY <1>9, <1>10, OnceConcat
<1>13. Len(u \o v) = Len(r)
  <2>1. IsPlan(r, m)
    BY PlanType
  <2>2. QED
    BY <1>11, <2>1 DEF IsPlan
<1>14. Once(Plan(r, m), Len(r), X \cup Y)
  BY <1>11, <1>12, <1>13
<1>15. AreOpened(r, m, X \cup Y)
  BY <1>7, <1>14 DEF AreOpened
<1>16. QED
  BY <1>1, <1>2, <1>3, <1>15

\* The connections of one endpoint.
Opened(m, group, pairs, count) ==
    [i \in 1..count |-> [market |-> m, group |-> group.name, streams |-> shards(pairs, group.streams, count)[i]]]

LEMMA OpenedFacts ==
    ASSUME NEW c, c.exchange = "binance", c.market \in Range(Markets), None \notin Instruments,
           NEW pairs \in Seq(Instruments), Distinct(pairs), pairs # <<>>,
           NEW group \in Groups, Distinct(group.streams),
           c.market = "usdm" /\ group.name = "public" => Items(group.streams) \subseteq PublicStreams,
           NEW count \in 1..Len(pairs),
           IsEnough(count, Len(pairs), Load(Len(pairs), group), stream_limit(c, group))
    PROVE  AreOpened(Opened(c.market, group, pairs, count), c.market, Wanted(pairs, group.streams))
<1>1. PICK all \in Seq(Texts) : all = group.streams /\ Distinct(all)
  BY DEF Groups
<1>2. PICK plan : plan = shards(pairs, all, count)
  OBVIOUS
<1>c. count \in Nat \ {0} /\ count \in Nat
  <2>1. Len(pairs) \in Nat
    OBVIOUS
  <2>2. QED
    BY <2>1
<1>3. PICK S : S = Subs(Instruments, Texts)
  OBVIOUS
<1>4. ASSUME NEW i \in 1..count PROVE plan[i] \in Seq(S)
  <2>1. IsShard(plan[i], i, pairs, all, count, Instruments, Texts)
    BY <1>1, <1>2, <1>c, ShardParts
  <2>2. QED
    BY <1>3, <2>1, Zenon DEF IsShard
<1>5. PICK conns : conns = Opened(c.market, group, pairs, count)
  OBVIOUS
<1>6. conns = [i \in 1..count |-> [market |-> c.market, group |-> group.name, streams |-> plan[i]]]
  BY <1>1, <1>2, <1>5 DEF Opened
<1>7. conns \in Seq(Conns) /\ Len(conns) = count
  <2>1. group.name \in Texts
    BY DEF Groups
  <2>2. \A i \in 1..count : [market |-> c.market, group |-> group.name, streams |-> plan[i]] \in Conns
    BY <1>3, <1>4, <2>1 DEF Conns
  <2>3. conns \in [1..count -> Conns]
    BY <1>6, <2>2
  <2>4. QED
    BY <1>c, <2>3
<1>8. \A i \in 1..count : conns[i].market = c.market /\ conns[i].group = group.name /\ conns[i].streams = plan[i]
  BY <1>6
<1>9. ASSUME NEW i \in 1..count PROVE Fits(conns[i])
  <2>1. PICK limit \in Nat : limit = stream_limit(c, group) /\ Globals(group) <= limit
    <3>1. stream_limit(c, group) \in Nat
      BY GroupNumbers
    <3>2. Globals(group) <= stream_limit(c, group)
      BY GlobalsFit
    <3>3. QED
      BY <3>1, <3>2
  <2>2. Limit(conns[i]) = limit
    BY <1>8, <2>1 DEF Limit, stream_limit
  <2>3. PICK q : q = plan[i]
    OBVIOUS
  <2>4. Len(q) <= limit + Cardinality(OwnStreams(q))
    <3>1. q = shards(pairs, group.streams, count)[i]
      BY <1>1, <1>2, <2>3
    <3>2. IsEnough(count, Len(pairs), Load(Len(pairs), group), limit)
      BY <2>1
    <3>3. QED
      BY <2>1, <3>1, <3>2, ShardLoad
  <2>5. QED
    BY <1>8, <2>2, <2>3, <2>4 DEF Fits
<1>10. Once(Plan(conns, c.market), count, Wanted(pairs, all))
  <2>1. Once(plan, count, Wanted(pairs, all))
    BY <1>1, <1>2, <1>c, ShardsSubscribeOnce
  <2>2. \A i \in 1..count : Plan(conns, c.market)[i] = plan[i]
    BY <1>7, <1>8, PlanType DEF IsPlan
  <2>3. QED
    BY <2>1, <2>2, OncePointwise
<1>11. AreOpened(conns, c.market, Wanted(pairs, all))
  BY <1>7, <1>8, <1>9, <1>10 DEF AreOpened
<1>12. QED
  BY <1>1, <1>5, <1>11

\* What is wanted of the endpoints together is what is wanted of the dataset.
SplitsWanted(pairs, all, p, q) ==
    /\ Wanted(pairs, p) \cup Wanted(pairs, q) = Wanted(pairs, all)
    /\ Wanted(pairs, p) \cap Wanted(pairs, q) = {}

LEMMA WantedSplits ==
    ASSUME NEW pairs \in Seq(Instruments), None \notin Instruments, NEW all, NEW p, NEW q,
           Items(p) \cup Items(q) = Items(all), Items(p) \cap Items(q) = {}
    PROVE  SplitsWanted(pairs, all, p, q)
<1>1. PICK A : A = Items(p)
  OBVIOUS
<1>2. PICK B : B = Items(q)
  OBVIOUS
<1>3. PICK I : I = Items(pairs)
  OBVIOUS
<1>4. None \notin I
  <2>1. \A n \in 1..Len(pairs) : pairs[n] \in Instruments
    OBVIOUS
  <2>2. QED
    BY <1>3, <2>1 DEF Items
<1>5. Items(all) = A \cup B /\ A \cap B = {}
  BY <1>1, <1>2
<1>6. PICK P : P = [symbol : {None}, stream : A \cap GlobalStreams] \cup [symbol : I, stream : A \ GlobalStreams]
  OBVIOUS
<1>7. PICK Q : Q = [symbol : {None}, stream : B \cap GlobalStreams] \cup [symbol : I, stream : B \ GlobalStreams]
  OBVIOUS
<1>8. PICK W : W = [symbol : {None}, stream : (A \cup B) \cap GlobalStreams]
                   \cup [symbol : I, stream : (A \cup B) \ GlobalStreams]
  OBVIOUS
<1>9. P \cup Q = W
  BY <1>6, <1>7, <1>8
<1>10. P \cap Q = {}
  <2>1. (\A x \in P : x.stream \in A) /\ (\A x \in Q : x.stream \in B)
    BY <1>6, <1>7
  <2>2. QED
    BY <1>5, <2>1
<1>11. P = Wanted(pairs, p) /\ Q = Wanted(pairs, q) /\ W = Wanted(pairs, all)
  BY <1>1, <1>2, <1>3, <1>5, <1>6, <1>7, <1>8 DEF Wanted
<1>12. QED
  BY <1>9, <1>10, <1>11 DEF SplitsWanted

\* All connections that start_dataset opens.
Added(c, pairs, groups, counts) ==
    FlattenSeq([g \in DOMAIN groups |-> Opened(c.market, groups[g], pairs, counts[g])])

LEMMA FlattenedPair ==
    ASSUME NEW T, NEW a \in Seq(T), NEW b \in Seq(T)
    PROVE  FlattenSeq(<<a>>) = a /\ FlattenSeq(<<a, b>>) = a \o b
<1>1. PICK L : L = Seq(T)
  OBVIOUS
<1>2. <<>> \in Seq(L) /\ <<a>> \in Seq(L) /\ <<a>> = Append(<<>>, a) /\ <<a, b>> = Append(<<a>>, b)
  BY <1>1
<1>3. FlattenSeq(Append(<<>>, a)) = FlattenSeq(<<>>) \o a
  BY <1>1, <1>2, FlattenAppend
<1>4. FlattenSeq(<<a>>) = a
  BY <1>2, <1>3, FlattenEmpty, ConcatEmpty
<1>5. FlattenSeq(Append(<<a>>, b)) = FlattenSeq(<<a>>) \o b
  BY <1>1, <1>2, FlattenAppend
<1>6. QED
  BY <1>2, <1>4, <1>5

\* However the streams are grouped and counted: the connections that are opened for a dataset
\* subscribe to what is wanted of it, once, and fit.
LEMMA AddedFacts ==
    ASSUME NEW c, c.exchange = "binance", c.market \in Range(Markets), c.ws_connections \in Nat,
           c.streams \in {None} \cup Seq(STRING), streams(c) # <<>>, None \notin Instruments,
           NEW pairs \in Seq(Instruments), Distinct(pairs), pairs # <<>>,
           NEW groups, groups = stream_groups(c),
           NEW counts, counts = connection_counts(c, groups, Len(pairs))
    PROVE  AreOpened(Added(c, pairs, groups, counts), c.market, Wanted(pairs, streams(c)))
<1>1. PICK n \in Nat \ {0} : n = Len(pairs)
  OBVIOUS
<1>2. AreGroups(groups) /\ SharedOut(groups, streams(c)) /\ PublicOnly(c, groups)
  BY GroupFacts DEF AreEndpoints
<1>3. PICK m \in Nat : m = Len(groups) /\ DOMAIN groups = 1..m
  BY <1>2 DEF AreGroups
<1>4. /\ counts \in [1..m -> 1..n]
      /\ \A g \in 1..m : IsEnough(counts[g], n, Load(n, groups[g]), stream_limit(c, groups[g]))
  BY <1>1, <1>2, <1>3, CountsFacts
<1>5. ASSUME NEW g \in 1..m
      PROVE  AreOpened(Opened(c.market, groups[g], pairs, counts[g]), c.market, Wanted(pairs, groups[g].streams))
  <2>1. PICK group \in Groups : group = groups[g] /\ Distinct(group.streams)
    BY <1>2, <1>3 DEF AreGroups
  <2>2. PICK count \in 1..n : count = counts[g]
    BY <1>4
  <2>3. IsEnough(count, n, Load(n, group), stream_limit(c, group))
    BY <1>4, <2>1, <2>2
  <2>4. c.market = "usdm" /\ group.name = "public" => Items(group.streams) \subseteq PublicStreams
    BY <1>2, <1>3, <2>1 DEF PublicOnly
  <2>5. AreOpened(Opened(c.market, group, pairs, count), c.market, Wanted(pairs, group.streams))
    BY <1>1, <2>1, <2>3, <2>4, OpenedFacts
  <2>6. QED
    BY <2>1, <2>2, <2>5
<1>6. PICK lists : lists = [g \in 1..m |-> Opened(c.market, groups[g], pairs, counts[g])]
  OBVIOUS
<1>7. Added(c, pairs, groups, counts) = FlattenSeq(lists)
  BY <1>3, <1>6 DEF Added
<1>8. CASE m = 1
  <2>1. PICK a \in Seq(Conns) : a = lists[1] /\ AreOpened(a, c.market, Wanted(pairs, groups[1].streams))
    BY <1>5, <1>6, <1>8 DEF AreOpened
  <2>2. lists = <<a>>
    BY <1>6, <1>8, <2>1
  <2>3. FlattenSeq(lists) = a
    BY <2>2, FlattenedPair
  <2>4. Items(groups[1].streams) = Items(streams(c))
    BY <1>2, <1>3, <1>8 DEF SharedOut
  <2>5. Wanted(pairs, groups[1].streams) = Wanted(pairs, streams(c))
    BY <2>4 DEF Wanted
  <2>6. QED
    BY <1>7, <2>1, <2>3, <2>5
<1>9. CASE m = 2
  <2>1. PICK a \in Seq(Conns) : a = lists[1] /\ AreOpened(a, c.market, Wanted(pairs, groups[1].streams))
    BY <1>5, <1>6, <1>9 DEF AreOpened
  <2>2. PICK b \in Seq(Conns) : b = lists[2] /\ AreOpened(b, c.market, Wanted(pairs, groups[2].streams))
    BY <1>5, <1>6, <1>9 DEF AreOpened
  <2>3. lists = <<a, b>>
    BY <1>6, <1>9, <2>1, <2>2
  <2>4. FlattenSeq(lists) = a \o b
    BY <2>3, FlattenedPair
  <2>5. PICK p : p = groups[1].streams
    OBVIOUS
  <2>6. PICK q : q = groups[2].streams
    OBVIOUS
  <2>7. Items(p) \cup Items(q) = Items(streams(c)) /\ Items(p) \cap Items(q) = {}
    BY <1>2, <1>3, <1>9, <2>5, <2>6 DEF SharedOut
  <2>8. /\ Wanted(pairs, p) \cup Wanted(pairs, q) = Wanted(pairs, streams(c))
        /\ Wanted(pairs, p) \cap Wanted(pairs, q) = {}
    <3>1. PICK all : all = streams(c)
      OBVIOUS
    <3>2. Items(p) \cup Items(q) = Items(all) /\ Items(p) \cap Items(q) = {}
      BY <2>7, <3>1
    <3>3. SplitsWanted(pairs, all, p, q)
      BY <3>2, WantedSplits, Zenon
    <3>4. QED
      BY <3>1, <3>3 DEF SplitsWanted
  <2>9. AreOpened(a \o b, c.market, Wanted(pairs, p) \cup Wanted(pairs, q))
    BY <2>1, <2>2, <2>5, <2>6, <2>8, OpenedConcat
  <2>10. QED
    BY <1>7, <2>4, <2>8, <2>9
<1>10. QED
  BY <1>2, <1>3, <1>8, <1>9 DEF SharedOut

-----------------------------------------------------------------------------
(* What main has opened so far.                                            *)

LEMMA NoneApart == None \notin Instruments
  BY ServiceAssumption DEF Instruments

\* The datasets are of different markets.
LEMMA ConfigMarkets ==
    ASSUME settings \in Settings
    PROVE  /\ DOMAIN dataset_configs(settings) = 1..Len(dataset_configs(settings))
           /\ \A i \in 1..Len(dataset_configs(settings)) : dataset_configs(settings)[i].ws_connections \in Nat
           /\ \A i, j \in 1..Len(dataset_configs(settings)) :
                dataset_configs(settings)[i].market = dataset_configs(settings)[j].market => i = j
<1>1. PICK markets : markets = IF settings.all_markets THEN Markets ELSE <<settings.market>>
  OBVIOUS
<1>2. PICK n \in {1, 3} : DOMAIN markets = 1..n /\ \A i, j \in 1..n : markets[i] = markets[j] => i = j
  <2>1. CASE settings.all_markets
    <3>1. DOMAIN markets = 1..3 /\ markets[1] = "spot" /\ markets[2] = "usdm" /\ markets[3] = "coinm"
      BY <1>1, <2>1 DEF Markets
    <3>2. \A i \in 1..3 : i = 1 \/ i = 2 \/ i = 3
      OBVIOUS
    <3>3. QED
      BY <3>1, <3>2
  <2>2. CASE ~settings.all_markets
    <3>1. DOMAIN markets = 1..1
      BY <1>1, <2>2
    <3>2. QED
      BY <3>1
  <2>3. QED
    BY <2>1, <2>2
<1>3. PICK g : g = dataset_configs(settings)
  OBVIOUS
<1>4. g = [i \in 1..n |-> [settings EXCEPT !.market = markets[i], !.all_markets = FALSE]]
  BY <1>1, <1>2, <1>3 DEF dataset_configs
<1>5. Len(g) = n
  <2>1. PICK S : S = {g[i] : i \in 1..n}
    OBVIOUS
  <2>2. DOMAIN g = 1..n /\ g = [i \in 1..n |-> g[i]]
    BY <1>4
  <2>3. g \in [1..n -> S]
    BY <2>1, <2>2
  <2>4. g \in Seq(S) /\ Len(g) = n
    BY <2>3
  <2>5. QED
    BY <2>4
<1>6. ASSUME NEW i \in 1..n
      PROVE  g[i].ws_connections \in Nat /\ g[i].market = markets[i]
  BY <1>4, SettingsAssumption
<1>7. DOMAIN g = 1..n
  BY <1>4
<1>8. QED
  BY <1>2, <1>3, <1>5, <1>6, <1>7

Running == [market : Range(Markets), symbols : Seq(Instruments), tasks : SUBSET {"processor", "poller", "snapshots"}]

\* The i-th dataset is subscribed to as its options say.
IsSubscribed(i) ==
    /\ datasets[i].market = dataset_configs(settings)[i].market
    /\ Once(Plan(connections, datasets[i].market), Len(connections),
            Wanted(datasets[i].symbols, streams(dataset_configs(settings)[i])))

\* A connection is one of a dataset, and fits.
IsServed(j) ==
    Fits(connections[j]) /\ \E i \in 1..Len(datasets) : connections[j].market = datasets[i].market

ConnInv ==
    /\ connections \in Seq(Conns) /\ datasets \in Seq(Running)
    /\ symbols \in Seq(Instruments) /\ Distinct(symbols)
    /\ Len(datasets) = at - 1 /\ at <= Len(dataset_configs(settings)) + 1
    /\ \A i \in 1..Len(datasets) : IsSubscribed(i)
    /\ \A j \in 1..Len(connections) : IsServed(j)

LEMMA ConnInit == Init => ConnInv
<1> SUFFICES ASSUME Init PROVE ConnInv
  OBVIOUS
<1>1. connections = <<>> /\ datasets = <<>> /\ symbols = <<>> /\ at = 1 /\ settings \in Settings
  BY DEF Init
<1>2. Len(dataset_configs(settings)) \in Nat
  BY <1>1, ConfigFacts
<1>3. Len(<<>>) = 0 /\ 1..0 = {}
  OBVIOUS
<1>4. connections \in Seq(Conns) /\ datasets \in Seq(Running) /\ symbols \in Seq(Instruments)
  BY <1>1
<1>5. Distinct(symbols)
  BY <1>1, <1>3 DEF Distinct
<1>6. QED
  BY <1>1, <1>2, <1>3, <1>4, <1>5 DEF ConnInv

\* The symbols of a dataset are different.
LEMMA SymbolsFacts ==
    ASSUME MainInv, Resolve \/ FetchAnswered
    PROVE  symbols' \in Seq(Instruments) /\ Distinct(symbols')
<1>1. settings \in Settings /\ at \in 1..Len(dataset_configs(settings)) /\ pc = "resolve"
  BY ConfigFacts DEF MainInv, Resolve, FetchAnswered
<1>2. config.symbols = settings.symbols /\ config.market \in Range(Markets)
  BY <1>1, ConfigFacts DEF config
<1>3. CASE Resolve
  <2>1. symbols' = csv(config.symbols)
    BY <1>3 DEF Resolve
  <2>2. config.symbols \in Seq(Instruments)
    BY <1>1, <1>2, SettingTypes DEF Instruments
  <2>3. QED
    BY <2>1, <2>2, CsvFacts DEF Distinct
<1>4. CASE FetchAnswered
  <2>1. PICK listing \in Listings[config.market] : symbols' = Ascending(Traded(listing))
    BY <1>4 DEF FetchAnswered
  <2>2. PICK set : set = Traded(listing)
    OBVIOUS
  <2>3. IsFiniteSet(set)
    BY <1>1, <2>2, TradedFinite
  <2>4. set \in SUBSET Nat
    <3>1. \A item \in listing : item.symbol \in Nat
      BY <1>2, ListingsAssumption
    <3>2. QED
      BY <2>2, <3>1 DEF Traded
  <2>5. PICK q : q = Ascending(set)
    OBVIOUS
  <2>6. PICK n \in Nat : n = Cardinality(set) /\ DOMAIN q = 1..n
    BY <2>3, <2>4, <2>5, AscendingFacts
  <2>7. /\ \A k \in 1..n : q[k] \in set
        /\ \A k, m \in 1..n : k < m => q[k] < q[m]
    BY <2>3, <2>4, <2>5, <2>6, AscendingFacts
  <2>8. q = [k \in 1..n |-> q[k]]
    <3>1. PICK rank : rank = [x \in set |-> Cardinality({y \in set : y <= x})]
      OBVIOUS
    <3>2. q = [k \in 1..n |-> CHOOSE x \in set : rank[x] = k]
      BY <2>5, <2>6, <3>1 DEF Ascending
    <3>3. QED
      BY <3>2
  <2>9. q \in [1..n -> Instruments]
    BY <2>4, <2>7, <2>8 DEF Instruments
  <2>10. q \in Seq(Instruments) /\ Len(q) = n
    BY <2>9
  <2>11. Distinct(q)
    <3>1. SUFFICES ASSUME NEW k \in 1..n, NEW m \in 1..n, q[k] = q[m], k < m PROVE FALSE
      BY <2>10 DEF Distinct
    <3>2. q[k] < q[m] /\ q[k] \in Nat
      BY <2>4, <2>7, <3>1
    <3>3. QED
      BY <3>1, <3>2
  <2>12. QED
    BY <2>1, <2>2, <2>5, <2>10, <2>11
<1>5. QED
  BY <1>3, <1>4

\* The connections and the datasets stay.
LEMMA ConnKept ==
    ASSUME ConnInv, UNCHANGED <<settings, at, datasets, connections>>,
           symbols' \in Seq(Instruments), Distinct(symbols')
    PROVE  ConnInv'
<1>1. settings' = settings /\ at' = at /\ datasets' = datasets /\ connections' = connections
  OBVIOUS
<1>2. \A i \in 1..Len(datasets) : IsSubscribed(i)'
  BY <1>1 DEF ConnInv, IsSubscribed
<1>3. \A j \in 1..Len(connections) : IsServed(j)'
  BY <1>1 DEF ConnInv, IsServed
<1>4. Distinct(symbols)'
  BY DEF Distinct
<1>5. QED
  BY <1>1, <1>2, <1>3, <1>4 DEF ConnInv

\* The connections that start_dataset opens.
LEMMA SpawnFacts ==
    ASSUME MainInv, ConnInv, StartDataset
    PROVE  \E new : /\ connections' = connections \o new
                    /\ AreOpened(new, config.market, Wanted(symbols, streams(config)))
<1>1. settings \in Settings /\ at \in 1..Len(dataset_configs(settings))
  BY ConfigFacts DEF MainInv, StartDataset
<1>2. config = dataset_configs(settings)[at]
  BY DEF config
<1>3. validate(config, symbols)
  BY DEF StartDataset
<1>4. PICK c : c = config
  OBVIOUS
<1>5. /\ c.exchange = "binance" /\ c.market \in Range(Markets) /\ c.ws_connections \in Nat
      /\ c.streams \in {None} \cup Seq(STRING)
  <2>1. c.exchange = "binance"
    BY <1>3, <1>4 DEF validate
  <2>2. c.market \in Range(Markets) /\ c.streams = settings.streams
    BY <1>1, <1>2, <1>4, ConfigFacts
  <2>3. c.ws_connections \in Nat
    BY <1>1, <1>2, <1>4, ConfigMarkets
  <2>4. settings.streams \in {None} \cup Seq(STRING)
    BY <1>1, SettingTypes
  <2>5. QED
    BY <2>1, <2>2, <2>3, <2>4
<1>6. streams(c) # <<>> /\ symbols # <<>>
  BY <1>3, <1>4 DEF validate
<1>7. PICK groups : groups = stream_groups(c)
  OBVIOUS
<1>8. PICK counts : counts = connection_counts(c, groups, Len(symbols))
  OBVIOUS
<1>9. symbols \in Seq(Instruments) /\ Distinct(symbols)
  BY DEF ConnInv
<1>10. AreOpened(Added(c, symbols, groups, counts), c.market, Wanted(symbols, streams(c)))
  BY <1>5, <1>6, <1>7, <1>8, <1>9, NoneApart, AddedFacts
<1>11. connections' = connections \o Added(c, symbols, groups, counts)
  BY <1>4, <1>7, <1>8 DEF StartDataset, Spawn, Added, Opened
<1>12. QED
  BY <1>4, <1>10, <1>11

LEMMA ConnStart == ASSUME MainInv, ConnInv, StartDataset PROVE ConnInv'
<1>1. settings \in Settings /\ at \in 1..Len(dataset_configs(settings)) /\ settings' = settings
  BY ConfigFacts DEF MainInv, StartDataset
<1>2. PICK configs : configs = dataset_configs(settings)
  OBVIOUS
<1>3. PICK n \in Nat : n = Len(configs)
  BY <1>1, <1>2, ConfigFacts
<1>4. \A i, j \in 1..n : configs[i].market = configs[j].market => i = j
  BY <1>1, <1>2, <1>3, ConfigMarkets
<1>5. PICK m \in Range(Markets) : m = configs[at].market /\ m = config.market
  BY <1>1, <1>2, <1>3, ConfigFacts DEF config
<1>6. PICK old \in Seq(Conns) : old = connections
  BY DEF ConnInv
<1>7. PICK new \in Seq(Conns) : connections' = old \o new /\ AreOpened(new, m, Wanted(symbols, streams(config)))
  BY <1>5, <1>6, SpawnFacts DEF AreOpened
<1>8. PICK all \in Seq(Conns) : all = connections' /\ all = old \o new
  <2>1. old \o new \in Seq(Conns)
    OBVIOUS
  <2>2. QED
    BY <1>7, <2>1, Zenon
<1>9. PICK x \in Nat : x = Len(old)
  OBVIOUS
<1>10. PICK y \in Nat : y = Len(new)
  OBVIOUS
<1>11. Len(all) = x + y /\ (\A k \in 1..x : all[k] = old[k]) /\ (\A k \in 1..y : all[x + k] = new[k])
  BY <1>8, <1>9, <1>10, JoinedPositions
<1>12. PICK d \in Running : d = [market |-> m, symbols |-> symbols, tasks |-> Tasks]
  <2>1. Tasks \in SUBSET {"processor", "poller", "snapshots"}
    BY DEF Tasks
  <2>2. symbols \in Seq(Instruments)
    BY DEF ConnInv
  <2>3. QED
    BY <2>1, <2>2 DEF Running
<1>13. PICK before \in Seq(Running) : before = datasets
  BY DEF ConnInv
<1>14. datasets' = Append(before, d)
  BY <1>5, <1>12, <1>13 DEF StartDataset
<1>15. PICK after \in Seq(Running) : after = datasets' /\ IsAppended(after, before, d, at - 1)
  <2>1. Len(before) = at - 1
    BY <1>13 DEF ConnInv
  <2>2. Append(before, d) \in Seq(Running) /\ IsAppended(Append(before, d), before, d, at - 1)
    BY <2>1 DEF IsAppended
  <2>3. QED
    BY <1>14, <2>2, Zenon
<1>16. Len(after) = at /\ after[at] = d /\ \A i \in 1..(at - 1) : after[i] = before[i]
  BY <1>1, <1>3, <1>15 DEF IsAppended
<1>17. ASSUME NEW i \in 1..(at - 1)
       PROVE  /\ before[i].market = configs[i].market /\ before[i].market # m
              /\ Once(Plan(old, before[i].market), x, Wanted(before[i].symbols, streams(configs[i])))
  <2>1. IsSubscribed(i)
    BY DEF ConnInv
  <2>2. i \in 1..n /\ at \in 1..n /\ i # at
    BY <1>1, <1>2, <1>3
  <2>3. QED
    BY <1>2, <1>4, <1>5, <1>6, <1>9, <1>13, <2>1, <2>2 DEF IsSubscribed
<1>18. ASSUME NEW j \in 1..x
       PROVE  Fits(old[j]) /\ \E i \in 1..(at - 1) : old[j].market = before[i].market
  <2>1. IsServed(j)
    BY <1>6, <1>9 DEF ConnInv
  <2>2. Len(datasets) = at - 1
    BY DEF ConnInv
  <2>3. QED
    BY <1>6, <1>13, <2>1, <2>2 DEF IsServed
<1>19. ASSUME NEW k PROVE Plan(all, k) = Plan(old, k) \o Plan(new, k)
  BY <1>8, PlanConcat
<1>20. ASSUME NEW k, NEW X, NEW Y, X \cap Y = {}, Once(Plan(old, k), x, X), Once(Plan(new, k), y, Y)
       PROVE  Once(Plan(all, k), x + y, X \cup Y)
  <2>1. PICK S : S = Subs(Instruments, Texts)
    OBVIOUS
  <2>2. PICK u \in Seq(Seq(S)) : u = Plan(old, k) /\ Len(u) = x
    <3>1. IsPlan(old, k)
      BY PlanType
    <3>2. QED
      BY <1>9, <2>1, <3>1, Zenon DEF IsPlan
  <2>3. PICK v \in Seq(Seq(S)) : v = Plan(new, k) /\ Len(v) = y
    <3>1. IsPlan(new, k)
      BY PlanType
    <3>2. QED
      BY <1>10, <2>1, <3>1, Zenon DEF IsPlan
  <2>4. Once(u, Len(u), X) /\ Once(v, Len(v), Y)
    BY <1>20, <2>2, <2>3
  <2>5. Once(u \o v, Len(u \o v), X \cup Y)
    BY <1>20, <2>4, OnceConcat
  <2>6. Len(u \o v) = x + y
    <3>1. Len(u \o v) = Len(u) + Len(v)
      BY JoinedPositions
    <3>2. QED
      BY <2>2, <2>3, <3>1
  <2>7. QED
    BY <1>19, <2>2, <2>3, <2>5, <2>6
<1>21. ASSUME NEW i \in 1..at PROVE IsSubscribed(i)'
  <2>1. CASE i = at
    <3>1. Once(Plan(new, m), y, Wanted(symbols, streams(config)))
      BY <1>7, <1>10 DEF AreOpened
    <3>2. \A j \in 1..Len(old) : old[j].market # m
      BY <1>9, <1>17, <1>18
    <3>3. Once(Plan(old, m), x, {})
      BY <1>9, <3>2, OtherMarkets
    <3>4. Once(Plan(all, m), x + y, {} \cup Wanted(symbols, streams(config)))
      BY <1>20, <3>1, <3>3
    <3>5. Once(Plan(all, m), Len(all), Wanted(symbols, streams(config)))
      <4>1. {} \cup Wanted(symbols, streams(config)) = Wanted(symbols, streams(config))
        OBVIOUS
      <4>2. QED
        BY <1>11, <3>4, <4>1
    <3>6. after[i].market = m /\ after[i].symbols = symbols
      BY <1>12, <1>16, <2>1
    <3>7. config = configs[i]
      BY <1>2, <2>1 DEF config
    <3>8. datasets'[i].market = m /\ datasets'[i].symbols = symbols /\ m = configs[i].market
      BY <1>5, <1>15, <2>1, <3>6
    <3>9. QED
      BY <1>1, <1>2, <1>8, <3>5, <3>7, <3>8 DEF IsSubscribed
  <2>2. CASE i # at
    <3>1. PICK k \in 1..(at - 1) : k = i
      <4>1. at \in 1..n
        BY <1>1, <1>2, <1>3
      <4>2. QED
        BY <2>2, <4>1
    <3>2. PICK o : o = before[k].market
      OBVIOUS
    <3>3. o # m /\ o = configs[i].market
      BY <1>17, <3>1, <3>2
    <3>4. PICK W : W = Wanted(before[k].symbols, streams(configs[k]))
      OBVIOUS
    <3>5. Once(Plan(old, o), x, W)
      BY <1>17, <3>2, <3>4
    <3>6. \A j \in 1..Len(new) : new[j].market # o
      BY <1>7, <3>3 DEF AreOpened
    <3>7. Once(Plan(new, o), y, {})
      BY <1>10, <3>6, OtherMarkets
    <3>8. Once(Plan(all, o), x + y, W \cup {})
      BY <1>20, <3>5, <3>7
    <3>9. Once(Plan(all, o), Len(all), W)
      <4>1. W \cup {} = W
        OBVIOUS
      <4>2. QED
        BY <1>11, <3>8, <4>1
    <3>10. datasets'[i].market = o /\ datasets'[i].symbols = before[k].symbols
      BY <1>15, <1>16, <3>1, <3>2
    <3>11. QED
      BY <1>1, <1>2, <1>8, <3>1, <3>3, <3>4, <3>9, <3>10 DEF IsSubscribed
  <2>3. QED
    BY <2>1, <2>2
<1>22. ASSUME NEW j \in 1..(x + y) PROVE IsServed(j)'
  <2>1. CASE j \in 1..x
    <3>1. PICK i \in 1..(at - 1) : old[j].market = before[i].market
      BY <1>18, <2>1
    <3>2. all[j] = old[j] /\ Fits(old[j])
      BY <1>11, <1>18, <2>1
    <3>3. i \in 1..Len(after) /\ after[i] = before[i]
      BY <1>16
    <3>4. QED
      BY <1>8, <1>15, <3>1, <3>2, <3>3 DEF IsServed, Fits, Limit
  <2>2. CASE j \notin 1..x
    <3>1. j - x \in 1..y /\ j = x + (j - x)
      BY <2>2, TwoParts, Zenon
    <3>2. PICK k \in 1..y : j = x + k
      BY <3>1
    <3>3. all[j] = new[k] /\ new[k].market = m /\ Fits(new[k])
      BY <1>7, <1>10, <1>11, <3>2 DEF AreOpened
    <3>4. at \in 1..Len(after) /\ after[at].market = m
      BY <1>1, <1>3, <1>12, <1>16
    <3>5. QED
      BY <1>8, <1>15, <3>3, <3>4 DEF IsServed, Fits, Limit
  <2>3. QED
    BY <2>1, <2>2
<1>23. symbols' \in Seq(Instruments) /\ Distinct(symbols)'
  <2>1. symbols' = <<>>
    BY DEF StartDataset
  <2>2. Len(<<>>) = 0 /\ <<>> \in Seq(Instruments)
    OBVIOUS
  <2>3. QED
    BY <2>1, <2>2 DEF Distinct
<1>24. at' = at + 1 /\ at + 1 <= n + 1 /\ Len(after) = at' - 1
  BY <1>1, <1>2, <1>3, <1>16 DEF StartDataset
<1>25. QED
  BY <1>1, <1>2, <1>3, <1>8, <1>11, <1>15, <1>16, <1>21, <1>22, <1>23, <1>24 DEF ConnInv

LEMMA ConnStep == MainInv /\ ConnInv /\ [Next]_vars => ConnInv'
<1> SUFFICES ASSUME MainInv, ConnInv, [Next]_vars PROVE ConnInv'
  OBVIOUS
<1>1. symbols \in Seq(Instruments) /\ Distinct(symbols)
  BY DEF ConnInv
<1>2. CASE Resolve \/ FetchAnswered
  <2>1. UNCHANGED <<settings, at, datasets, connections>>
    BY <1>2 DEF Resolve, FetchAnswered
  <2>2. QED
    BY <1>2, <2>1, SymbolsFacts, ConnKept
<1>3. CASE StartDataset
  BY <1>3, ConnStart
<1>4. CASE \/ BufferSizes \/ StartWriter \/ StartWriterFails \/ FetchFailed \/ Sleep \/ StartRejected
           \/ Bind \/ Stop
  <2>1. UNCHANGED <<settings, at, symbols, datasets, connections>>
    BY <1>4 DEF BufferSizes, StartWriter, StartWriterFails, FetchFailed, Sleep, StartRejected, Bind, Stop
  <2>2. QED
    BY <1>1, <2>1, ConnKept
<1>5. CASE Deliver \/ Poll \/ HandOver \/ UNCHANGED vars
  <2>1. UNCHANGED <<settings, at, symbols, datasets, connections>>
    BY <1>5 DEF Deliver, Poll, HandOver, main, vars
  <2>2. QED
    BY <1>1, <2>1, ConnKept
<1>6. QED
  BY <1>2, <1>3, <1>4, <1>5 DEF Next, Main, MainAlone

LEMMA ConnAlways == Spec => []ConnInv
  BY ConnInit, ConnStep, MainAlways, PTL DEF Spec

\* The streams of every dataset that is started are subscribed to exactly once, whichever options
\* it has, whatever the exchange lists, however its streams are grouped and dealt out, and
\* whatever other datasets are started before or after it (config.rs).
THEOREM EverySubscriptionOnce == Spec => []SubscribedOnce
<1>1. MainInv /\ ConnInv => SubscribedOnce
  <2> SUFFICES ASSUME MainInv, ConnInv, NEW d \in Range(datasets)
               PROVE  LET wanted == Range(streams(Started(d)))
                          expected == {[symbol |-> None, stream |-> s] : s \in wanted \cap GlobalStreams}
                              \cup [symbol : Range(d.symbols), stream : wanted \ GlobalStreams] IN
                      /\ Range(Subscribed(d)) = expected
                      /\ Len(Subscribed(d)) = Cardinality(expected)
    BY DEF SubscribedOnce
  <2>1. settings \in Settings /\ at \in Nat
    BY DEF MainInv
  <2>2. PICK configs : configs = dataset_configs(settings)
    OBVIOUS
  <2>3. PICK n \in Nat : n = Len(configs) /\ DOMAIN configs = 1..n
    BY <2>1, <2>2, ConfigFacts, ConfigMarkets
  <2>4. PICK i \in 1..Len(datasets) : d = datasets[i]
    BY DEF ConnInv, Range
  <2>5. i \in 1..n
    BY <2>1, <2>2, <2>3 DEF ConnInv
  <2>6. /\ d.market = configs[i].market
        /\ Once(Plan(connections, d.market), Len(connections), Wanted(d.symbols, streams(configs[i])))
    BY <2>2, <2>4 DEF ConnInv, IsSubscribed
  <2>7. Started(d) = configs[i]
    <3>1. configs[i] \in Range(configs)
      BY <2>3, <2>5 DEF Range
    <3>2. ASSUME NEW c \in Range(configs), c.market = d.market PROVE c = configs[i]
      <4>1. PICK j \in 1..n : c = configs[j]
        BY <2>3 DEF Range
      <4>2. i = j
        BY <2>1, <2>2, <2>3, <2>5, <2>6, <3>2, <4>1, ConfigMarkets
      <4>3. QED
        BY <4>1, <4>2
    <3>3. Started(d) = CHOOSE c \in Range(configs) : c.market = d.market
      BY <2>2 DEF Started
    <3>4. QED
      BY <2>6, <3>1, <3>2, <3>3
  <2>8. PICK all \in Seq(Texts) : all = streams(configs[i])
    <3>1. configs[i].streams \in {None} \cup Seq(STRING)
      <4>1. configs[i].streams = settings.streams
        BY <2>1, <2>2, <2>3, <2>5, ConfigFacts
      <4>2. QED
        BY <2>1, <4>1, SettingTypes
    <3>2. streams(configs[i]) \in Seq(Texts)
      BY <3>1, StreamsType
    <3>3. QED
      BY <3>2, Zenon
  <2>9. d.symbols \in Seq(Instruments)
    <3>1. d \in Running
      BY <2>4 DEF ConnInv
    <3>2. QED
      BY <3>1 DEF Running
  <2>10. PICK W : W = Wanted(d.symbols, all)
    OBVIOUS
  <2>11. PICK S : S = Subs(Instruments, Texts)
    OBVIOUS
  <2>12. PICK plan \in Seq(Seq(S)) : plan = Plan(connections, d.market) /\ Len(plan) = Len(connections)
    <3>1. IsPlan(connections, d.market)
      BY PlanType DEF ConnInv
    <3>2. QED
      BY <2>11, <3>1, Zenon DEF IsPlan
  <2>13. Once(plan, Len(plan), W)
    BY <2>6, <2>8, <2>10, <2>12
  <2>14. Range(FlattenSeq(plan)) = W /\ Len(FlattenSeq(plan)) = Cardinality(W)
    BY <2>13, OnceFlattened
  <2>15. Subscribed(d) = FlattenSeq(plan)
    BY <2>12 DEF Subscribed, Plan
  <2>16. Range(all) = Items(all) /\ Range(d.symbols) = Items(d.symbols)
    <3>1. Range(all) = Items(all)
      BY DEF Range, Items
    <3>2. PICK q \in Seq(Instruments) : q = d.symbols
      BY <2>9, Zenon
    <3>3. Range(q) = Items(q)
      BY DEF Range, Items
    <3>4. QED
      BY <3>1, <3>2, <3>3, Zenon
  <2>17. PICK A : A = Items(all)
    OBVIOUS
  <2>18. PICK I : I = Items(d.symbols)
    OBVIOUS
  <2>19. W = {[symbol |-> None, stream |-> s] : s \in A \cap GlobalStreams} \cup [symbol : I, stream : A \ GlobalStreams]
    <3>1. W = [symbol : {None}, stream : A \cap GlobalStreams] \cup [symbol : I, stream : A \ GlobalStreams]
      BY <2>10, <2>17, <2>18 DEF Wanted
    <3>2. [symbol : {None}, stream : A \cap GlobalStreams] = {[symbol |-> None, stream |-> s] : s \in A \cap GlobalStreams}
      <4>1. PICK X : X = A \cap GlobalStreams
        OBVIOUS
      <4>2. ASSUME NEW w \in [symbol : {None}, stream : X]
            PROVE  w \in {[symbol |-> None, stream |-> s] : s \in X}
        <5>1. w = [symbol |-> None, stream |-> w.stream] /\ w.stream \in X
          OBVIOUS
        <5>2. QED
          BY <5>1
      <4>3. ASSUME NEW s \in X
            PROVE  [symbol |-> None, stream |-> s] \in [symbol : {None}, stream : X]
        OBVIOUS
      <4>4. [symbol : {None}, stream : X] = {[symbol |-> None, stream |-> s] : s \in X}
        <5>1. [symbol : {None}, stream : X] \subseteq {[symbol |-> None, stream |-> s] : s \in X}
          BY <4>2
        <5>2. {[symbol |-> None, stream |-> s] : s \in X} \subseteq [symbol : {None}, stream : X]
          BY <4>3
        <5>3. QED
          BY <5>1, <5>2, Zenon
      <4>5. QED
        BY <4>1, <4>4, Zenon
    <3>3. QED
      BY <3>1, <3>2
  <2>20. QED
    BY <2>7, <2>8, <2>14, <2>15, <2>16, <2>17, <2>18, <2>19
<1>2. QED
  BY <1>1, MainAlways, ConnAlways, PTL

\* No connection that is ever opened has more streams than its limit and those of one symbol,
\* for every number of symbols, of streams and of connections asked for (config.rs).
THEOREM LoadAlwaysBound == Spec => []LoadBound
<1>1. ConnInv => LoadBound
  <2> SUFFICES ASSUME ConnInv, NEW c \in Range(connections)
               PROVE  Len(c.streams) <= Limit(c) + StreamsPerSymbol(c)
    BY DEF LoadBound
  <2>1. PICK j \in 1..Len(connections) : c = connections[j]
    BY DEF ConnInv, Range
  <2>2. Fits(c)
    BY <2>1 DEF ConnInv, IsServed
  <2>3. StreamsPerSymbol(c) = Cardinality(OwnStreams(c.streams))
    BY DEF StreamsPerSymbol, OwnStreams
  <2>4. QED
    BY <2>2, <2>3 DEF Fits
<1>2. QED
  BY <1>1, ConnAlways, PTL

-----------------------------------------------------------------------------
(* Types.                                                                  *)

Reasons == {"sizes", "system", "symbols", "settings"}

PlaceInv ==
    /\ pc \in Places /\ delay \in 1..MaxDelay
    /\ \/ pc = "failed" /\ cause \in Reasons
       \/ pc # "failed" /\ cause = None

\* The pause doubles up to its bound.
LEMMA DoubledBound == ASSUME NEW d \in 1..MaxDelay PROVE Doubled(d) \in 1..MaxDelay
<1>1. MaxDelay \in Nat \ {0} /\ d \in Nat /\ 2 * d \in Nat
  BY ServiceAssumption
<1>2. Min({2 * d, MaxDelay}) \in {2 * d, MaxDelay} /\ Min({2 * d, MaxDelay}) <= MaxDelay
  BY <1>1, MinOfTwo
<1>3. QED
  BY <1>1, <1>2 DEF Doubled

LEMMA PlaceInit == Init => PlaceInv
  BY ServiceAssumption DEF Init, PlaceInv, Places

LEMMA PlaceStep == PlaceInv /\ [Next]_vars => PlaceInv'
<1> SUFFICES ASSUME PlaceInv, [Next]_vars PROVE PlaceInv'
  OBVIOUS
<1>1. ASSUME NEW place \in Places \ {"failed"}, pc # "failed", Goto(place), delay' \in 1..MaxDelay
      PROVE  PlaceInv'
  BY <1>1 DEF PlaceInv, Goto
<1>2. ASSUME NEW why \in Reasons, Fail(why), delay' \in 1..MaxDelay
      PROVE  PlaceInv'
  BY <1>2 DEF PlaceInv, Fail, Places
<1>3. delay \in 1..MaxDelay /\ 1 \in 1..MaxDelay /\ Doubled(delay) \in 1..MaxDelay
  BY ServiceAssumption, DoubledBound DEF PlaceInv
<1>4. CASE BufferSizes
  <2>1. delay' = delay /\ pc # "failed" /\ (Goto("writer") \/ Fail("sizes"))
    BY <1>4 DEF BufferSizes
  <2>2. QED
    BY <1>1, <1>2, <1>3, <2>1 DEF Places, Reasons
<1>5. CASE StartWriter \/ StartWriterFails
  <2>1. delay' = delay /\ pc # "failed" /\ (Goto("resolve") \/ Fail("settings") \/ Fail("system"))
    BY <1>5 DEF StartWriter, StartWriterFails
  <2>2. QED
    BY <1>1, <1>2, <1>3, <2>1 DEF Places, Reasons
<1>6. CASE Resolve \/ FetchAnswered \/ FetchFailed
  <2>1. delay' = delay /\ pc # "failed" /\ (Goto("start") \/ Goto("sleep") \/ Fail("symbols"))
    BY <1>6 DEF Resolve, FetchAnswered, FetchFailed, NothingTraded
  <2>2. QED
    BY <1>1, <1>2, <1>3, <2>1 DEF Places, Reasons
<1>7. CASE Sleep
  <2>1. delay' = Doubled(delay) /\ pc # "failed" /\ Goto("resolve")
    BY <1>7 DEF Sleep
  <2>2. QED
    BY <1>1, <1>3, <2>1 DEF Places
<1>8. CASE StartDataset \/ StartRejected
  <2>1. delay' \in {1, delay} /\ pc # "failed" /\ (Goto("bind") \/ Goto("resolve") \/ Fail("settings"))
    BY <1>8 DEF StartDataset, StartRejected
  <2>2. QED
    BY <1>1, <1>2, <1>3, <2>1 DEF Places, Reasons
<1>9. CASE Bind \/ Stop
  <2>1. delay' = delay /\ pc # "failed" /\ (Goto("up") \/ Goto("stopped") \/ Fail("system"))
    BY <1>9 DEF Bind, Stop, Ended
  <2>2. QED
    BY <1>1, <1>2, <1>3, <2>1 DEF Places, Reasons
<1>10. CASE Deliver \/ Poll \/ HandOver \/ UNCHANGED vars
  <2>1. pc' = pc /\ delay' = delay /\ cause' = cause
    BY <1>10 DEF Deliver, Poll, HandOver, main, vars
  <2>2. QED
    BY <2>1 DEF PlaceInv
<1>11. QED
  BY <1>4, <1>5, <1>6, <1>7, <1>8, <1>9, <1>10 DEF Next, Main, MainAlone

LEMMA PlaceAlways == Spec => []PlaceInv
  BY PlaceInit, PlaceStep, PTL DEF Spec

\* Main's variables keep their types: the pause between two requests for the instruments never
\* exceeds its bound, main has failed exactly when there is a reason, it has started as many
\* datasets as it has gone through, and every connection is one of a dataset.
THEOREM ServiceTypeCorrect == Spec => []TypeOK
<1>1. MainInv /\ ConnInv /\ PlaceInv => TypeOK
  <2> SUFFICES ASSUME MainInv, ConnInv, PlaceInv PROVE TypeOK
    OBVIOUS
  <2>1. settings \in Settings /\ at \in Nat \ {0}
    BY DEF MainInv
  <2>2. Len(dataset_configs(settings)) \in Nat
    BY <2>1, ConfigFacts
  <2>3. at \in 1..(Len(dataset_configs(settings)) + 1) /\ Len(datasets) = at - 1
    BY <2>1, <2>2 DEF ConnInv
  <2>4. pc \in Places /\ delay \in 1..MaxDelay
    BY DEF PlaceInv
  <2>5. None \notin Reasons
    BY ServiceAssumption DEF Reasons
  <2>6. (cause # None) = (pc = "failed")
    BY <2>5 DEF PlaceInv
  <2>7. cause \in {None, "sizes", "system", "symbols", "settings"}
    BY DEF PlaceInv, Reasons
  <2>8. ASSUME NEW c \in Range(connections)
        PROVE  /\ \E d \in Range(datasets) : d.market = c.market
               /\ \A sub \in Range(c.streams) : DOMAIN sub = {"symbol", "stream"}
    <3>1. PICK j \in 1..Len(connections) : c = connections[j]
      BY DEF ConnInv, Range
    <3>2. PICK i \in 1..Len(datasets) : c.market = datasets[i].market
      BY <3>1 DEF ConnInv, IsServed
    <3>3. datasets[i] \in Range(datasets)
      BY DEF ConnInv, Range
    <3>4. PICK S : S = Subs(Instruments, Texts)
      OBVIOUS
    <3>5. c \in Conns
      BY <3>1 DEF ConnInv
    <3>6. c.streams \in Seq(S)
      BY <3>4, <3>5 DEF Conns
    <3>7. \A sub \in Range(c.streams) : sub \in S
      BY <3>6 DEF Range
    <3>8. \A sub \in S : DOMAIN sub = {"symbol", "stream"}
      BY <3>4 DEF Subs
    <3>9. QED
      BY <3>2, <3>3, <3>7, <3>8
  <2>9. QED
    BY <2>1, <2>3, <2>4, <2>6, <2>7, <2>8 DEF TypeOK
<1>2. QED
  BY <1>1, MainAlways, ConnAlways, PlaceAlways, PTL

-----------------------------------------------------------------------------
(* The numbers of events.                                                  *)

Characters == Digits \cup {None}
Raws == [negative : BOOLEAN, whole : Seq(Characters), fraction : Seq(Characters)]

\* The powers of ten up to the n-th.
IsTens(t, n) == t = [k \in 0..n |-> IF k = 0 THEN 1 ELSE 10 * t[k - 1]]

LEMMA TensNext == ASSUME NEW n \in Nat, NEW t, IsTens(t, n) PROVE \E u : IsTens(u, n + 1)
<1>1. PICK u : u = [k \in 0..(n + 1) |-> IF k <= n THEN t[k] ELSE 10 * t[n]]
  OBVIOUS
<1>2. ASSUME NEW k \in 0..(n + 1) PROVE u[k] = IF k = 0 THEN 1 ELSE 10 * u[k - 1]
  <2>1. CASE k <= n
    <3>1. k \in 0..n /\ (k # 0 => k - 1 \in 0..(n + 1) /\ k - 1 <= n)
      BY <2>1
    <3>2. t[k] = IF k = 0 THEN 1 ELSE 10 * t[k - 1]
      BY <3>1 DEF IsTens
    <3>3. u[k] = t[k] /\ (k # 0 => u[k - 1] = t[k - 1])
      BY <1>1, <2>1, <3>1
    <3>4. QED
      BY <3>2, <3>3
  <2>2. CASE k = n + 1
    <3>1. n \in 0..(n + 1) /\ k # 0 /\ k - 1 = n /\ n <= n /\ ~(k <= n)
      BY <2>2
    <3>2. u[k] = 10 * t[n] /\ u[n] = t[n]
      BY <1>1, <3>1
    <3>3. QED
      BY <3>1, <3>2
  <2>3. QED
    BY <2>1, <2>2
<1>3. u = [k \in 0..(n + 1) |-> u[k]]
  BY <1>1
<1>4. IsTens(u, n + 1)
  BY <1>2, <1>3 DEF IsTens
<1>5. QED
  BY <1>4

LEMMA TensExist == ASSUME NEW n \in Nat PROVE \E t : IsTens(t, n)
<1> DEFINE A == {j \in Nat : \E t : IsTens(t, j)}
<1>1. 0 \in A
  <2>1. IsTens([k \in 0..0 |-> 1], 0)
    BY DEF IsTens
  <2>2. QED
    BY <2>1
<1>2. ASSUME NEW j \in Nat, j \in A PROVE j + 1 \in A
  BY <1>2, TensNext
<1>3. \A j \in Nat : j \in A
  <2> HIDE DEF A
  <2>1. QED
    BY <1>1, <1>2, EveryNumber
<1>4. QED
  BY <1>3

LEMMA TensFacts ==
    ASSUME NEW n \in Nat, NEW t, IsTens(t, n)
    PROVE  /\ \A k \in 0..n : t[k] \in Nat \ {0}
           /\ t[0] = 1 /\ \A k \in 1..n : t[k] = 10 * t[k - 1]
<1>1. t[0] = 1
  BY DEF IsTens
<1>2. \A k \in 1..n : t[k] = 10 * t[k - 1]
  BY DEF IsTens
<1> DEFINE A == {j \in Nat : j <= n => t[j] \in Nat \ {0}}
<1>3. 0 \in A
  BY <1>1
<1>4. ASSUME NEW j \in Nat, j \in A PROVE j + 1 \in A
  <2>1. SUFFICES ASSUME j + 1 <= n PROVE t[j + 1] \in Nat \ {0}
    OBVIOUS
  <2>2. j + 1 \in 1..n /\ j + 1 - 1 = j /\ t[j] \in Nat \ {0}
    BY <1>4, <2>1
  <2>3. t[j + 1] = 10 * t[j]
    BY <1>2, <2>2
  <2>4. QED
    BY <2>2, <2>3
<1>5. \A j \in Nat : j \in A
  <2> HIDE DEF A
  <2>1. QED
    BY <1>3, <1>4, EveryNumber
<1>6. QED
  BY <1>1, <1>2, <1>5

\* What parse_decimal has after k digits.
Shifted(before, digit) ==
    IF before = None THEN None
    ELSE IF digit \notin Digits THEN None
    ELSE IF 10 * before + digit > MaxDecimal THEN None
    ELSE 10 * before + digit
IsScaled(f, digits, n) == f = [k \in 0..n |-> IF k = 0 THEN 0 ELSE Shifted(f[k - 1], digits[k])]

LEMMA ScaledNext ==
    ASSUME NEW digits, NEW n \in Nat, NEW f, IsScaled(f, digits, n)
    PROVE  \E g : IsScaled(g, digits, n + 1)
<1>1. PICK g : g = [k \in 0..(n + 1) |-> IF k <= n THEN f[k] ELSE Shifted(f[n], digits[n + 1])]
  OBVIOUS
<1>2. ASSUME NEW k \in 0..(n + 1) PROVE g[k] = IF k = 0 THEN 0 ELSE Shifted(g[k - 1], digits[k])
  <2>1. CASE k <= n
    <3>1. k \in 0..n /\ (k # 0 => k - 1 \in 0..(n + 1) /\ k - 1 <= n)
      BY <2>1
    <3>2. f[k] = IF k = 0 THEN 0 ELSE Shifted(f[k - 1], digits[k])
      BY <3>1 DEF IsScaled
    <3>3. g[k] = f[k] /\ (k # 0 => g[k - 1] = f[k - 1])
      BY <1>1, <2>1, <3>1
    <3>4. QED
      BY <3>2, <3>3
  <2>2. CASE k = n + 1
    <3>1. n \in 0..(n + 1) /\ k # 0 /\ k - 1 = n /\ n <= n /\ ~(k <= n)
      BY <2>2
    <3>2. g[k] = Shifted(f[n], digits[k]) /\ g[n] = f[n]
      BY <1>1, <2>2, <3>1
    <3>3. QED
      BY <3>1, <3>2
  <2>3. QED
    BY <2>1, <2>2
<1>3. g = [k \in 0..(n + 1) |-> g[k]]
  BY <1>1
<1>4. IsScaled(g, digits, n + 1)
  BY <1>2, <1>3 DEF IsScaled
<1>5. QED
  BY <1>4

LEMMA ScaledExists == ASSUME NEW digits, NEW n \in Nat PROVE \E f : IsScaled(f, digits, n)
<1> DEFINE A == {j \in Nat : \E f : IsScaled(f, digits, j)}
<1>1. 0 \in A
  <2>1. IsScaled([k \in 0..0 |-> 0], digits, 0)
    BY DEF IsScaled
  <2>2. QED
    BY <2>1
<1>2. ASSUME NEW j \in Nat, j \in A PROVE j + 1 \in A
  BY <1>2, ScaledNext
<1>3. \A j \in Nat : j \in A
  <2> HIDE DEF A
  <2>1. QED
    BY <1>1, <1>2, EveryNumber
<1>4. QED
  BY <1>3

LEMMA CheckedFacts ==
    ASSUME NEW digits, NEW n \in Nat, n = Len(digits)
    PROVE  \E f : IsScaled(f, digits, n) /\ checked(digits) = f[n]
<1>1. \E f : IsScaled(f, digits, n)
  BY ScaledExists
<1>2. PICK f : f = CHOOSE g : IsScaled(g, digits, n)
  OBVIOUS
<1>3. IsScaled(f, digits, n)
  BY <1>1, <1>2
<1>4. checked(digits) = f[n]
  BY <1>2 DEF checked, IsScaled, Shifted
<1>5. QED
  BY <1>3, <1>4

\* A value that is still to be multiplied by the power t stands for v, unless v is too large.
Reaches(value, t, v) ==
    /\ v \in Nat
    /\ \/ value \in 0..MaxDecimal /\ value * t = v
       \/ value = None /\ v > MaxDecimal

LEMMA ReachesNext ==
    ASSUME NEW before, NEW t \in Nat \ {0}, NEW v, Reaches(before, 10 * t, v), NEW digit \in Digits
    PROVE  Reaches(Shifted(before, digit), t, v + digit * t)
<1>1. digit \in 0..9 /\ v \in Nat /\ digit * t \in Nat /\ MaxDecimal \in Nat
  BY DecimalAssumption DEF Digits, Reaches
<1>2. CASE before = None
  <2>1. v > MaxDecimal
    <3>1. before \notin 0..MaxDecimal
      BY <1>1, <1>2, ServiceAssumption
    <3>2. QED
      BY <3>1 DEF Reaches
  <2>2. v + digit * t \in Nat /\ v + digit * t > MaxDecimal
    BY <1>1, <2>1
  <2>3. Shifted(before, digit) = None
    BY <1>2 DEF Shifted
  <2>4. QED
    BY <2>2, <2>3 DEF Reaches
<1>3. CASE before # None
  <2>1. PICK b \in 0..MaxDecimal : b = before /\ b * (10 * t) = v
    BY <1>3 DEF Reaches
  <2>2. PICK x \in Nat : x = 10 * b + digit
    <3>1. 10 * b + digit \in Nat
      BY <1>1, <2>1
    <3>2. QED
      BY <3>1
  <2>3. x * t = v + digit * t
    <3>1. (10 * b) * t = b * (10 * t)
      BY <1>1, <2>1
    <3>2. (10 * b + digit) * t = (10 * b) * t + digit * t
      BY <1>1, <2>1
    <3>3. QED
      BY <2>1, <2>2, <3>1, <3>2
  <2>4. Shifted(before, digit) = IF x > MaxDecimal THEN None ELSE x
    BY <1>3, <2>1, <2>2 DEF Shifted
  <2>5. x * t >= x
    <3>1. PICK s \in Nat : t = s + 1
      <4>1. t - 1 \in Nat /\ t = (t - 1) + 1
        OBVIOUS
      <4>2. QED
        BY <4>1
    <3>2. x * t = x * s + x /\ x * s \in Nat
      BY <3>1
    <3>3. QED
      BY <3>2
  <2>6. v + digit * t \in Nat
    BY <1>1
  <2>7. CASE x > MaxDecimal
    <3>1. v + digit * t > MaxDecimal
      BY <1>1, <2>3, <2>5, <2>6, <2>7
    <3>2. QED
      BY <2>4, <2>6, <2>7, <3>1 DEF Reaches
  <2>8. CASE ~(x > MaxDecimal)
    <3>1. x \in 0..MaxDecimal
      BY <1>1, <2>8
    <3>2. QED
      BY <2>3, <2>4, <2>6, <2>8, <3>1 DEF Reaches
  <2>9. QED
    BY <2>7, <2>8
<1>4. QED
  BY <1>2, <1>3

\* The digits that are there, each times its power, and the zeros behind them.
IsPadded(all, digits, places) ==
    /\ Len(digits) <= places /\ Len(all) = places
    /\ \A i \in 1..Len(digits) : all[i] = digits[i]
    /\ \A i \in (Len(digits) + 1)..places : all[i] = 0
Weighted(digits, t, places) == [i \in DOMAIN digits |-> digits[i] * t[places - i]]

LEMMA ScaledSum ==
    ASSUME NEW places \in Nat, NEW digits \in Seq(Digits), NEW all \in Seq(Characters), IsPadded(all, digits, places),
           NEW t, IsTens(t, places), NEW f, IsScaled(f, all, places)
    PROVE  Reaches(f[places], 1, Total(Weighted(digits, t, places)))
<1>1. PICK m \in Nat : m = Len(digits) /\ DOMAIN digits = 1..m /\ m <= places
  BY DEF IsPadded
<1>2. /\ \A k \in 0..places : t[k] \in Nat \ {0}
      /\ t[0] = 1 /\ \A k \in 1..places : t[k] = 10 * t[k - 1]
  BY TensFacts
<1>3. f[0] = 0 /\ \A k \in 1..places : f[k] = Shifted(f[k - 1], all[k])
  BY DEF IsScaled
<1>4. ASSUME NEW i \in 1..m PROVE digits[i] \in Digits /\ digits[i] * t[places - i] \in Nat
  <2>1. digits[i] \in Digits /\ places - i \in 0..places
    BY <1>1
  <2>2. PICK p \in Nat : p = t[places - i]
    BY <1>2, <2>1
  <2>3. PICK d \in Nat : d = digits[i]
    BY <2>1 DEF Digits
  <2>4. d * p \in Nat
    OBVIOUS
  <2>5. QED
    BY <2>1, <2>2, <2>3, <2>4
<1>5. PICK w \in Seq(Nat) : w = Weighted(digits, t, places) /\ Len(w) = m
                            /\ \A i \in 1..m : w[i] = digits[i] * t[places - i]
  <2>1. PICK q \in [1..m -> Nat] : q = Weighted(digits, t, places)
    <3>1. Weighted(digits, t, places) = [i \in 1..m |-> digits[i] * t[places - i]]
      BY <1>1 DEF Weighted
    <3>2. [i \in 1..m |-> digits[i] * t[places - i]] \in [1..m -> Nat]
      BY <1>4
    <3>3. QED
      BY <3>1, <3>2
  <2>2. q \in Seq(Nat) /\ Len(q) = m
    BY <1>1
  <2>3. \A i \in 1..m : q[i] = digits[i] * t[places - i]
    BY <1>1, <2>1 DEF Weighted
  <2>4. QED
    BY <2>1, <2>2, <2>3
<1> DEFINE A == {n \in Nat : n <= m => Reaches(f[n], t[places - n], Total(SubSeq(w, 1, n)))}
<1>6. 0 \in A
  <2>1. SubSeq(w, 1, 0) = <<>>
    BY <1>5
  <2>2. PICK p \in Nat : p = t[places - 0]
    <3>1. places - 0 \in 0..places
      OBVIOUS
    <3>2. QED
      BY <1>2, <3>1
  <2>3. 0 * p = 0 /\ 0 \in 0..MaxDecimal /\ 0 \in Nat
    BY DecimalAssumption
  <2>4. Reaches(0, p, 0)
    BY <2>3 DEF Reaches
  <2>5. QED
    BY <1>3, <2>1, <2>2, <2>4, TotalEmpty
<1>7. ASSUME NEW n \in Nat, n \in A PROVE n + 1 \in A
  <2>1. SUFFICES ASSUME n + 1 <= m PROVE Reaches(f[n + 1], t[places - (n + 1)], Total(SubSeq(w, 1, n + 1)))
    OBVIOUS
  <2>2. PICK k \in 1..places : k = n + 1 /\ k \in 1..m /\ k - 1 = n /\ places - k \in 0..places
                               /\ places - n \in 1..places /\ places - n - 1 = places - k
    BY <1>1, <2>1
  <2>3. Reaches(f[n], t[places - n], Total(SubSeq(w, 1, n)))
    BY <1>7, <2>2
  <2>4. PICK p \in Nat \ {0} : p = t[places - k] /\ t[places - n] = 10 * p
    BY <1>2, <2>2
  <2>5. all[k] = digits[k] /\ digits[k] \in Digits
    BY <1>1, <1>4, <2>2 DEF IsPadded
  <2>6. f[k] = Shifted(f[n], digits[k])
    BY <1>3, <2>2, <2>5
  <2>7. PICK u \in Seq(Nat) : u = SubSeq(w, 1, n) /\ SubSeq(w, 1, n + 1) = Append(u, w[k])
    <3>1. SubSeq(w, 1, n) \in Seq(Nat) /\ SubSeq(w, 1, n + 1) = Append(SubSeq(w, 1, n), w[n + 1])
      BY <1>5, <2>1
    <3>2. QED
      BY <2>2, <3>1
  <2>8. Total(SubSeq(w, 1, n + 1)) = Total(u) + w[k]
    <3>1. w[k] \in Nat
      BY <1>5, <2>2
    <3>2. QED
      BY <2>7, <3>1, TotalAppend
  <2>9. Reaches(f[n], 10 * p, Total(u))
    BY <2>3, <2>4, <2>7
  <2>10. Reaches(Shifted(f[n], digits[k]), p, Total(u) + digits[k] * p)
    BY <2>5, <2>9, ReachesNext
  <2>11. w[k] = digits[k] * p
    BY <1>5, <2>2, <2>4
  <2>12. QED
    BY <2>2, <2>4, <2>6, <2>8, <2>10, <2>11
<1>8. \A n \in Nat : n \in A
  <2> HIDE DEF A
  <2>1. QED
    BY <1>6, <1>7, EveryNumber
<1>9. PICK v : v = Total(w) /\ Reaches(f[m], t[places - m], v)
  <2>1. SubSeq(w, 1, m) = w
    BY <1>5
  <2>2. Reaches(f[m], t[places - m], Total(SubSeq(w, 1, m)))
    BY <1>8
  <2>3. QED
    BY <2>1, <2>2
<1> DEFINE B == {n \in Nat : m + n <= places => Reaches(f[m + n], t[places - (m + n)], v)}
<1>10. 0 \in B
  BY <1>9
<1>11. ASSUME NEW n \in Nat, n \in B PROVE n + 1 \in B
  <2>1. SUFFICES ASSUME m + (n + 1) <= places PROVE Reaches(f[m + (n + 1)], t[places - (m + (n + 1))], v)
    OBVIOUS
  <2>2. PICK k \in 1..places : k = m + (n + 1) /\ k \in (m + 1)..places /\ k - 1 = m + n /\ places - k \in 0..places
                               /\ places - (m + n) \in 1..places /\ places - (m + n) - 1 = places - k
    BY <1>1, <2>1
  <2>3. Reaches(f[m + n], t[places - (m + n)], v)
    BY <1>11, <2>2
  <2>4. PICK p \in Nat \ {0} : p = t[places - k] /\ t[places - (m + n)] = 10 * p
    BY <1>2, <2>2
  <2>5. all[k] = 0 /\ 0 \in Digits
    BY <1>1, <2>2 DEF IsPadded, Digits
  <2>6. f[k] = Shifted(f[m + n], 0)
    BY <1>3, <2>2, <2>5
  <2>7. Reaches(Shifted(f[m + n], 0), p, v + 0 * p)
    BY <2>3, <2>4, <2>5, ReachesNext
  <2>8. v + 0 * p = v
    BY <2>3 DEF Reaches
  <2>9. QED
    BY <2>2, <2>4, <2>6, <2>7, <2>8
<1>12. \A n \in Nat : n \in B
  <2> HIDE DEF B
  <2>1. QED
    BY <1>10, <1>11, EveryNumber
<1>13. PICK n \in Nat : n = places - m /\ m + n = places /\ places - (m + n) = 0 /\ m + n <= places
  BY <1>1
<1>14. Reaches(f[m + n], t[places - (m + n)], v)
  BY <1>12, <1>13
<1>15. QED
  BY <1>2, <1>5, <1>9, <1>13, <1>14

\* A character that is no digit.
LEMMA ScaledBad ==
    ASSUME NEW places \in Nat, NEW all, NEW f, IsScaled(f, all, places),
           NEW i \in 1..places, all[i] \notin Digits
    PROVE  f[places] = None
<1>1. \A k \in 1..places : f[k] = Shifted(f[k - 1], all[k])
  BY DEF IsScaled
<1> DEFINE A == {n \in Nat : i + n <= places => f[i + n] = None}
<1>2. 0 \in A
  <2>1. i + 0 = i
    OBVIOUS
  <2>2. f[i] = None
    BY <1>1 DEF Shifted
  <2>3. QED
    BY <2>1, <2>2
<1>3. ASSUME NEW n \in Nat, n \in A PROVE n + 1 \in A
  <2>1. SUFFICES ASSUME i + (n + 1) <= places PROVE f[i + (n + 1)] = None
    OBVIOUS
  <2>2. PICK k \in 1..places : k = i + (n + 1) /\ k - 1 = i + n /\ i + n <= places
    BY <2>1
  <2>3. f[k - 1] = None
    BY <1>3, <2>2
  <2>4. f[k] = None
    BY <1>1, <2>3 DEF Shifted
  <2>5. QED
    BY <2>2, <2>4
<1>4. \A n \in Nat : n \in A
  <2> HIDE DEF A
  <2>1. QED
    BY <1>2, <1>3, EveryNumber
<1>5. places - i \in Nat /\ i + (places - i) = places
  OBVIOUS
<1>6. QED
  BY <1>4, <1>5

LEMMA RepeatType ==
    ASSUME NEW S, NEW x \in S, NEW n \in Nat
    PROVE  Repeat(n, x) \in Seq(S) /\ Len(Repeat(n, x)) = n /\ \A i \in 1..n : Repeat(n, x)[i] = x
<1>1. Repeat(n, x) \in [1..n -> S]
  BY DEF Repeat
<1>2. \A i \in 1..n : Repeat(n, x)[i] = x
  BY DEF Repeat
<1>3. QED
  BY <1>1, <1>2

\* The digits of a text up to the scale, and with zeros behind them.
Kept(raw) == raw.whole \o SubSeq(raw.fraction, 1, Min({Scale, Len(raw.fraction)}))
Padded(raw) == Kept(raw) \o padding(Min({Scale, Len(raw.fraction)}))

LEMMA PaddedFacts ==
    ASSUME NEW raw \in Raws
    PROVE  /\ Kept(raw) \in Seq(Characters) /\ Padded(raw) \in Seq(Characters)
           /\ IsPadded(Padded(raw), Kept(raw), Len(raw.whole) + Scale)
           /\ Len(raw.whole) + Scale \in Nat
<1>1. PICK whole \in Seq(Characters) : whole = raw.whole
  BY DEF Raws
<1>2. PICK fraction \in Seq(Characters) : fraction = raw.fraction
  BY DEF Raws
<1>3. PICK a \in Nat : a = Len(whole)
  OBVIOUS
<1>4. PICK k \in Nat : k = Min({Scale, Len(raw.fraction)}) /\ k <= Scale /\ k <= Len(fraction)
  <2>1. PICK n \in Nat : n = Len(fraction)
    OBVIOUS
  <2>2. Scale \in Nat
    BY DecimalAssumption
  <2>3. QED
    BY <1>2, <2>1, <2>2, MinOfTwo
<1>5. PICK part \in Seq(Characters) : part = SubSeq(fraction, 1, k) /\ Len(part) = k
  <2>1. SubSeq(fraction, 1, k) \in Seq(Characters)
    <3>1. \A i \in 1..k : fraction[i] \in Characters
      BY <1>4
    <3>2. QED
      BY <3>1
  <2>2. Len(SubSeq(fraction, 1, k)) = k
    OBVIOUS
  <2>3. QED
    BY <2>1, <2>2, Zenon
<1>6. PICK digits \in Seq(Characters) : digits = Kept(raw) /\ Len(digits) = a + k
  <2>1. whole \o part \in Seq(Characters) /\ Len(whole \o part) = a + k
    BY <1>3, <1>5
  <2>2. Kept(raw) = whole \o part
    BY <1>1, <1>2, <1>4, <1>5 DEF Kept
  <2>3. QED
    BY <2>1, <2>2
<1>7. PICK z \in Nat : z = Scale - k
  BY <1>4, DecimalAssumption
<1>8. PICK zeros \in Seq(Characters) : zeros = Repeat(z, 0) /\ Len(zeros) = z /\ \A i \in 1..z : zeros[i] = 0
  <2>1. 0 \in Characters
    BY DEF Characters, Digits
  <2>2. Repeat(z, 0) \in Seq(Characters) /\ Len(Repeat(z, 0)) = z /\ \A i \in 1..z : Repeat(z, 0)[i] = 0
    BY <2>1, RepeatType
  <2>3. QED
    BY <2>2, Zenon
<1>9. PICK all \in Seq(Characters) : all = Padded(raw) /\ all = digits \o zeros
  <2>1. digits \o zeros \in Seq(Characters)
    OBVIOUS
  <2>2. Padded(raw) = digits \o zeros
    BY <1>4, <1>6, <1>7, <1>8 DEF Padded, padding
  <2>3. QED
    BY <2>1, <2>2
<1>10. PICK x \in Nat : x = Len(digits)
  OBVIOUS
<1>11. Len(all) = x + z /\ (\A i \in 1..x : all[i] = digits[i]) /\ (\A i \in 1..z : all[x + i] = zeros[i])
  <2>1. /\ Len(digits \o zeros) = Len(digits) + Len(zeros)
        /\ \A i \in 1..Len(digits) : (digits \o zeros)[i] = digits[i]
        /\ \A i \in 1..Len(zeros) : (digits \o zeros)[Len(digits) + i] = zeros[i]
    OBVIOUS
  <2>2. QED
    BY <1>8, <1>9, <1>10, <2>1
<1>12. ASSUME NEW i \in (x + 1)..(x + z) PROVE all[i] = 0
  <2>1. PICK j \in 1..z : i = x + j
    <3>1. i - x \in 1..z /\ i = x + (i - x)
      OBVIOUS
    <3>2. QED
      BY <3>1
  <2>2. QED
    BY <1>8, <1>11, <2>1
<1>13. PICK places \in Nat : places = Len(raw.whole) + Scale /\ places = x + z /\ x <= places
  <2>1. Len(raw.whole) = a
    BY <1>1, <1>3
  <2>2. x = a + k
    BY <1>6, <1>10
  <2>3. a + Scale \in Nat /\ a + Scale = x + z /\ x <= a + Scale
    BY <1>4, <1>7, <2>2, DecimalAssumption
  <2>4. QED
    BY <2>1, <2>3
<1>14. IsPadded(all, digits, places)
  BY <1>10, <1>11, <1>12, <1>13 DEF IsPadded
<1>15. QED
  BY <1>6, <1>9, <1>13, <1>14

\* What parse_decimal (model.rs) reads is the sum of the digits by place, cut off at the scale, and
\* nothing if a character is no digit or the sum is too large: for every text, scale and maximum.
THEOREM DecimalsExact == ASSUME NEW raw \in Raws PROVE parse_decimal(raw) = Exact(raw)
<1>1. PICK places \in Nat : places = Len(raw.whole) + Scale
  BY PaddedFacts
<1>2. PICK digits \in Seq(Characters) : digits = Kept(raw)
  BY PaddedFacts
<1>3. PICK all \in Seq(Characters) : all = Padded(raw) /\ IsPadded(all, digits, places)
  BY <1>1, <1>2, PaddedFacts
<1>4. Len(all) = places
  BY <1>3 DEF IsPadded
<1>5. PICK f : IsScaled(f, all, places) /\ checked(all) = f[places]
  BY <1>4, CheckedFacts
<1>6. PICK t : IsTens(t, places) /\ t = CHOOSE u : IsTens(u, places)
  <2>1. \E u : IsTens(u, places)
    BY TensExist
  <2>2. QED
    BY <2>1
<1>7. PICK empty \in BOOLEAN : empty = (raw.whole = <<>> /\ raw.fraction = <<>>)
  OBVIOUS
<1>8. parse_decimal(raw) =
        IF empty \/ f[places] = None THEN None ELSE IF raw.negative THEN -f[places] ELSE f[places]
  <2>1. all = raw.whole \o SubSeq(raw.fraction, 1, Min({Scale, Len(raw.fraction)}))
                 \o padding(Min({Scale, Len(raw.fraction)}))
    BY <1>3 DEF Padded, Kept
  <2>2. QED
    BY <1>5, <1>7, <2>1 DEF parse_decimal
<1>9. PICK v : v = Total(Weighted(digits, t, places))
  OBVIOUS
<1>10. Exact(raw) =
        IF empty \/ \E i \in DOMAIN digits : digits[i] \notin Digits THEN None
        ELSE IF v > MaxDecimal THEN None ELSE IF raw.negative THEN -v ELSE v
  <2>1. digits = raw.whole \o SubSeq(raw.fraction, 1, Min({Scale, Len(raw.fraction)}))
    BY <1>2 DEF Kept
  <2>2. v = SumFunction([i \in DOMAIN digits |-> digits[i] * t[places - i]])
    BY <1>9 DEF Total, Weighted, SumFunction, SumFunctionOnSet, FoldFunction
  <2>3. t = CHOOSE u : u = [n \in 0..places |-> IF n = 0 THEN 1 ELSE 10 * u[n - 1]]
    BY <1>6 DEF IsTens
  <2>4. Exact(raw) =
          IF \/ raw.whole = <<>> /\ raw.fraction = <<>>
             \/ \E i \in DOMAIN digits : digits[i] \notin Digits
          THEN None
          ELSE IF SumFunction([i \in DOMAIN digits |-> digits[i] * t[places - i]]) > MaxDecimal THEN None
               ELSE IF raw.negative THEN -SumFunction([i \in DOMAIN digits |-> digits[i] * t[places - i]])
               ELSE SumFunction([i \in DOMAIN digits |-> digits[i] * t[places - i]])
    BY <1>1, <2>1, <2>3 DEF Exact
  <2>5. QED
    BY <1>7, <2>2, <2>4
<1>11. CASE \E i \in DOMAIN digits : digits[i] \notin Digits
  <2>1. PICK i \in 1..Len(digits) : digits[i] \notin Digits
    BY <1>11
  <2>2. i \in 1..places /\ all[i] \notin Digits
    BY <1>3, <2>1 DEF IsPadded
  <2>3. f[places] = None
    BY <1>5, <2>2, ScaledBad
  <2>4. QED
    BY <1>8, <1>10, <1>11, <2>3
<1>12. CASE ~\E i \in DOMAIN digits : digits[i] \notin Digits
  <2>1. digits \in Seq(Digits)
    BY <1>12
  <2>2. Reaches(f[places], 1, v)
    BY <1>3, <1>5, <1>6, <1>9, <2>1, ScaledSum
  <2>3. CASE f[places] = None
    <3>1. v > MaxDecimal
      <4>1. None \notin 0..MaxDecimal
        BY DecimalAssumption, ServiceAssumption
      <4>2. QED
        BY <2>2, <2>3, <4>1 DEF Reaches
    <3>2. QED
      BY <1>8, <1>10, <1>12, <2>3, <3>1
  <2>4. CASE f[places] # None
    <3>1. v = f[places] /\ ~(v > MaxDecimal)
      BY <2>2, <2>4, DecimalAssumption DEF Reaches
    <3>2. QED
      BY <1>8, <1>10, <1>12, <2>4, <3>1
  <2>5. QED
    BY <2>3, <2>4
<1>13. QED
  BY <1>11, <1>12

-----------------------------------------------------------------------------
(* The columns of a record.                                                *)

Variants == {"TimestampMicros", "Text", "U64", "I64", "Boolean", "Decimal", "Null"}
SqlTypes == {"TIMESTAMPTZ", "VARCHAR", "JSON", "UBIGINT", "BIGINT", "INTEGER", "DECIMAL", "BOOLEAN"}

\* A column keeps a value, or the value is NULL and may be.
Keeps(type, value, missing) ==
    column_value(arrow_type(type), value) = "Null" => value = "Null" /\ missing

\* Values that have their columns in a list of types.
Stores(values, types, missing) ==
    /\ values \in Seq(Variants) /\ types \in Seq(SqlTypes) /\ Len(values) = Len(types)
    /\ \A k \in 1..Len(values) : Keeps(types[k], values[k], missing)

LEMMA StoresRepeated ==
    ASSUME NEW n \in Nat, NEW x \in Variants, NEW y \in SqlTypes, NEW missing, Keeps(y, x, missing)
    PROVE  Stores(Repeat(n, x), Repeat(n, y), missing)
<1>1. Repeat(n, x) \in Seq(Variants) /\ Len(Repeat(n, x)) = n /\ \A i \in 1..n : Repeat(n, x)[i] = x
  BY RepeatType
<1>2. Repeat(n, y) \in Seq(SqlTypes) /\ Len(Repeat(n, y)) = n /\ \A i \in 1..n : Repeat(n, y)[i] = y
  BY RepeatType
<1>3. QED
  BY <1>1, <1>2, Zenon DEF Stores

LEMMA StoresBoth ==
    ASSUME NEW a, NEW b, NEW s, NEW t, NEW missing, Stores(a, s, missing), Stores(b, t, missing)
    PROVE  Stores(a \o b, s \o t, missing)
<1>1. PICK v \in Seq(Variants) : v = a
  BY DEF Stores
<1>2. PICK w \in Seq(Variants) : w = b
  BY DEF Stores
<1>3. PICK x \in Seq(SqlTypes) : x = s
  BY DEF Stores
<1>4. PICK y \in Seq(SqlTypes) : y = t
  BY DEF Stores
<1>5. PICK m \in Nat : m = Len(v) /\ m = Len(x)
  BY <1>1, <1>3 DEF Stores
<1>6. PICK n \in Nat : n = Len(w) /\ n = Len(y)
  BY <1>2, <1>4 DEF Stores
<1>7. /\ v \o w \in Seq(Variants) /\ Len(v \o w) = m + n
      /\ \A k \in 1..m : (v \o w)[k] = v[k]
      /\ \A k \in 1..n : (v \o w)[m + k] = w[k]
  <2>1. v \o w \in Seq(Variants)
    OBVIOUS
  <2>2. /\ Len(v \o w) = Len(v) + Len(w)
        /\ \A k \in 1..Len(v) : (v \o w)[k] = v[k]
        /\ \A k \in 1..Len(w) : (v \o w)[Len(v) + k] = w[k]
    OBVIOUS
  <2>3. QED
    BY <1>5, <1>6, <2>1, <2>2
<1>8. /\ x \o y \in Seq(SqlTypes) /\ Len(x \o y) = m + n
      /\ \A k \in 1..m : (x \o y)[k] = x[k]
      /\ \A k \in 1..n : (x \o y)[m + k] = y[k]
  <2>1. x \o y \in Seq(SqlTypes)
    OBVIOUS
  <2>2. /\ Len(x \o y) = Len(x) + Len(y)
        /\ \A k \in 1..Len(x) : (x \o y)[k] = x[k]
        /\ \A k \in 1..Len(y) : (x \o y)[Len(x) + k] = y[k]
    OBVIOUS
  <2>3. QED
    BY <1>5, <1>6, <2>1, <2>2
<1>9. ASSUME NEW k \in 1..(m + n) PROVE Keeps((x \o y)[k], (v \o w)[k], missing)
  <2>1. CASE k \in 1..m
    BY <1>1, <1>3, <1>5, <1>7, <1>8, <2>1 DEF Stores
  <2>2. CASE k \notin 1..m
    <3>1. PICK j \in 1..n : k = m + j
      <4>1. k - m \in 1..n /\ k = m + (k - m)
        BY <2>2
      <4>2. QED
        BY <4>1
    <3>2. QED
      BY <1>2, <1>4, <1>6, <1>7, <1>8, <3>1 DEF Stores
  <2>3. QED
    BY <2>1, <2>2
<1>10. QED
  BY <1>1, <1>2, <1>3, <1>4, <1>7, <1>8, <1>9 DEF Stores

\* The pieces that records and tables are put together from.
LEMMA Pieces ==
    ASSUME NEW n \in Nat, NEW missing
    PROVE  /\ Stores(timestamp(n), TIMESTAMPTZ(n), missing)
           /\ Stores(text(n), VARCHAR(n), missing) /\ Stores(text(n), JSON(n), missing)
           /\ Stores(uint(n), UBIGINT(n), missing) /\ Stores(integer(n), BIGINT(n), missing)
           /\ Stores(integer(n), INTEGER(n), missing) /\ Stores(boolean(n), BOOL(n), missing)
           /\ Stores(decimal(n), DECIMAL(n), missing)
<1>1. /\ Keeps("TIMESTAMPTZ", "TimestampMicros", missing) /\ Keeps("VARCHAR", "Text", missing)
      /\ Keeps("JSON", "Text", missing) /\ Keeps("UBIGINT", "U64", missing) /\ Keeps("BIGINT", "I64", missing)
      /\ Keeps("INTEGER", "I64", missing) /\ Keeps("BOOLEAN", "Boolean", missing) /\ Keeps("DECIMAL", "Decimal", missing)
  BY DEF Keeps, column_value, arrow_type
<1>2. \A x \in Variants : \A y \in SqlTypes : Keeps(y, x, missing) => Stores(Repeat(n, x), Repeat(n, y), missing)
  BY StoresRepeated
<1>3. QED
  BY <1>1, <1>2 DEF Variants, SqlTypes, timestamp, text, uint, integer, boolean, decimal,
                    TIMESTAMPTZ, VARCHAR, JSON, UBIGINT, BIGINT, INTEGER, BOOL, DECIMAL

\* Numbers of a futures event are NULL if they cannot be read.
LEMMA NumberPieces ==
    ASSUME NEW n \in Nat, NEW raw, NEW missing, missing = (parse_decimal(raw) = None)
    PROVE  Stores(futures_decimal(n, raw), DECIMAL(n), missing)
<1>1. CASE missing
  <2>1. futures_decimal(n, raw) = Repeat(n, "Null")
    BY <1>1 DEF futures_decimal
  <2>2. Keeps("DECIMAL", "Null", missing)
    BY <1>1 DEF Keeps
  <2>3. QED
    BY <2>1, <2>2, StoresRepeated DEF Variants, SqlTypes, DECIMAL
<1>2. CASE ~missing
  <2>1. futures_decimal(n, raw) = decimal(n)
    BY <1>2 DEF futures_decimal, decimal
  <2>2. QED
    BY <2>1, Pieces
<1>3. QED
  BY <1>1, <1>2

\* All values of a record have their columns, but the symbol type, the last value but the source.
StoresRow(values, types, missing) ==
    /\ values \in Seq(Variants) /\ types \in Seq(SqlTypes) /\ Len(values) = Len(types)
    /\ \A k \in 1..Len(values) : Keeps(types[k], values[k], missing \/ k = Len(values) - 1)

LEMMA RowStored ==
    ASSUME NEW values, NEW types, NEW missing, Stores(values, types, missing)
    PROVE  StoresRow(values, types, missing)
  BY DEF Stores, StoresRow, Keeps

IsConcat(q, a, b) ==
    /\ Len(q) = Len(a) + Len(b)
    /\ \A k \in 1..Len(a) : q[k] = a[k]
    /\ \A k \in 1..Len(b) : q[Len(a) + k] = b[k]

LEMMA Joins == ASSUME NEW S, NEW a \in Seq(S), NEW b \in Seq(S) PROVE IsConcat(a \o b, a, b)
  BY JoinedPositions DEF IsConcat

\* The positions of two single values behind a list.
IsBehind(q, m, a, b, c) ==
    Len(q) = m + 2 /\ (\A k \in 1..m : q[k] = a[k]) /\ q[m + 1] = b[1] /\ q[m + 2] = c[1]

LEMMA TwoBehind ==
    ASSUME NEW S, NEW a \in Seq(S), NEW b \in Seq(S), NEW c \in Seq(S), Len(b) = 1, Len(c) = 1,
           NEW m \in Nat, m = Len(a)
    PROVE  a \o b \o c \in Seq(S) /\ IsBehind(a \o b \o c, m, a, b, c)
<1>1. PICK d \in Seq(S) : d = a \o b
  <2>1. a \o b \in Seq(S)
    OBVIOUS
  <2>2. QED
    BY <2>1, Zenon
<1>2. Len(d) = m + 1 /\ (\A k \in 1..m : d[k] = a[k]) /\ d[m + 1] = b[1]
  <2>1. IsConcat(d, a, b)
    BY <1>1, Joins, Zenon
  <2>2. QED
    BY <2>1 DEF IsConcat
<1>3. d \o c \in Seq(S)
  OBVIOUS
<1>4. PICK e \in Seq(S) : e = d \o c
  BY <1>3, Zenon
<1>5. Len(e) = m + 2 /\ (\A k \in 1..(m + 1) : e[k] = d[k]) /\ e[m + 2] = c[1]
  <2>1. IsConcat(e, d, c)
    BY <1>4, Joins, Zenon
  <2>2. QED
    BY <1>2, <2>1 DEF IsConcat
<1>6. e[m + 1] = b[1] /\ \A k \in 1..m : e[k] = a[k]
  <2>1. m + 1 \in 1..(m + 1) /\ \A k \in 1..m : k \in 1..(m + 1)
    OBVIOUS
  <2>2. QED
    BY <1>2, <1>5, <2>1
<1>7. e = a \o b \o c
  BY <1>1, <1>4
<1>8. QED
  BY <1>5, <1>6, <1>7, Zenon DEF IsBehind

LEMMA StoresThree ==
    ASSUME NEW a, NEW b, NEW c, NEW s, NEW t, NEW u, NEW missing,
           Stores(a, s, missing), Stores(b, t, TRUE), Stores(c, u, missing), Len(b) = 1, Len(c) = 1
    PROVE  StoresRow(a \o b \o c, s \o t \o u, missing)
<1>1. PICK m \in Nat : m = Len(a) /\ m = Len(s)
  BY DEF Stores
<1>2. Len(t) = 1 /\ Len(u) = 1
  BY DEF Stores
<1>3. PICK v : v = a \o b \o c
  OBVIOUS
<1>4. PICK w : w = s \o t \o u
  OBVIOUS
<1>5. v \in Seq(Variants) /\ Len(v) = m + 2 /\ (\A k \in 1..m : v[k] = a[k]) /\ v[m + 1] = b[1] /\ v[m + 2] = c[1]
  <2>1. a \in Seq(Variants) /\ b \in Seq(Variants) /\ c \in Seq(Variants)
    BY DEF Stores
  <2>2. v \in Seq(Variants) /\ IsBehind(v, m, a, b, c)
    BY <1>1, <1>3, <2>1, TwoBehind
  <2>3. QED
    BY <2>2 DEF IsBehind
<1>6. w \in Seq(SqlTypes) /\ Len(w) = m + 2 /\ (\A k \in 1..m : w[k] = s[k]) /\ w[m + 1] = t[1] /\ w[m + 2] = u[1]
  <2>1. s \in Seq(SqlTypes) /\ t \in Seq(SqlTypes) /\ u \in Seq(SqlTypes)
    BY DEF Stores
  <2>2. w \in Seq(SqlTypes) /\ IsBehind(w, m, s, t, u)
    BY <1>1, <1>2, <1>4, <2>1, TwoBehind
  <2>3. QED
    BY <2>2 DEF IsBehind
<1>7. ASSUME NEW k \in 1..(m + 2) PROVE Keeps(w[k], v[k], missing \/ k = (m + 2) - 1)
  <2>1. CASE k \in 1..m
    <3>1. Keeps(s[k], a[k], missing)
      BY <1>1, <2>1 DEF Stores
    <3>2. QED
      BY <1>5, <1>6, <2>1, <3>1 DEF Keeps
  <2>2. CASE k = m + 1
    <3>1. Keeps(t[1], b[1], TRUE)
      <4>1. 1 \in 1..Len(b)
        OBVIOUS
      <4>2. QED
        BY <4>1, Zenon DEF Stores
    <3>2. QED
      BY <1>5, <1>6, <2>2, <3>1 DEF Keeps
  <2>3. CASE k = m + 2
    <3>1. Keeps(u[1], c[1], missing)
      BY DEF Stores
    <3>2. QED
      BY <1>5, <1>6, <2>3, <3>1 DEF Keeps
  <2>4. QED
    BY <2>1, <2>2, <2>3
<1>8. QED
  BY <1>3, <1>4, <1>5, <1>6, <1>7 DEF StoresRow

LEMMA SymbolTypeStored ==
    ASSUME NEW values, NEW types, NEW missing, Stores(values, types, missing),
           NEW st, st \in {integer(1), Repeat(1, "Null")}
    PROVE  StoresRow(values \o st \o source, types \o INTEGER(1) \o VARCHAR(1), missing)
<1>1. Stores(st, INTEGER(1), TRUE) /\ Len(st) = 1
  <2>1. CASE st = integer(1)
    BY <2>1, Pieces, RepeatType DEF integer, Variants
  <2>2. CASE st = Repeat(1, "Null")
    <3>1. Keeps("INTEGER", "Null", TRUE)
      BY DEF Keeps
    <3>2. QED
      BY <2>2, <3>1, StoresRepeated, RepeatType DEF INTEGER, Variants, SqlTypes
  <2>3. QED
    BY <2>1, <2>2
<1>2. Stores(source, VARCHAR(1), missing) /\ Len(source) = 1
  BY Pieces, RepeatType DEF source, text, Variants
<1>3. QED
  BY <1>1, <1>2, StoresThree

\* What a record keeps of its event.
IsKept(record, raw) ==
    /\ FieldCount(record)
    /\ \A k \in DOMAIN record_columns(record) :
         record_columns(record)[k] = "Null" =>
             record.values[k] = "Null" /\ (Exact(raw) = None \/ k = Len(record.values) - 1)
    /\ record.amount = IF Exact(raw) = None /\ record.table \in SpotTables THEN 0 ELSE Exact(raw)

LEMMA RowKept ==
    ASSUME NEW record, NEW raw, StoresRow(record.values, create_table(record.table), Exact(raw) = None),
           record.amount = IF Exact(raw) = None /\ record.table \in SpotTables THEN 0 ELSE Exact(raw)
    PROVE  IsKept(record, raw)
<1>1. PICK v \in Seq(Variants) : v = record.values
  BY DEF StoresRow
<1>2. PICK t \in Seq(SqlTypes) : t = create_table(record.table)
  BY DEF StoresRow
<1>3. PICK n \in Nat : n = Len(v) /\ n = Len(t) /\ DOMAIN v = 1..n /\ DOMAIN t = 1..n
  BY <1>1, <1>2 DEF StoresRow
<1>4. schema_for(record.table) = [i \in 1..n |-> arrow_type(t[i])]
  BY <1>2, <1>3 DEF schema_for
<1>5. Len(schema_for(record.table)) = n
  BY <1>3, <1>4
<1>6. FieldCount(record)
  BY <1>1, <1>3, <1>5 DEF FieldCount
<1>7. record_columns(record) = [i \in 1..n |-> column_value(arrow_type(t[i]), v[i])]
  BY <1>1, <1>3, <1>4 DEF record_columns
<1>8. \A k \in 1..n : Keeps(t[k], v[k], Exact(raw) = None \/ k = Len(v) - 1)
  BY <1>1, <1>2, <1>3 DEF StoresRow
<1>9. QED
  BY <1>1, <1>6, <1>7, <1>8 DEF IsKept, Keeps

-----------------------------------------------------------------------------
(* The record of an event.                                                 *)

Unread(data) == Exact(data.amount) = None

\* One record, which keeps the event and goes to a market, or to the dataset's.
IsResult(result, data, market) ==
    \E record : result = Ok(<<record>>) /\ IsKept(record, data.amount) /\ record.target_market = market

LEMMA SpotRow ==
    ASSUME NEW table \in SpotTables, NEW data, data.amount \in Raws, NEW values,
           Stores(values, create_table(table), Unread(data))
    PROVE  IsResult(spot_record(table, data, values), data, None)
<1>1. PICK amount : amount = parse_decimal(data.amount) /\ amount = Exact(data.amount)
  BY DecimalsExact
<1>2. PICK record : record = [table |-> table, values |-> values, target_market |-> None,
                              amount |-> IF amount = None THEN 0 ELSE amount]
  OBVIOUS
<1>3. spot_record(table, data, values) = Ok(<<record>>)
  BY <1>1, <1>2 DEF spot_record
<1>4. IsKept(record, data.amount)
  BY <1>1, <1>2, RowStored, RowKept DEF Unread
<1>5. QED
  BY <1>2, <1>3, <1>4 DEF IsResult

LEMMA FuturesRow ==
    ASSUME NEW table, table \notin SpotTables, NEW data, data.amount \in Raws, NEW values,
           StoresRow(values, create_table(table), Unread(data)), NEW market
    PROVE  IsResult(futures_record(table, data, values, market), data, market)
<1>1. PICK amount : amount = parse_decimal(data.amount) /\ amount = Exact(data.amount)
  BY DecimalsExact
<1>2. PICK record : record = [table |-> table, values |-> values, target_market |-> market, amount |-> amount]
  OBVIOUS
<1>3. futures_record(table, data, values, market) = Ok(<<record>>)
  BY <1>1, <1>2 DEF futures_record
<1>4. IsKept(record, data.amount)
  BY <1>1, <1>2, RowKept DEF Unread
<1>5. QED
  BY <1>2, <1>3, <1>4 DEF IsResult

\* The spot parser (parser.rs): every type of event it knows, one record.
SpotTypes == {"depthUpdate", "aggTrade", "trade", "kline", "24hrMiniTicker", "24hrTicker",
              "1hTicker", "4hTicker", "1dTicker", "avgPrice"}
IsBookTicker(stream, data) ==
    data.e = "" /\ stream # None /\ stream.symbol # None /\ stream.stream = "bookTicker"

LEMMA SpotEvents ==
    ASSUME NEW stream, NEW data, data.amount \in Raws, data.e \in SpotTypes \/ IsBookTicker(stream, data)
    PROVE  IF data.e = "kline" /\ ~data.nested.ok THEN parse_event(stream, data) = Err(<<>>)
           ELSE IsResult(parse_event(stream, data), data, None)
<1>1. CASE data.e = "depthUpdate"
  <2>1. Stores(timestamp(2) \o text(1) \o uint(2) \o source \o text(2), create_table("depth_updates"), Unread(data))
    BY Pieces, StoresBoth, Zenon DEF source, create_table
  <2>2. IsResult(parse_depth(data), data, None)
    BY <2>1, SpotRow DEF parse_depth, SpotTables
  <2>3. QED
    BY <1>1, <2>2 DEF parse_event
<1>2. CASE data.e = "aggTrade"
  <2>1. Stores(timestamp(2) \o text(1) \o uint(1) \o decimal(2) \o uint(2) \o timestamp(1) \o boolean(2) \o source,
               create_table("aggregate_trades"), Unread(data))
    BY Pieces, StoresBoth, Zenon DEF source, create_table
  <2>2. QED
    BY <1>2, <2>1, SpotRow DEF parse_event, SpotTables
<1>3. CASE data.e = "trade"
  <2>1. Stores(timestamp(2) \o text(1) \o uint(1) \o decimal(2) \o timestamp(1) \o boolean(2) \o source,
               create_table("trades"), Unread(data))
    BY Pieces, StoresBoth, Zenon DEF source, create_table
  <2>2. QED
    BY <1>3, <2>1, SpotRow DEF parse_event, SpotTables
<1>4. CASE data.e = "kline"
  <2>1. parse_event(stream, data) = parse_kline(data)
    BY <1>4 DEF parse_event
  <2>2. Stores(timestamp(2) \o text(1) \o timestamp(2) \o text(2) \o integer(2) \o decimal(5) \o uint(1)
               \o boolean(1) \o decimal(4) \o source, create_table("klines"), Unread(data))
    BY Pieces, StoresBoth, Zenon DEF source, create_table
  <2>3. QED
    BY <1>4, <2>1, <2>2, SpotRow DEF parse_kline, SpotTables
<1>5. CASE data.e = "24hrMiniTicker"
  <2>1. Stores(timestamp(2) \o text(1) \o decimal(6) \o source, create_table("mini_tickers"), Unread(data))
    BY Pieces, StoresBoth, Zenon DEF source, create_table
  <2>2. QED
    BY <1>5, <2>1, SpotRow DEF parse_event, SpotTables
<1>6. CASE data.e = "24hrTicker"
  <2>1. Stores(timestamp(2) \o text(1) \o decimal(15) \o timestamp(2) \o integer(2) \o uint(1) \o source,
               create_table("tickers"), Unread(data))
    BY Pieces, StoresBoth, Zenon DEF source, create_table
  <2>2. QED
    BY <1>6, <2>1, SpotRow DEF parse_event, parse_ticker, SpotTables
<1>7. CASE data.e \in {"1hTicker", "4hTicker", "1dTicker"}
  <2>1. Stores(timestamp(2) \o text(2) \o decimal(9) \o timestamp(2) \o integer(2) \o uint(1) \o source,
               create_table("rolling_tickers"), Unread(data))
    BY Pieces, StoresBoth, Zenon DEF source, create_table
  <2>2. parse_event(stream, data) = parse_rolling_ticker(data)
    BY <1>7 DEF parse_event
  <2>3. QED
    BY <1>7, <2>1, <2>2, SpotRow DEF parse_rolling_ticker, SpotTables
<1>8. CASE data.e = "avgPrice"
  <2>1. Stores(timestamp(2) \o text(2) \o decimal(1) \o timestamp(1) \o source,
               create_table("average_prices"), Unread(data))
    BY Pieces, StoresBoth, Zenon DEF source, create_table
  <2>2. QED
    BY <1>8, <2>1, SpotRow DEF parse_event, SpotTables
<1>9. CASE IsBookTicker(stream, data)
  <2>1. Stores(timestamp(1) \o text(1) \o uint(1) \o decimal(4) \o source, create_table("book_tickers"), Unread(data))
    BY Pieces, StoresBoth, Zenon DEF source, create_table
  <2>2. QED
    BY <1>9, <2>1, SpotRow DEF parse_event, IsBookTicker, SpotTables
<1>10. QED
  BY <1>1, <1>2, <1>3, <1>4, <1>5, <1>6, <1>7, <1>8, <1>9 DEF SpotTypes

LEMMA OptionalType == \A st : optional_integer(st) \in {integer(1), Repeat(1, "Null")}
  BY DEF optional_integer

\* The numbers of an event that cannot be read are NULL.
LEMMA Numbers ==
    ASSUME NEW data, data.amount \in Raws, NEW n \in Nat
    PROVE  Stores(futures_decimal(n, data.amount), DECIMAL(n), Unread(data))
<1>1. parse_decimal(data.amount) = Exact(data.amount)
  BY DecimalsExact
<1>2. QED
  BY <1>1, NumberPieces DEF Unread

\* The futures parser (futures_parser.rs): every type of event it knows, one record; a record with
\* an object inside looks for its market there as well.
FuturesTypes == {"depthUpdate", "aggTrade", "bookTicker", "markPriceUpdate", "forceOrder",
                 "24hrMiniTicker", "24hrTicker", "kline"}
Marked(data) == IF HasNested(data.e) THEN target(data) ELSE target_market(data.st)

LEMMA FuturesEvents ==
    ASSUME NEW data, data.amount \in Raws, data.e \in FuturesTypes
    PROVE  IF HasNested(data.e) /\ ~data.nested.ok THEN futures_event(data) = Err(<<>>)
           ELSE IsResult(futures_event(data), data, Marked(data))
<1>0. \A n \in Nat : Stores(futures_decimal(n, data.amount), DECIMAL(n), Unread(data))
  BY Numbers
<1>1. CASE data.e = "depthUpdate"
  <2>1. Stores(timestamp(3) \o text(2) \o uint(3) \o text(2),
               TIMESTAMPTZ(3) \o VARCHAR(2) \o UBIGINT(3) \o JSON(2), Unread(data))
    BY Pieces, StoresBoth, Zenon
  <2>2. StoresRow(timestamp(3) \o text(2) \o uint(3) \o text(2) \o optional_integer(data.st) \o source,
                  create_table("futures_depth_updates"), Unread(data))
    BY <2>1, OptionalType, SymbolTypeStored, Zenon DEF create_table
  <2>3. QED
    BY <1>1, <2>2, FuturesRow DEF futures_event, futures_depth, SpotTables, Marked, HasNested
<1>2. CASE data.e = "aggTrade"
  <2>1. Stores(timestamp(2) \o text(2) \o uint(1) \o futures_decimal(3, data.amount) \o uint(2)
               \o timestamp(1) \o boolean(1),
               TIMESTAMPTZ(2) \o VARCHAR(2) \o UBIGINT(1) \o DECIMAL(3) \o UBIGINT(2) \o TIMESTAMPTZ(1) \o BOOL(1),
               Unread(data))
    BY <1>0, Pieces, StoresBoth, Zenon
  <2>2. StoresRow(timestamp(2) \o text(2) \o uint(1) \o futures_decimal(3, data.amount) \o uint(2)
                  \o timestamp(1) \o boolean(1) \o optional_integer(data.st) \o source,
                  create_table("futures_aggregate_trades"), Unread(data))
    BY <2>1, OptionalType, SymbolTypeStored, Zenon DEF create_table
  <2>3. QED
    BY <1>2, <2>2, FuturesRow DEF futures_event, aggregate_trade, SpotTables, Marked, HasNested
<1>3. CASE data.e = "bookTicker"
  <2>1. Stores(timestamp(3) \o text(1) \o uint(1) \o futures_decimal(4, data.amount) \o text(1),
               TIMESTAMPTZ(3) \o VARCHAR(1) \o UBIGINT(1) \o DECIMAL(4) \o VARCHAR(1), Unread(data))
    BY <1>0, Pieces, StoresBoth, Zenon
  <2>2. StoresRow(timestamp(3) \o text(1) \o uint(1) \o futures_decimal(4, data.amount) \o text(1)
                  \o optional_integer(data.st) \o source, create_table("futures_book_tickers"), Unread(data))
    BY <2>1, OptionalType, SymbolTypeStored, Zenon DEF create_table
  <2>3. QED
    BY <1>3, <2>2, FuturesRow DEF futures_event, book_ticker, SpotTables, Marked, HasNested
<1>4. CASE data.e = "markPriceUpdate"
  <2>1. Stores(timestamp(2) \o text(2) \o futures_decimal(4, data.amount) \o timestamp(1),
               TIMESTAMPTZ(2) \o VARCHAR(2) \o DECIMAL(4) \o TIMESTAMPTZ(1), Unread(data))
    BY <1>0, Pieces, StoresBoth, Zenon
  <2>2. StoresRow(timestamp(2) \o text(2) \o futures_decimal(4, data.amount) \o timestamp(1)
                  \o optional_integer(data.st) \o source, create_table("futures_mark_prices"), Unread(data))
    BY <2>1, OptionalType, SymbolTypeStored, Zenon DEF create_table
  <2>3. QED
    BY <1>4, <2>2, FuturesRow DEF futures_event, mark_price, SpotTables, Marked, HasNested
<1>5. CASE data.e = "forceOrder"
  <2>1. Stores(timestamp(2) \o text(4) \o futures_decimal(3, data.amount) \o text(1)
               \o futures_decimal(2, data.amount) \o timestamp(1) \o text(1),
               TIMESTAMPTZ(2) \o VARCHAR(4) \o DECIMAL(3) \o VARCHAR(1) \o DECIMAL(2) \o TIMESTAMPTZ(1) \o VARCHAR(1),
               Unread(data))
    BY <1>0, Pieces, StoresBoth, Zenon
  <2>2. StoresRow(timestamp(2) \o text(4) \o futures_decimal(3, data.amount) \o text(1)
                  \o futures_decimal(2, data.amount) \o timestamp(1) \o text(1) \o symbol_type(data) \o source,
                  create_table("futures_liquidations"), Unread(data))
    BY <2>1, OptionalType, SymbolTypeStored, Zenon DEF create_table, symbol_type
  <2>3. futures_event(data) = liquidation(data) /\ HasNested(data.e)
    BY <1>5 DEF futures_event, HasNested
  <2>4. QED
    BY <2>2, <2>3, FuturesRow DEF liquidation, SpotTables, Marked
<1>6. CASE data.e = "24hrMiniTicker"
  <2>1. Stores(timestamp(2) \o text(2) \o futures_decimal(6, data.amount),
               TIMESTAMPTZ(2) \o VARCHAR(2) \o DECIMAL(6), Unread(data))
    BY <1>0, Pieces, StoresBoth, Zenon
  <2>2. StoresRow(timestamp(2) \o text(2) \o futures_decimal(6, data.amount) \o optional_integer(data.st) \o source,
                  create_table("futures_mini_tickers"), Unread(data))
    BY <2>1, OptionalType, SymbolTypeStored, Zenon DEF create_table
  <2>3. QED
    BY <1>6, <2>2, FuturesRow DEF futures_event, mini_ticker, SpotTables, Marked, HasNested
<1>7. CASE data.e = "24hrTicker"
  <2>1. Stores(timestamp(2) \o text(2) \o futures_decimal(10, data.amount) \o timestamp(2) \o integer(2) \o uint(1),
               TIMESTAMPTZ(2) \o VARCHAR(2) \o DECIMAL(10) \o TIMESTAMPTZ(2) \o BIGINT(2) \o UBIGINT(1), Unread(data))
    BY <1>0, Pieces, StoresBoth, Zenon
  <2>2. StoresRow(timestamp(2) \o text(2) \o futures_decimal(10, data.amount) \o timestamp(2) \o integer(2) \o uint(1)
                  \o optional_integer(data.st) \o source, create_table("futures_tickers"), Unread(data))
    BY <2>1, OptionalType, SymbolTypeStored, Zenon DEF create_table
  <2>3. QED
    BY <1>7, <2>2, FuturesRow DEF futures_event, ticker, SpotTables, Marked, HasNested
<1>8. CASE data.e = "kline"
  <2>1. Stores(timestamp(2) \o text(2) \o timestamp(2) \o text(1) \o integer(2) \o futures_decimal(5, data.amount)
               \o uint(1) \o boolean(1) \o futures_decimal(4, data.amount),
               TIMESTAMPTZ(2) \o VARCHAR(2) \o TIMESTAMPTZ(2) \o VARCHAR(1) \o BIGINT(2) \o DECIMAL(5)
               \o UBIGINT(1) \o BOOL(1) \o DECIMAL(4), Unread(data))
    BY <1>0, Pieces, StoresBoth, Zenon
  <2>2. StoresRow(timestamp(2) \o text(2) \o timestamp(2) \o text(1) \o integer(2) \o futures_decimal(5, data.amount)
                  \o uint(1) \o boolean(1) \o futures_decimal(4, data.amount) \o symbol_type(data) \o source,
                  create_table("futures_klines"), Unread(data))
    BY <2>1, OptionalType, SymbolTypeStored, Zenon DEF create_table, symbol_type
  <2>3. futures_event(data) = kline(data) /\ HasNested(data.e)
    BY <1>8 DEF futures_event, HasNested
  <2>4. QED
    BY <2>2, <2>3, FuturesRow DEF kline, SpotTables, Marked
<1>9. QED
  BY <1>1, <1>2, <1>3, <1>4, <1>5, <1>6, <1>7, <1>8 DEF FuturesTypes

\* An answer to the open-interest poller.
LEMMA OpenInterestKept ==
    ASSUME NEW raw \in Raws
    PROVE  IsKept(parse_open_interest(raw), raw) /\ parse_open_interest(raw).target_market = None
<1>1. parse_decimal(raw) = Exact(raw)
  BY DecimalsExact
<1>2. Stores(futures_decimal(1, raw), DECIMAL(1), Exact(raw) = None)
  BY <1>1, NumberPieces
<1>3. Stores(timestamp(2) \o text(3) \o futures_decimal(1, raw) \o source, create_table("futures_open_interest"),
             Exact(raw) = None)
  BY <1>2, Pieces, StoresBoth, Zenon DEF create_table, source
<1>4. PICK record : record = parse_open_interest(raw)
  OBVIOUS
<1>5. /\ record.table = "futures_open_interest" /\ record.target_market = None /\ record.amount = Exact(raw)
      /\ record.values = timestamp(2) \o text(3) \o futures_decimal(1, raw) \o source
  BY <1>1, <1>4 DEF parse_open_interest
<1>6. "futures_open_interest" \notin SpotTables
  BY DEF SpotTables
<1>7. IsKept(record, raw)
  BY <1>3, <1>5, <1>6, RowStored, RowKept
<1>8. QED
  BY <1>4, <1>5, <1>7

-----------------------------------------------------------------------------
(* The records of a message.                                               *)

\* Lists of one member each, and lists of none, put together.
LEMMA FlatSingles ==
    ASSUME NEW T, NEW s \in Seq(T)
    PROVE  FlatMap([x \in T |-> <<x>>], s) = s
<1> DEFINE F == [x \in T |-> <<x>>]
<1> DEFINE A == {r \in Seq(T) : FlatMap(F, r) = r}
<1>1. F \in [T -> Seq(T)]
  OBVIOUS
<1>2. <<>> \in A
  BY FlatMapEmpty
<1>3. ASSUME NEW r \in Seq(T), NEW x \in T, r \in A PROVE Append(r, x) \in A
  <2>1. FlatMap(F, Append(r, x)) = FlatMap(F, r) \o F[x]
    BY <1>1, FlatMapAppend
  <2>2. FlatMap(F, r) = r /\ F[x] = <<x>>
    BY <1>3
  <2>3. r \o <<x>> = Append(r, x) /\ Append(r, x) \in Seq(T)
    OBVIOUS
  <2>4. QED
    BY <2>1, <2>2, <2>3
<1>4. \A r \in Seq(T) : r \in A
  <2> HIDE DEF A
  <2>1. QED
    BY <1>2, <1>3, EverySequence
<1>5. QED
  BY <1>4

LEMMA FlatNothing ==
    ASSUME NEW T, NEW s \in Seq(T)
    PROVE  FlatMap([x \in T |-> <<>>], s) = <<>>
<1> DEFINE F == [x \in T |-> <<>>]
<1> DEFINE A == {r \in Seq(T) : FlatMap(F, r) = <<>>}
<1>1. F \in [T -> Seq({})]
  OBVIOUS
<1>2. <<>> \in A
  BY FlatMapEmpty
<1>3. ASSUME NEW r \in Seq(T), NEW x \in T, r \in A PROVE Append(r, x) \in A
  <2>1. FlatMap(F, Append(r, x)) = FlatMap(F, r) \o F[x]
    <3> HIDE DEF F
    <3>1. QED
      BY <1>1, FlatMapAppend
  <2>2. FlatMap(F, r) = <<>> /\ F[x] = <<>>
    BY <1>3
  <2>3. <<>> \o <<>> = <<>> /\ Append(r, x) \in Seq(T)
    <3>1. <<>> \in Seq(T)
      OBVIOUS
    <3>2. QED
      BY <3>1, ConcatEmpty
  <2>4. QED
    BY <2>1, <2>2, <2>3
<1>4. \A r \in Seq(T) : r \in A
  <2> HIDE DEF A
  <2>1. QED
    BY <1>2, <1>3, EverySequence
<1>5. QED
  BY <1>4

\* No event fails: the records of all.
LEMMA AllCollected ==
    ASSUME NEW n \in Nat, NEW results, results = [i \in 1..n |-> results[i]], \A i \in 1..n : results[i].ok = TRUE
    PROVE  Collected(results) = Ok(FlattenSeq([i \in 1..n |-> results[i].records]))
<1>1. {i \in DOMAIN results : ~results[i].ok} = {}
  OBVIOUS
<1>2. Len(results) = n
  OBVIOUS
<1>3. Min({} \cup {Len(results) + 1}) = n + 1
  <2>1. {} \cup {Len(results) + 1} = {n + 1}
    BY <1>2
  <2>2. Min({n + 1}) = n + 1
    BY DEF Min
  <2>3. QED
    BY <2>1, <2>2
<1>4. (n + 1) - 1 = n
  OBVIOUS
<1>5. QED
  BY <1>1, <1>3, <1>4 DEF Collected, Ok

LEMMA SomeFailed ==
    ASSUME NEW results, NEW i \in DOMAIN results, results[i].ok = FALSE
    PROVE  Collected(results).ok = FALSE
  BY DEF Collected

\* One record for each event of a message, or none for all.
IsOutcome(parsed, events, markets) ==
    /\ (\A i \in 1..Len(events) : events[i].nested.ok) =>
         /\ parsed.ok = TRUE /\ Len(parsed.records) = Len(events) /\ DOMAIN parsed.records = 1..Len(events)
         /\ \A i \in 1..Len(events) :
              IsKept(parsed.records[i], events[i].amount) /\ parsed.records[i].target_market = markets[i]
    /\ ~(\A i \in 1..Len(events) : events[i].nested.ok) => parsed.ok = FALSE

LEMMA CollectedOutcome ==
    ASSUME NEW n \in Nat, NEW events, n = Len(events), NEW markets,
           NEW results, results = [i \in 1..n |-> results[i]],
           \A i \in 1..n : IF events[i].nested.ok THEN IsResult(results[i], events[i], markets[i])
                           ELSE results[i] = Err(<<>>)
    PROVE  IsOutcome(Collected(results), events, markets)
<1>1. CASE \A i \in 1..n : events[i].nested.ok
  <2>1. \A i \in 1..n : IsResult(results[i], events[i], markets[i])
    BY <1>1
  <2>2. PICK rows : rows = [i \in 1..n |-> CHOOSE row : /\ results[i] = Ok(<<row>>) /\ IsKept(row, events[i].amount)
                                                       /\ row.target_market = markets[i]]
    OBVIOUS
  <2>3. ASSUME NEW i \in 1..n
        PROVE  results[i] = Ok(<<rows[i]>>) /\ IsKept(rows[i], events[i].amount) /\ rows[i].target_market = markets[i]
    BY <2>1, <2>2 DEF IsResult
  <2>4. PICK T : T = {rows[i] : i \in 1..n}
    OBVIOUS
  <2>5. PICK s \in Seq(T) : s = rows /\ Len(s) = n /\ DOMAIN s = 1..n
    <3>1. rows \in [1..n -> T]
      BY <2>2, <2>4
    <3>2. rows \in Seq(T) /\ Len(rows) = n /\ DOMAIN rows = 1..n
      BY <3>1
    <3>3. QED
      BY <3>2, Zenon
  <2>6. [i \in 1..n |-> results[i].records] = Mapped([x \in T |-> <<x>>], s)
    <3>1. \A i \in 1..n : results[i].records = <<s[i]>> /\ s[i] \in T
      BY <2>3, <2>5 DEF Ok
    <3>2. QED
      BY <2>5, <3>1 DEF Mapped
  <2>7. FlattenSeq([i \in 1..n |-> results[i].records]) = s
    BY <2>6, FlatSingles DEF FlatMap
  <2>8. \A i \in 1..n : results[i].ok = TRUE
    BY <2>3 DEF Ok
  <2>9. Collected(results) = Ok(s)
    BY <2>7, <2>8, AllCollected
  <2>10. Collected(results).ok = TRUE /\ Collected(results).records = s
    BY <2>9 DEF Ok
  <2>11. QED
    BY <1>1, <2>3, <2>5, <2>10 DEF IsOutcome
<1>2. CASE ~\A i \in 1..n : events[i].nested.ok
  <2>1. PICK i \in 1..n : ~events[i].nested.ok
    BY <1>2
  <2>2. results[i].ok = FALSE /\ i \in DOMAIN results
    BY <2>1 DEF Err
  <2>3. Collected(results).ok = FALSE
    BY <2>2, SomeFailed
  <2>4. QED
    BY <1>2, <2>3 DEF IsOutcome
<1>3. QED
  BY <1>1, <1>2

\* No event is known: no record.
LEMMA NoneCollected ==
    ASSUME NEW n \in Nat, NEW results, results = [i \in 1..n |-> results[i]],
           \A i \in 1..n : results[i] = Ok(<<>>)
    PROVE  Collected(results) = Ok(<<>>)
<1>1. /\ results = [i \in 1..n |-> results[i]]
      /\ \A i \in 1..n : results[i].ok = TRUE /\ results[i].records = <<>>
  BY DEF Ok
<1>2. PICK s \in Seq(1..n) : s = [i \in 1..n |-> i] /\ DOMAIN s = 1..n /\ \A i \in 1..n : s[i] = i
  <2>1. PICK q \in [1..n -> 1..n] : q = [i \in 1..n |-> i]
    OBVIOUS
  <2>2. q \in Seq(1..n) /\ DOMAIN q = 1..n /\ \A i \in 1..n : q[i] = i
    BY <2>1
  <2>3. QED
    BY <2>1, <2>2, Zenon
<1>3. [i \in 1..n |-> results[i].records] = Mapped([x \in 1..n |-> <<>>], s)
  BY <1>1, <1>2 DEF Mapped
<1>4. FlattenSeq([i \in 1..n |-> results[i].records]) = <<>>
  BY <1>3, FlatNothing DEF FlatMap
<1>5. results = [i \in 1..n |-> results[i]] /\ \A i \in 1..n : results[i].ok = TRUE
  BY <1>1, Zenon
<1>6. Collected(results) = Ok(FlattenSeq([i \in 1..n |-> results[i].records]))
  BY <1>5, AllCollected
<1>7. QED
  BY <1>4, <1>6, Zenon

\* The streams whose events the parsers know.
SpotStreams == {"depth@100ms", "aggTrade", "trade", "kline_1s", "kline_1m", "!miniTicker@arr", "ticker",
                "!ticker@arr", "!ticker_1h@arr", "!ticker_4h@arr", "!ticker_1d@arr", "bookTicker", "avgPrice"}
FuturesStreams == SpotStreams \cup {"!bookTicker", "!markPrice@arr@1s", "!forceOrder@arr"}
KnownStreams(market) == IF market = "spot" THEN SpotStreams ELSE FuturesStreams

LEMMA TypesKnown ==
    /\ \A stream \in SpotStreams :
         EventType("spot", stream) \in SpotTypes \/ (EventType("spot", stream) = "" /\ stream = "bookTicker")
    /\ \A market \in {"usdm", "coinm"} : \A stream \in FuturesStreams :
         EventType(market, stream) \in SpotTypes \cup FuturesTypes
  BY DEF SpotStreams, FuturesStreams, EventType, SpotTypes, FuturesTypes

\* An event as the exchange sends it for a subscription.
IsEvent(data, market, sub) ==
    /\ data.e = EventType(market, sub.stream) /\ data.of \in Carried(market, sub)
    /\ data.amount \in Raws /\ data.nested.ok \in BOOLEAN /\ (HasNested(data.e) \/ data.nested.ok)
    /\ \/ data.st = SymbolType(data.of.market) /\ data.nested.st = None
       \/ HasNested(data.e) /\ data.st = None /\ data.nested.st = SymbolType(data.of.market)
       \/ sub.symbol # None /\ data.st = None /\ data.nested.st = None

MarksOf(market, sub, of) ==
    {<<SymbolType(of.market), None>>}
    \cup (IF HasNested(EventType(market, sub.stream)) THEN {<<None, SymbolType(of.market)>>} ELSE {})
    \cup (IF sub.symbol # None THEN {<<None, None>>} ELSE {})
NestedOf(market, sub) == IF HasNested(EventType(market, sub.stream)) THEN BOOLEAN ELSE {TRUE}

LEMMA EventFrom ==
    ASSUME NEW e, NEW of, NEW amounts, NEW marks, NEW oks,
           NEW data \in {[e |-> e, of |-> of, amount |-> amount, st |-> mark[1],
                          nested |-> [ok |-> ok, st |-> mark[2]]] :
                             amount \in amounts, mark \in marks, ok \in oks}
    PROVE  \E amount \in amounts, mark \in marks, ok \in oks :
             data = [e |-> e, of |-> of, amount |-> amount, st |-> mark[1],
                     nested |-> [ok |-> ok, st |-> mark[2]]]
  BY SMT

LEMMA EventFacts ==
    ASSUME NEW market, NEW sub, NEW of \in Carried(market, sub), NEW data \in EventsOf(market, sub, of)
    PROVE  IsEvent(data, market, sub)
<1>1. PICK e, st : e = EventType(market, sub.stream) /\ st = SymbolType(of.market)
  OBVIOUS
<1>2. PICK marks, oks : marks = MarksOf(market, sub, of) /\ oks = NestedOf(market, sub)
  OBVIOUS
<1>3. EventsOf(market, sub, of) =
        {[e |-> EventType(market, sub.stream), of |-> of, amount |-> amount, st |-> mark[1],
          nested |-> [ok |-> ok, st |-> mark[2]]] :
            amount \in Amounts, mark \in MarksOf(market, sub, of), ok \in NestedOf(market, sub)}
  BY DEF EventsOf, MarksOf, NestedOf
<1>4. PICK amount \in Amounts, mark \in marks, ok \in oks :
        data = [e |-> e, of |-> of, amount |-> amount, st |-> mark[1], nested |-> [ok |-> ok, st |-> mark[2]]]
  <2>1. data \in {[e |-> e, of |-> of, amount |-> amount, st |-> mark[1], nested |-> [ok |-> ok, st |-> mark[2]]] :
                     amount \in Amounts, mark \in marks, ok \in oks}
    BY <1>1, <1>2, <1>3
  <2>2. QED
    BY <2>1, EventFrom
<1>5. /\ data.e = e /\ data.of = of /\ data.amount = amount /\ data.st = mark[1]
      /\ data.nested.ok = ok /\ data.nested.st = mark[2]
  BY <1>4
<1>6. amount \in Raws
  BY MessagesAssumption DEF Raws, Characters
<1>7. ok \in BOOLEAN /\ (HasNested(e) \/ ok)
  BY <1>1, <1>2 DEF NestedOf
<1>8. \/ mark = <<st, None>>
      \/ HasNested(e) /\ mark = <<None, st>>
      \/ sub.symbol # None /\ mark = <<None, None>>
  BY <1>1, <1>2 DEF MarksOf
<1>9. \/ mark[1] = st /\ mark[2] = None
      \/ HasNested(e) /\ mark[1] = None /\ mark[2] = st
      \/ sub.symbol # None /\ mark[1] = None /\ mark[2] = None
  BY <1>8
<1>10. QED
  BY <1>1, <1>2, <1>5, <1>6, <1>7, <1>9 DEF IsEvent

\* The market a futures event names is its own, and one of a merged stream names it.
LEMMA MarkedFacts ==
    ASSUME NEW market, NEW sub, NEW data, IsEvent(data, market, sub), data.of.market \in {"usdm", "coinm"}
    PROVE  Marked(data) = data.of.market \/ (sub.symbol # None /\ Marked(data) = None)
<1>1. None \notin {1, 2, "usdm", "coinm"}
  BY ServiceAssumption DEF Range, Markets
<1>2. target_market(None) = None /\ target_market(SymbolType(data.of.market)) = data.of.market
  BY <1>1 DEF target_market, SymbolType
<1>3. CASE data.st = SymbolType(data.of.market) /\ data.nested.st = None
  BY <1>1, <1>2, <1>3 DEF Marked, target, OrElse
<1>4. CASE HasNested(data.e) /\ data.st = None /\ data.nested.st = SymbolType(data.of.market)
  BY <1>1, <1>2, <1>4 DEF Marked, target, OrElse
<1>5. CASE sub.symbol # None /\ data.st = None /\ data.nested.st = None
  BY <1>1, <1>2, <1>5 DEF Marked, target, OrElse
<1>6. QED
  BY <1>3, <1>4, <1>5 DEF IsEvent

\* The events of a message.
AreEvents(events, market, sub) ==
    /\ Len(events) \in {1, 2} /\ DOMAIN events = 1..Len(events)
    /\ \A i \in 1..Len(events) : IsEvent(events[i], market, sub)

LEMMA BatchFacts ==
    ASSUME NEW market, NEW sub, NEW batch \in Batches(market, sub)
    PROVE  AreEvents(batch, market, sub)
<1>1. PICK E : E = UNION {EventsOf(market, sub, of) : of \in Carried(market, sub)}
  OBVIOUS
<1>2. \A data \in E : IsEvent(data, market, sub)
  BY <1>1, EventFacts
<1>3. CASE \E data \in E : batch = <<data>>
  <2>1. PICK data \in E : batch = <<data>>
    BY <1>3
  <2>2. Len(batch) = 1 /\ DOMAIN batch = 1..1 /\ batch[1] = data
    BY <2>1
  <2>3. QED
    BY <1>2, <2>2 DEF AreEvents
<1>4. CASE batch \in E \X E
  <2>1. Len(batch) = 2 /\ DOMAIN batch = 1..2 /\ batch[1] \in E /\ batch[2] \in E
    BY <1>4
  <2>2. \A i \in 1..2 : i = 1 \/ i = 2
    OBVIOUS
  <2>3. QED
    BY <1>2, <2>1, <2>2 DEF AreEvents
<1>5. QED
  BY <1>1, <1>3, <1>4 DEF Batches

\* The two parsers, on events of types they know.
IsKnown(stream, data) ==
    /\ data.amount \in Raws /\ (data.e \in SpotTypes \/ IsBookTicker(stream, data))
    /\ data.nested.ok \in BOOLEAN /\ (HasNested(data.e) \/ data.nested.ok)
SpotParsed(stream, events, n) == Collected([i \in 1..n |-> parse_event(stream, events[i])])

LEMMA SpotOutcome ==
    ASSUME NEW stream, NEW events, NEW n \in Nat, n = Len(events),
           \A i \in 1..n : IsKnown(stream, events[i])
    PROVE  IsOutcome(SpotParsed(stream, events, n), events, [i \in 1..n |-> None])
<1>1. PICK results : results = [i \in 1..n |-> parse_event(stream, events[i])]
  OBVIOUS
<1>2. PICK markets : markets = [i \in 1..n |-> None]
  OBVIOUS
<1>3. results = [i \in 1..n |-> results[i]]
  BY <1>1
<1>4. ASSUME NEW i \in 1..n
      PROVE  IF events[i].nested.ok THEN IsResult(results[i], events[i], markets[i])
             ELSE results[i] = Err(<<>>)
  <2>1. PICK data : data = events[i]
    OBVIOUS
  <2>2. /\ data.amount \in Raws /\ (data.e \in SpotTypes \/ IsBookTicker(stream, data))
        /\ HasNested(data.e) \/ data.nested.ok
    BY <2>1 DEF IsKnown
  <2>3. IF data.e = "kline" /\ ~data.nested.ok THEN parse_event(stream, data) = Err(<<>>)
        ELSE IsResult(parse_event(stream, data), data, None)
    BY <2>2, SpotEvents
  <2>4. data.nested.ok \/ data.e = "kline"
    BY <2>1, <2>2 DEF HasNested, SpotTypes, IsBookTicker
  <2>5. results[i] = parse_event(stream, data) /\ markets[i] = None
    BY <1>1, <1>2, <2>1
  <2>6. QED
    BY <2>1, <2>3, <2>4, <2>5, Zenon
<1>5. IsOutcome(Collected(results), events, markets)
  BY <1>3, <1>4, CollectedOutcome
<1>6. QED
  BY <1>1, <1>2, <1>5, Zenon DEF SpotParsed

LEMMA FuturesOutcome ==
    ASSUME NEW events, NEW n \in Nat, n = Len(events),
           \A i \in 1..n : /\ events[i].amount \in Raws /\ events[i].e \in FuturesTypes
                           /\ events[i].nested.ok \in BOOLEAN /\ (HasNested(events[i].e) \/ events[i].nested.ok)
    PROVE  IsOutcome(Collected([i \in 1..n |-> futures_event(events[i])]), events, [i \in 1..n |-> Marked(events[i])])
<1>1. PICK results : results = [i \in 1..n |-> futures_event(events[i])]
  OBVIOUS
<1>2. PICK markets : markets = [i \in 1..n |-> Marked(events[i])]
  OBVIOUS
<1>3. results = [i \in 1..n |-> results[i]]
  BY <1>1
<1>4. ASSUME NEW i \in 1..n
      PROVE  IF events[i].nested.ok THEN IsResult(results[i], events[i], markets[i])
             ELSE results[i] = Err(<<>>)
  <2>1. PICK data : data = events[i]
    OBVIOUS
  <2>2. data.amount \in Raws /\ data.e \in FuturesTypes /\ (HasNested(data.e) \/ data.nested.ok)
    BY <2>1
  <2>3. IF HasNested(data.e) /\ ~data.nested.ok THEN futures_event(data) = Err(<<>>)
        ELSE IsResult(futures_event(data), data, Marked(data))
    BY <2>2, FuturesEvents
  <2>4. results[i] = futures_event(data) /\ markets[i] = Marked(data)
    BY <1>1, <1>2, <2>1
  <2>5. QED
    BY <2>1, <2>2, <2>3, <2>4, Zenon
<1>5. IsOutcome(Collected(results), events, markets)
  BY <1>3, <1>4, CollectedOutcome
<1>6. QED
  BY <1>1, <1>2, <1>5, Zenon

\* Where the record of an event goes; None if to the dataset that received it.
Home(market, data) == IF market = "spot" \/ data.e \notin FuturesTypes THEN None ELSE Marked(data)

\* The records of a message keep its events.
AreRows(records, message, market) ==
    /\ Len(records) = IF WellFormed(message) THEN Len(message.events) ELSE 0
    /\ DOMAIN records = 1..Len(records)
    /\ \A i \in 1..Len(records) :
         /\ IsKept(records[i], message.events[i].amount)
         /\ records[i].target_market = Home(market, message.events[i])
RecordsOf(parsed) == IF parsed.ok THEN parsed.records ELSE <<>>

LEMMA NoRows ==
    ASSUME NEW parsed, NEW message, NEW market, RecordsOf(parsed) = <<>>, ~WellFormed(message)
    PROVE  AreRows(RecordsOf(parsed), message, market)
  BY DEF AreRows

LEMMA OutcomeRows ==
    ASSUME NEW parsed, NEW message, NEW markets, NEW market, IsOutcome(parsed, message.events, markets),
           Len(message.events) \in Nat, DOMAIN message.events = 1..Len(message.events),
           message.form \in {"combined", "envelope", "raw"},
           message.form = "raw" => Len(message.events) = 1 /\ message.events[1].e # "",
           \A i \in 1..Len(message.events) : markets[i] = Home(market, message.events[i])
    PROVE  AreRows(RecordsOf(parsed), message, market)
<1>1. CASE \A i \in 1..Len(message.events) : message.events[i].nested.ok
  <2>1. WellFormed(message)
    BY <1>1 DEF WellFormed
  <2>2. RecordsOf(parsed) = parsed.records
    BY <1>1 DEF IsOutcome, RecordsOf
  <2>3. PICK rows : rows = parsed.records
    OBVIOUS
  <2>4. /\ Len(rows) = Len(message.events) /\ DOMAIN rows = 1..Len(message.events)
        /\ \A i \in 1..Len(message.events) :
             IsKept(rows[i], message.events[i].amount) /\ rows[i].target_market = markets[i]
    BY <1>1, <2>3 DEF IsOutcome
  <2>5. QED
    BY <2>1, <2>2, <2>3, <2>4 DEF AreRows
<1>2. CASE ~\A i \in 1..Len(message.events) : message.events[i].nested.ok
  <2>1. ~WellFormed(message)
    BY <1>2 DEF WellFormed
  <2>2. parsed.ok = FALSE
    BY <1>2 DEF IsOutcome
  <2>3. RecordsOf(parsed) = <<>>
    BY <2>2 DEF RecordsOf
  <2>4. QED
    BY <2>1, <2>3, NoRows
<1>3. QED
  BY <1>1, <1>2


\* What the parsers make of a message that can be decoded, and of one that cannot.
LEMMA Undecoded ==
    ASSUME NEW market, NEW message, ~decode(message).ok
    PROVE  RecordsOf(parse_into(market, message)) = <<>>
  BY DEF RecordsOf, parse_into, spot_parse_into, futures_parse_into, Err

LEMMA SpotDecoded ==
    ASSUME NEW message, decode(message).ok, NEW n, DOMAIN message.events = 1..n
    PROVE  spot_parse_into(message) = SpotParsed(decode(message).stream, message.events, n)
  BY DEF spot_parse_into, SpotParsed

LEMMA FuturesDecoded ==
    ASSUME NEW message, decode(message).ok, NEW n, DOMAIN message.events = 1..n, NEW known,
           known = Collected([i \in 1..n |-> futures_event(message.events[i])])
    PROVE  futures_parse_into(message) =
             IF known.ok /\ known.records = <<>> THEN spot_parse_into(message) ELSE known
  BY DEF futures_parse_into

LEMMA CombinedDecoded ==
    ASSUME NEW message, message.form \in {"combined", "envelope"}
    PROVE  decode(message).ok /\ decode(message).stream = message.stream
<1>1. decode(message) = [ok |-> TRUE, stream |-> message.stream]
  BY DEF decode
<1>2. QED
  BY <1>1

LEMMA RawDecoded ==
    ASSUME NEW message, message.form = "raw", Len(message.events) = 1
    PROVE  decode(message).ok /\ decode(message).stream = None
<1>1. decode(message) = [ok |-> TRUE, stream |-> None]
  BY DEF decode
<1>2. QED
  BY <1>1

LEMMA OthersUndecoded ==
    ASSUME NEW message, message.form \notin {"combined", "envelope"},
           message.form # "raw" \/ Len(message.events) # 1
    PROVE  ~decode(message).ok
<1>1. decode(message) = [ok |-> FALSE, stream |-> None]
  BY DEF decode
<1>2. QED
  BY <1>1

\* Events of no known type make no record.
LEMMA UnknownSpot ==
    ASSUME NEW message, decode(message).ok, NEW n \in Nat, DOMAIN message.events = 1..n,
           decode(message).stream = None, \A i \in 1..n : message.events[i].e = ""
    PROVE  spot_parse_into(message) = Ok(<<>>)
<1>1. PICK results : results = [i \in 1..n |-> parse_event(decode(message).stream, message.events[i])]
  OBVIOUS
<1>2. results = [i \in 1..n |-> results[i]]
  BY <1>1
<1>3. ASSUME NEW i \in 1..n PROVE results[i] = Ok(<<>>)
  <2>1. message.events[i].e = "" /\ results[i] = parse_event(None, message.events[i])
    BY <1>1
  <2>2. QED
    BY <2>1 DEF parse_event
<1>4. Collected(results) = Ok(<<>>)
  BY <1>2, <1>3, NoneCollected
<1>5. QED
  BY <1>1, <1>4, SpotDecoded DEF SpotParsed

LEMMA UnknownFutures ==
    ASSUME NEW message, decode(message).ok, NEW n \in Nat, DOMAIN message.events = 1..n,
           \A i \in 1..n : message.events[i].e \notin FuturesTypes
    PROVE  futures_parse_into(message) = spot_parse_into(message)
<1>1. PICK results : results = [i \in 1..n |-> futures_event(message.events[i])]
  OBVIOUS
<1>2. results = [i \in 1..n |-> results[i]]
  BY <1>1
<1>3. ASSUME NEW i \in 1..n PROVE results[i] = Ok(<<>>)
  <2>1. message.events[i].e \notin FuturesTypes /\ results[i] = futures_event(message.events[i])
    BY <1>1
  <2>2. QED
    BY <2>1 DEF futures_event, FuturesTypes
<1>4. Collected(results) = Ok(<<>>)
  BY <1>2, <1>3, NoneCollected
<1>5. PICK known : known = Ok(<<>>)
  OBVIOUS
<1>6. known = Collected([i \in 1..n |-> futures_event(message.events[i])]) /\ known.ok /\ known.records = <<>>
  BY <1>1, <1>4, <1>5 DEF Ok
<1>7. QED
  BY <1>6, FuturesDecoded

\* A message of events, decoded or not.
IsBatch(message, market, sub) ==
    /\ message.form # "rest" /\ message.stream = sub
    /\ AreEvents(message.events, market, sub)

LEMMA BatchLength ==
    ASSUME NEW message, NEW market, NEW sub, IsBatch(message, market, sub)
    PROVE  \E n \in Nat : /\ n = Len(message.events) /\ 1 \in 1..n /\ n >= 1
                         /\ DOMAIN message.events = 1..n
<1>1. PICK n : n = Len(message.events)
  OBVIOUS
<1>2. n \in {1, 2} /\ DOMAIN message.events = 1..n
  BY <1>1 DEF IsBatch, AreEvents
<1>3. n \in Nat /\ 1 \in 1..n /\ n >= 1
  BY <1>2
<1>4. QED
  BY <1>1, <1>2, <1>3, Zenon

LEMMA BadForm ==
    ASSUME NEW message, NEW market, ~decode(message).ok, message.form # "rest"
    PROVE  AreRows(RecordsOf(parse_into(market, message)), message, market)
<1>1. message.form \notin {"combined", "envelope"}
  BY CombinedDecoded
<1>2. ~(message.form = "raw" /\ Len(message.events) = 1)
  BY RawDecoded, Zenon
<1>3. ~WellFormed(message)
  BY <1>1, <1>2, Zenon DEF WellFormed
<1>4. QED
  BY <1>3, Undecoded, NoRows

\* A raw message is one event with a type, or one without.
LEMMA RawForm ==
    ASSUME NEW message, decode(message).ok, Len(message.events) >= 1, message.events[1].e # ""
    PROVE  /\ message.form \in {"combined", "envelope", "raw"}
           /\ message.form = "raw" => Len(message.events) = 1 /\ message.events[1].e # ""
  BY OthersUndecoded

LEMMA CombinedForm ==
    ASSUME NEW message, decode(message).ok, message.form # "raw"
    PROVE  /\ message.form \in {"combined", "envelope"}
           /\ decode(message).stream = message.stream
  BY OthersUndecoded, CombinedDecoded

\* Events of types that the spot parser knows, of spot or left over by the futures parser.
LEMMA SpotRows ==
    ASSUME NEW message, NEW market, NEW sub, IsBatch(message, market, sub), decode(message).ok,
           EventType(market, sub.stream) \in SpotTypes,
           market = "spot" \/ EventType(market, sub.stream) \notin FuturesTypes
    PROVE  AreRows(RecordsOf(spot_parse_into(message)), message, market)
<1>0. PICK events : events = message.events
  OBVIOUS
<1>1. PICK n \in Nat : /\ events = message.events /\ n = Len(events) /\ 1 \in 1..n /\ n >= 1
                      /\ DOMAIN events = 1..n
  BY <1>0, BatchLength, Zenon
<1>2. \A i \in 1..n : IsEvent(events[i], market, sub)
  BY <1>1 DEF IsBatch, AreEvents
<1>3. \A i \in 1..n : /\ events[i].e \in SpotTypes /\ Home(market, events[i]) = None
                      /\ events[i].amount \in Raws
                      /\ events[i].nested.ok \in BOOLEAN /\ (HasNested(events[i].e) \/ events[i].nested.ok)
  BY <1>2, Zenon DEF IsEvent, Home
<1>4. PICK parsed, markets :
        parsed = SpotParsed(decode(message).stream, events, n)
        /\ markets = [i \in 1..n |-> None]
  OBVIOUS
<1>5. IsOutcome(parsed, events, markets)
  <2>1. \A i \in 1..n : IsKnown(decode(message).stream, events[i])
    BY <1>3, Zenon DEF IsKnown
  <2>2. QED
    BY <1>1, <1>4, <2>1, SpotOutcome
<1>6. spot_parse_into(message) = parsed
  BY <1>1, <1>4, SpotDecoded
<1>7. Len(message.events) >= 1 /\ message.events[1].e # ""
  <2>1. events[1].e \in SpotTypes
    BY <1>1, <1>3, Zenon
  <2>2. QED
    BY <1>1, <2>1 DEF SpotTypes
<1>8. \A i \in 1..Len(message.events) : markets[i] = Home(market, message.events[i])
  BY <1>1, <1>3, <1>4
<1>9. Len(message.events) \in Nat /\ DOMAIN message.events = 1..Len(message.events)
  BY <1>1
<1>10. AreRows(RecordsOf(parsed), message, market)
  BY <1>1, <1>5, <1>7, <1>8, <1>9, RawForm, OutcomeRows
<1>11. QED
  BY <1>6, <1>10

\* Book tickers of spot, which have no type: known by the stream of the message that holds them.
LEMMA BookTickerRows ==
    ASSUME NEW message, NEW sub, IsBatch(message, "spot", sub), decode(message).ok,
           sub.stream = "bookTicker", sub # None, sub.symbol # None
    PROVE  AreRows(RecordsOf(spot_parse_into(message)), message, "spot")
<1>0. PICK events : events = message.events
  OBVIOUS
<1>1. PICK n \in Nat : /\ events = message.events /\ n = Len(events) /\ 1 \in 1..n /\ n >= 1
                      /\ DOMAIN events = 1..n
  BY <1>0, BatchLength, Zenon
<1>2. \A i \in 1..n : IsEvent(events[i], "spot", sub)
  BY <1>1 DEF IsBatch, AreEvents
<1>3. \A i \in 1..n : /\ events[i].e = "" /\ Home("spot", events[i]) = None
                      /\ events[i].amount \in Raws
                      /\ events[i].nested.ok \in BOOLEAN /\ (HasNested(events[i].e) \/ events[i].nested.ok)
  <2>1. EventType("spot", sub.stream) = ""
    BY DEF EventType
  <2>2. QED
    BY <1>2, <2>1, Zenon DEF IsEvent, Home
<1>4. CASE message.form = "raw"
  <2>1. decode(message).stream = None
    BY <1>4 DEF decode
  <2>2. spot_parse_into(message) = Ok(<<>>)
    BY <1>1, <1>3, <2>1, UnknownSpot
  <2>3. ~WellFormed(message)
    BY <1>1, <1>3, <1>4 DEF WellFormed
  <2>4. RecordsOf(spot_parse_into(message)) = <<>>
    BY <2>2 DEF RecordsOf, Ok
  <2>5. QED
    BY <2>3, <2>4, NoRows
<1>5. CASE message.form # "raw"
  <2>1. message.form \in {"combined", "envelope"} /\ decode(message).stream = sub
    BY <1>5, CombinedForm DEF IsBatch
  <2>2. PICK parsed, markets :
          parsed = SpotParsed(sub, events, n)
          /\ markets = [i \in 1..n |-> None]
    OBVIOUS
  <2>3. \A i \in 1..n : IsBookTicker(sub, events[i])
    BY <1>3 DEF IsBookTicker
  <2>4. IsOutcome(parsed, events, markets)
    <3>1. \A i \in 1..n : IsKnown(sub, events[i])
      BY <1>3, <2>3, Zenon DEF IsKnown
    <3>2. QED
      BY <1>1, <2>2, <3>1, SpotOutcome
  <2>5. spot_parse_into(message) = parsed
    BY <1>1, <2>1, <2>2, SpotDecoded
  <2>6. \A i \in 1..Len(message.events) : markets[i] = Home("spot", message.events[i])
    BY <1>1, <1>3, <2>2
  <2>7. AreRows(RecordsOf(parsed), message, "spot")
    BY <1>1, <1>5, <2>1, <2>4, <2>6, OutcomeRows
  <2>8. QED
    BY <2>5, <2>7
<1>6. QED
  BY <1>4, <1>5

\* Events of types that the futures parser knows.
LEMMA FuturesRows ==
    ASSUME NEW message, NEW market, market # "spot", NEW sub, IsBatch(message, market, sub), decode(message).ok,
           EventType(market, sub.stream) \in FuturesTypes
    PROVE  AreRows(RecordsOf(futures_parse_into(message)), message, market)
<1>0. PICK events : events = message.events
  OBVIOUS
<1>1. PICK n \in Nat : /\ events = message.events /\ n = Len(events) /\ 1 \in 1..n /\ n >= 1
                      /\ DOMAIN events = 1..n
  BY <1>0, BatchLength, Zenon
<1>2. \A i \in 1..n : IsEvent(events[i], market, sub)
  BY <1>1 DEF IsBatch, AreEvents
<1>3. \A i \in 1..n : /\ events[i].e \in FuturesTypes /\ Home(market, events[i]) = Marked(events[i])
                      /\ events[i].amount \in Raws
                      /\ events[i].nested.ok \in BOOLEAN /\ (HasNested(events[i].e) \/ events[i].nested.ok)
  BY <1>2, Zenon DEF IsEvent, Home
<1>4. PICK parsed, markets :
        parsed = Collected([i \in 1..n |-> futures_event(events[i])])
        /\ markets = [i \in 1..n |-> Marked(events[i])]
  OBVIOUS
<1>5. IsOutcome(parsed, events, markets)
  BY <1>1, <1>3, <1>4, FuturesOutcome
<1>6. ~(parsed.ok /\ parsed.records = <<>>)
  <2>1. CASE \A i \in 1..n : events[i].nested.ok
    <3>1. Len(parsed.records) = n
      BY <1>1, <1>5, <2>1 DEF IsOutcome
    <3>2. QED
      BY <1>1, <3>1
  <2>2. CASE ~\A i \in 1..n : events[i].nested.ok
    BY <1>1, <1>5, <2>2 DEF IsOutcome
  <2>3. QED
    BY <2>1, <2>2
<1>7. futures_parse_into(message) = parsed
  BY <1>1, <1>4, <1>6, FuturesDecoded
<1>8. Len(message.events) >= 1 /\ message.events[1].e # ""
  <2>1. events[1].e \in FuturesTypes
    BY <1>1, <1>3, Zenon
  <2>2. QED
    BY <1>1, <2>1 DEF FuturesTypes
<1>9. \A i \in 1..Len(message.events) : markets[i] = Home(market, message.events[i])
  BY <1>1, <1>3, <1>4
<1>10. Len(message.events) \in Nat /\ DOMAIN message.events = 1..Len(message.events)
  BY <1>1
<1>11. AreRows(RecordsOf(parsed), message, market)
  BY <1>1, <1>5, <1>8, <1>9, <1>10, RawForm, OutcomeRows
<1>12. QED
  BY <1>7, <1>11

\* The answer to SUBSCRIBE.
LEMMA ResponseFacts ==
    /\ Response.form = "raw" /\ Len(Response.events) = 1 /\ DOMAIN Response.events = 1..1
    /\ Response.events[1].e = ""
<1>1. PICK data : data = [e |-> "", of |-> None,
                          amount |-> [negative |-> FALSE, whole |-> <<>>, fraction |-> <<>>],
                          st |-> None, nested |-> [ok |-> TRUE, st |-> None]]
  OBVIOUS
<1>2. Response.form = "raw" /\ Response.events = <<data>>
  BY <1>1 DEF Response
<1>3. data.e = ""
  BY <1>1
<1>4. PICK list : list = <<data>>
  OBVIOUS
<1>5. Len(list) = 1 /\ DOMAIN list = 1..1 /\ list[1] = data
  BY <1>4
<1>6. QED
  BY <1>2, <1>3, <1>4, <1>5, Zenon

LEMMA ResponseRows ==
    ASSUME NEW market
    PROVE  AreRows(RecordsOf(parse_into(market, Response)), Response, market)
<1>1. /\ Response.form = "raw" /\ Len(Response.events) = 1 /\ DOMAIN Response.events = 1..1
      /\ Response.events[1].e = ""
  BY ResponseFacts
<1>2. decode(Response).ok /\ decode(Response).stream = None
  BY <1>1, RawDecoded
<1>3. \A i \in 1..1 : Response.events[i].e = ""
  <2>1. \A i \in 1..1 : i = 1
    OBVIOUS
  <2>2. QED
    BY <1>1, <2>1, Zenon
<1>4. spot_parse_into(Response) = Ok(<<>>)
  BY <1>1, <1>2, <1>3, UnknownSpot
<1>5. futures_parse_into(Response) = spot_parse_into(Response)
  <2>1. \A i \in 1..1 : Response.events[i].e \notin FuturesTypes
    BY <1>3 DEF FuturesTypes
  <2>2. QED
    BY <1>1, <1>2, <2>1, UnknownFutures
<1>6. RecordsOf(parse_into(market, Response)) = <<>>
  BY <1>4, <1>5 DEF parse_into, RecordsOf, Ok
<1>7. ~WellFormed(Response)
  BY <1>1 DEF WellFormed
<1>8. QED
  BY <1>6, <1>7, NoRows

LEMMA BatchRows ==
    ASSUME NEW market \in {"spot", "usdm", "coinm"}, NEW sub, sub.stream \in KnownStreams(market),
           sub.stream = "bookTicker" => sub # None /\ sub.symbol # None,
           NEW message, IsBatch(message, market, sub)
    PROVE  AreRows(RecordsOf(parse_into(market, message)), message, market)
<1>1. CASE ~decode(message).ok
  BY <1>1, BadForm DEF IsBatch
<1>2. CASE decode(message).ok /\ market = "spot"
  <2>1. EventType(market, sub.stream) \in SpotTypes \/ sub.stream = "bookTicker"
    BY <1>2, TypesKnown DEF KnownStreams
  <2>2. CASE EventType(market, sub.stream) \in SpotTypes
    BY <1>2, <2>2, SpotRows DEF parse_into
  <2>3. CASE sub.stream = "bookTicker"
    BY <1>2, <2>3, BookTickerRows DEF parse_into
  <2>4. QED
    BY <2>1, <2>2, <2>3
<1>3. CASE decode(message).ok /\ market # "spot"
  <2>1. EventType(market, sub.stream) \in SpotTypes \cup FuturesTypes
    BY <1>3, TypesKnown DEF KnownStreams
  <2>2. parse_into(market, message) = futures_parse_into(message)
    BY <1>3 DEF parse_into
  <2>3. CASE EventType(market, sub.stream) \in FuturesTypes
    BY <1>3, <2>2, <2>3, FuturesRows
  <2>4. CASE EventType(market, sub.stream) \notin FuturesTypes
    <3>1. AreRows(RecordsOf(spot_parse_into(message)), message, market)
      BY <1>3, <2>1, <2>4, SpotRows
    <3>2. PICK n \in Nat : n = Len(message.events) /\ DOMAIN message.events = 1..n
      BY BatchLength
    <3>3. \A i \in 1..n : message.events[i].e \notin FuturesTypes
      BY <2>4, <3>2 DEF IsBatch, AreEvents, IsEvent
    <3>4. futures_parse_into(message) = spot_parse_into(message)
      BY <1>3, <3>2, <3>3, UnknownFutures
    <3>5. QED
      BY <2>2, <3>1, <3>4
  <2>5. QED
    BY <2>3, <2>4
<1>4. QED
  BY <1>1, <1>2, <1>3

LEMMA MessageRows ==
    ASSUME NEW market \in {"spot", "usdm", "coinm"}, NEW sub, sub.stream \in KnownStreams(market),
           sub.stream = "bookTicker" => sub # None /\ sub.symbol # None,
           NEW message \in Messages(market, sub)
    PROVE  AreRows(RecordsOf(parse_into(market, message)), message, market)
<1>1. CASE message = Response
  BY <1>1, ResponseRows
<1>2. CASE message \in {[form |-> form, stream |-> sub, events |-> batch] :
                           form \in Forms, batch \in Batches(market, sub)}
  <2>1. PICK form \in Forms, batch \in Batches(market, sub) :
          message = [form |-> form, stream |-> sub, events |-> batch]
    BY <1>2
  <2>2. message.form = form /\ message.stream = sub /\ message.events = batch
    BY <2>1
  <2>3. form # "rest"
    BY MessagesAssumption
  <2>4. AreEvents(batch, market, sub)
    BY BatchFacts
  <2>5. IsBatch(message, market, sub)
    BY <2>2, <2>3, <2>4, Zenon DEF IsBatch
  <2>6. QED
    BY <2>5, BatchRows
<1>3. QED
  BY <1>1, <1>2 DEF Messages

-----------------------------------------------------------------------------
(* What the last step has parsed.                                          *)

Delivered(what) ==
    \E j \in 1..Len(connections) : \E sub \in Range(connections[j].streams) :
        \E message \in Messages(connections[j].market, sub) :
            what = [market |-> connections[j].market, message |-> message,
                    records |-> RecordsOf(parse_into(connections[j].market, message))]
Interest(market, symbol, amount) ==
    [e |-> "openInterest", of |-> [market |-> market, symbol |-> symbol],
     amount |-> amount, st |-> None, nested |-> [ok |-> TRUE, st |-> None]]
Polled(what) ==
    \E market, symbol : \E amount \in Amounts :
        what = [market |-> market,
                message |-> [form |-> "rest", stream |-> None, events |-> <<Interest(market, symbol, amount)>>],
                records |-> <<parse_open_interest(amount)>>]

\* It is a message of a connection that is open, or an answer to a poller.
PushInv == pushed = None \/ Delivered(pushed) \/ Polled(pushed)

LEMMA PushStep == ConnInv /\ PushInv /\ [Next]_vars => PushInv'
<1> SUFFICES ASSUME ConnInv, PushInv, [Next]_vars PROVE PushInv'
  OBVIOUS
<1>1. CASE Main \/ Stop \/ HandOver
  <2>1. pushed' = None
    BY <1>1 DEF Main, MainAlone, BufferSizes, StartWriter, StartWriterFails, Resolve, FetchAnswered, FetchFailed,
                Sleep, StartDataset, StartRejected, Bind, Stop, HandOver, Parsed
  <2>2. QED
    BY <2>1 DEF PushInv
<1>2. CASE Deliver
  <2>1. connections' = connections
    BY <1>2 DEF Deliver
  <2>2. PICK c \in Range(connections) : \E sub \in Range(c.streams) : \E message \in Messages(c.market, sub) :
          pushed' = [market |-> c.market, message |-> message,
                     records |-> RecordsOf(parse_into(c.market, message))]
    BY <1>2, Zenon DEF Deliver, Parsed, RecordsOf
  <2>3. PICK j \in 1..Len(connections) : c = connections[j]
    BY DEF ConnInv, Range
  <2>4. Delivered(pushed)'
    BY <2>1, <2>2, <2>3, Zenon DEF Delivered
  <2>5. QED
    BY <2>4 DEF PushInv
<1>3. CASE Poll
  <2>1. PICK d \in Range(datasets) : \E symbol \in Range(d.symbols), amount \in Amounts :
          pushed' = [market |-> d.market,
                     message |-> [form |-> "rest", stream |-> None,
                                  events |-> <<Interest(d.market, symbol, amount)>>],
                     records |-> <<parse_open_interest(amount)>>]
    BY <1>3, Zenon DEF Poll, Parsed, Interest
  <2>2. Polled(pushed)'
    BY <2>1, Zenon DEF Polled
  <2>3. QED
    BY <2>2 DEF PushInv
<1>4. CASE UNCHANGED vars
  <2>1. pushed' = pushed /\ connections' = connections
    BY <1>4 DEF vars
  <2>2. Delivered(pushed) => Delivered(pushed)'
    BY <2>1 DEF Delivered
  <2>3. Polled(pushed) => Polled(pushed)'
    BY <2>1 DEF Polled
  <2>4. QED
    BY <2>1, <2>2, <2>3 DEF PushInv
<1>5. QED
  BY <1>1, <1>2, <1>3, <1>4 DEF Next

LEMMA PushAlways == Spec => []PushInv
<1>1. Init => PushInv
  BY DEF Init, PushInv
<1>2. QED
  BY <1>1, PushStep, ConnAlways, PTL DEF Spec

\* What a connection subscribes to is wanted by a dataset of its market.
IsOf(sub, market, i) ==
    /\ market = datasets[i].market /\ market = dataset_configs(settings)[i].market
    /\ i \in 1..Len(dataset_configs(settings))
    /\ sub \in Wanted(datasets[i].symbols, streams(dataset_configs(settings)[i]))

LEMMA SubscriptionOf ==
    ASSUME MainInv, ConnInv, NEW j \in 1..Len(connections), NEW sub \in Range(connections[j].streams)
    PROVE  \E i \in 1..Len(datasets) : IsOf(sub, connections[j].market, i)
<1>1. PICK i \in 1..Len(datasets) : connections[j].market = datasets[i].market
  BY DEF ConnInv, IsServed
<1>2. PICK market : market = datasets[i].market
  OBVIOUS
<1>3. PICK plan : plan = Plan(connections, market)
  OBVIOUS
<1>4. PICK wanted : wanted = Wanted(datasets[i].symbols, streams(dataset_configs(settings)[i]))
  OBVIOUS
<1>5. /\ market = dataset_configs(settings)[i].market
      /\ Once(plan, Len(connections), wanted)
  BY <1>2, <1>3, <1>4 DEF ConnInv, IsSubscribed
<1>6. plan[j] = connections[j].streams
  <2>1. j \in DOMAIN connections
    BY DEF ConnInv
  <2>2. QED
    BY <1>1, <1>2, <1>3, <2>1 DEF Plan
<1>7. PICK k \in 1..Len(plan[j]) : sub = plan[j][k]
  <2>1. connections[j] \in Conns
    BY DEF ConnInv
  <2>2. PICK q \in Seq(Subs(Instruments, Texts)) : q = connections[j].streams
    BY <2>1, Zenon DEF Conns
  <2>3. sub \in Range(q)
    BY <2>2
  <2>4. PICK k \in 1..Len(q) : sub = q[k]
    BY <2>3 DEF Range
  <2>5. QED
    BY <1>6, <2>2, <2>4
<1>8. sub \in wanted
  BY <1>5, <1>7 DEF Once
<1>9. i \in 1..Len(dataset_configs(settings))
  BY ConfigFacts DEF ConnInv, MainInv
<1>10. QED
  BY <1>1, <1>2, <1>4, <1>5, <1>8, <1>9 DEF IsOf

\* The streams that the options of every dataset name are ones whose events the parsers of its
\* market know (parser.rs parse_event, futures_parser.rs futures_event).
StreamsKnown ==
    \A i \in 1..Len(dataset_configs(settings)) :
        Items(streams(dataset_configs(settings)[i])) \subseteq KnownStreams(dataset_configs(settings)[i].market)

LEMMA NoneNoSubscription ==
    ASSUME NEW sub \in Subs(Instruments, Texts), sub.stream = "bookTicker"
    PROVE  sub # None
<1>1. "bookTicker" \in PublicStreams
  BY DEF PublicStreams
<1>2. PICK T : T = STRING \cup PublicStreams
  OBVIOUS
<1>3. sub \in [symbol : {ALL, None} \cup Nat, stream : T]
  BY <1>1, <1>2 DEF Subs, Instruments
<1>4. None \notin [symbol : {ALL, None} \cup Nat, stream : T]
  BY <1>2, ServiceAssumption
<1>5. QED
  BY <1>3, <1>4

LEMMA SubscriptionFacts ==
    ASSUME MainInv, ConnInv, NEW i \in 1..Len(datasets), NEW market, NEW sub, IsOf(sub, market, i)
    PROVE  /\ sub.stream \in Items(streams(dataset_configs(settings)[i]))
           /\ sub.symbol = None <=> sub.stream \in GlobalStreams
           /\ market \in {"spot", "usdm", "coinm"}
           /\ sub.symbol = None \/ sub.symbol \in Items(datasets[i].symbols)
<1>1. PICK all : all = Items(streams(dataset_configs(settings)[i]))
  OBVIOUS
<1>2. PICK pairs : pairs = Items(datasets[i].symbols)
  OBVIOUS
<1>3. None \notin pairs
  <2>1. datasets[i] \in Running
    BY DEF ConnInv
  <2>2. PICK q \in Seq(Instruments) : q = datasets[i].symbols
    BY <2>1, Zenon DEF Running
  <2>3. \A n \in 1..Len(q) : q[n] \in Instruments
    OBVIOUS
  <2>4. QED
    BY <1>2, <2>2, <2>3, NoneApart DEF Items
<1>4. sub \in [symbol : {None}, stream : all \cap GlobalStreams] \cup [symbol : pairs, stream : all \ GlobalStreams]
  BY <1>1, <1>2 DEF IsOf, Wanted
<1>5. /\ sub.stream \in all /\ (sub.symbol = None <=> sub.stream \in GlobalStreams)
      /\ sub.symbol = None \/ sub.symbol \in pairs
  BY <1>3, <1>4
<1>6. market \in {"spot", "usdm", "coinm"}
  <2>1. market \in Range(Markets)
    BY ConfigFacts DEF IsOf, MainInv
  <2>2. QED
    BY <2>1 DEF Range, Markets
<1>7. QED
  BY <1>1, <1>2, <1>5, <1>6

LEMMA DeliveredRows ==
    ASSUME MainInv, ConnInv, StreamsKnown, NEW what, Delivered(what)
    PROVE  AreRows(what.records, what.message, what.market)
<1>1. PICK j \in 1..Len(connections) : \E sub \in Range(connections[j].streams) :
          \E message \in Messages(connections[j].market, sub) :
            what = [market |-> connections[j].market, message |-> message,
                    records |-> RecordsOf(parse_into(connections[j].market, message))]
  BY DEF Delivered
<1>2. PICK market : market = connections[j].market
  OBVIOUS
<1>3. PICK sub \in Range(connections[j].streams) : \E message \in Messages(market, sub) :
            what = [market |-> market, message |-> message, records |-> RecordsOf(parse_into(market, message))]
  BY <1>1, <1>2
<1>4. PICK message \in Messages(market, sub) :
            what = [market |-> market, message |-> message, records |-> RecordsOf(parse_into(market, message))]
  BY <1>3
<1>5. PICK i \in 1..Len(datasets) : IsOf(sub, market, i)
  BY <1>2, SubscriptionOf
<1>6. /\ sub.stream \in Items(streams(dataset_configs(settings)[i]))
      /\ sub.symbol = None <=> sub.stream \in GlobalStreams
      /\ market \in {"spot", "usdm", "coinm"}
  BY <1>5, SubscriptionFacts
<1>7. sub.stream \in KnownStreams(market)
  BY <1>5, <1>6 DEF StreamsKnown, IsOf
<1>8. sub.stream = "bookTicker" => sub.symbol # None
  BY <1>6 DEF GlobalStreams
<1>9. sub.stream = "bookTicker" => sub # None
  <2>1. connections[j] \in Conns
    BY DEF ConnInv
  <2>2. PICK q \in Seq(Subs(Instruments, Texts)) : q = connections[j].streams
    BY <2>1, Zenon DEF Conns
  <2>3. sub \in Subs(Instruments, Texts)
    BY <2>2 DEF Range
  <2>4. QED
    BY <2>3, NoneNoSubscription
<1>10. AreRows(RecordsOf(parse_into(market, message)), message, market)
  BY <1>6, <1>7, <1>8, <1>9, MessageRows
<1>11. QED
  BY <1>4, <1>10

LEMMA PolledRows ==
    ASSUME NEW what, Polled(what)
    PROVE  AreRows(what.records, what.message, what.market)
<1>1. PICK market, symbol : \E amount \in Amounts :
        what = [market |-> market,
                message |-> [form |-> "rest", stream |-> None, events |-> <<Interest(market, symbol, amount)>>],
                records |-> <<parse_open_interest(amount)>>]
  BY Zenon DEF Polled
<1>1a. PICK amount \in Amounts :
        what = [market |-> market,
                message |-> [form |-> "rest", stream |-> None, events |-> <<Interest(market, symbol, amount)>>],
                records |-> <<parse_open_interest(amount)>>]
  BY <1>1, Zenon
<1>2. PICK event : event = Interest(market, symbol, amount)
  OBVIOUS
<1>3. PICK row : row = parse_open_interest(amount)
  OBVIOUS
<1>4. event.e = "openInterest" /\ event.amount = amount /\ event.nested.ok = TRUE
  BY <1>2 DEF Interest
<1>5. PICK events : events = <<event>>
  OBVIOUS
<1>6. PICK records : records = <<row>>
  OBVIOUS
<1>7. Len(events) = 1 /\ DOMAIN events = 1..1 /\ events[1] = event
  BY <1>5
<1>8. Len(records) = 1 /\ DOMAIN records = 1..1 /\ records[1] = row
  BY <1>6
<1>9. PICK message : message = [form |-> "rest", stream |-> None, events |-> events]
  OBVIOUS
<1>10. message.form = "rest" /\ message.events = events
  BY <1>9
<1>11. \A i \in 1..1 : i = 1
  OBVIOUS
<1>12. WellFormed(message)
  <2>1. \A i \in DOMAIN message.events : message.events[i].nested.ok
    BY <1>4, <1>7, <1>10, <1>11
  <2>2. QED
    BY <1>10, <2>1 DEF WellFormed
<1>13. IsKept(row, amount) /\ row.target_market = None
  <2>1. amount \in Raws
    BY MessagesAssumption DEF Raws, Characters
  <2>2. QED
    BY <1>3, <2>1, OpenInterestKept
<1>14. Home(market, event) = None
  BY <1>4 DEF Home, FuturesTypes
<1>15. AreRows(records, message, market)
  <2>1. \A i \in 1..1 : IsKept(records[i], message.events[i].amount) /\ records[i].target_market = Home(market, message.events[i])
    BY <1>4, <1>7, <1>8, <1>10, <1>11, <1>13, <1>14
  <2>2. QED
    BY <1>7, <1>8, <1>10, <1>12, <2>1 DEF AreRows
<1>16. what.records = records /\ what.message = message /\ what.market = market
  BY <1>1a, <1>2, <1>3, <1>5, <1>6, <1>9
<1>17. QED
  BY <1>15, <1>16

-----------------------------------------------------------------------------
(* The default streams.                                                    *)

Defaults(market) ==
    CASE market = "spot" -> {"depth@100ms", "aggTrade", "trade", "kline_1s", "!miniTicker@arr", "ticker",
                             "!ticker_1h@arr", "!ticker_4h@arr", "!ticker_1d@arr", "bookTicker", "avgPrice"}
      [] market = "usdm" -> {"depth@100ms", "aggTrade", "kline_1m", "!miniTicker@arr", "!ticker@arr",
                             "!bookTicker", "!markPrice@arr@1s", "!forceOrder@arr"}
      [] OTHER -> {"depth@100ms", "aggTrade", "kline_1m"}

LEMMA DefaultLists ==
    /\ DEFAULT_STREAMS \in Seq(Defaults("spot"))
    /\ DEFAULT_USDM_STREAMS \in Seq(Defaults("usdm"))
    /\ DEFAULT_COINM_STREAMS \in Seq(Defaults("coinm"))
<1>1. DEFAULT_STREAMS \in Seq(Defaults("spot"))
  <2>1. PICK S : S = Defaults("spot")
    OBVIOUS
  <2>2. /\ "depth@100ms" \in S /\ "aggTrade" \in S /\ "trade" \in S /\ "kline_1s" \in S
        /\ "!miniTicker@arr" \in S /\ "ticker" \in S /\ "!ticker_1h@arr" \in S /\ "!ticker_4h@arr" \in S
        /\ "!ticker_1d@arr" \in S /\ "bookTicker" \in S /\ "avgPrice" \in S
    BY <2>1 DEF Defaults
  <2>3. DEFAULT_STREAMS \in Seq(S)
    BY <2>2 DEF DEFAULT_STREAMS
  <2>4. QED
    BY <2>1, <2>3
<1>2. DEFAULT_USDM_STREAMS \in Seq(Defaults("usdm"))
  <2>1. PICK S : S = Defaults("usdm")
    OBVIOUS
  <2>2. /\ "depth@100ms" \in S /\ "aggTrade" \in S /\ "kline_1m" \in S /\ "!miniTicker@arr" \in S
        /\ "!ticker@arr" \in S /\ "!bookTicker" \in S /\ "!markPrice@arr@1s" \in S /\ "!forceOrder@arr" \in S
    BY <2>1 DEF Defaults
  <2>3. DEFAULT_USDM_STREAMS \in Seq(S)
    BY <2>2 DEF DEFAULT_USDM_STREAMS
  <2>4. QED
    BY <2>1, <2>3
<1>3. DEFAULT_COINM_STREAMS \in Seq(Defaults("coinm"))
  <2>1. PICK S : S = Defaults("coinm")
    OBVIOUS
  <2>2. "depth@100ms" \in S /\ "aggTrade" \in S /\ "kline_1m" \in S
    BY <2>1 DEF Defaults
  <2>3. DEFAULT_COINM_STREAMS \in Seq(S)
    BY <2>2 DEF DEFAULT_COINM_STREAMS
  <2>4. QED
    BY <2>1, <2>3
<1>4. QED
  BY <1>1, <1>2, <1>3

LEMMA CsvItems ==
    ASSUME NEW S, NEW items \in Seq(S)
    PROVE  Items(csv(items)) \subseteq S
<1>1. PICK q \in Seq(S) : q = csv(items)
  BY CsvFacts, Zenon
<1>2. \A n \in 1..Len(q) : q[n] \in S
  OBVIOUS
<1>3. QED
  BY <1>1, <1>2 DEF Items

LEMMA DefaultStreams ==
    ASSUME NEW c, c.streams = None, c.exchange = "binance", c.market \in {"spot", "usdm", "coinm"}
    PROVE  Items(streams(c)) \subseteq Defaults(c.market)
<1>1. CASE c.market = "spot"
  <2>1. streams(c) = csv(DEFAULT_STREAMS)
    BY <1>1 DEF streams
  <2>2. QED
    BY <1>1, <2>1, DefaultLists, CsvItems
<1>2. CASE c.market = "usdm"
  <2>1. streams(c) = csv(DEFAULT_USDM_STREAMS)
    BY <1>2 DEF streams
  <2>2. QED
    BY <1>2, <2>1, DefaultLists, CsvItems
<1>3. CASE c.market = "coinm"
  <2>1. streams(c) = csv(DEFAULT_COINM_STREAMS)
    BY <1>3 DEF streams
  <2>2. QED
    BY <1>3, <2>1, DefaultLists, CsvItems
<1>4. QED
  BY <1>1, <1>2, <1>3

LEMMA DefaultsKnown ==
    \A market \in {"spot", "usdm", "coinm"} : Defaults(market) \subseteq KnownStreams(market)
  BY DEF Defaults, KnownStreams, SpotStreams, FuturesStreams

\* The types of their events.
LEMMA SpotEventTypes ==
    /\ EventType("spot", "depth@100ms") = "depthUpdate" /\ EventType("spot", "aggTrade") = "aggTrade"
    /\ EventType("spot", "trade") = "trade" /\ EventType("spot", "kline_1s") = "kline"
    /\ EventType("spot", "!miniTicker@arr") = "24hrMiniTicker" /\ EventType("spot", "ticker") = "24hrTicker"
    /\ EventType("spot", "!ticker_1h@arr") = "1hTicker" /\ EventType("spot", "!ticker_4h@arr") = "4hTicker"
    /\ EventType("spot", "!ticker_1d@arr") = "1dTicker" /\ EventType("spot", "bookTicker") = ""
    /\ EventType("spot", "avgPrice") = "avgPrice"
  BY DEF EventType

LEMMA FuturesEventTypes ==
    ASSUME NEW m \in {"usdm", "coinm"}
    PROVE  /\ EventType(m, "depth@100ms") = "depthUpdate" /\ EventType(m, "aggTrade") = "aggTrade"
           /\ EventType(m, "kline_1m") = "kline" /\ EventType(m, "!miniTicker@arr") = "24hrMiniTicker"
           /\ EventType(m, "!ticker@arr") = "24hrTicker" /\ EventType(m, "!bookTicker") = "bookTicker"
           /\ EventType(m, "!markPrice@arr@1s") = "markPriceUpdate"
           /\ EventType(m, "!forceOrder@arr") = "forceOrder"
  BY DEF EventType

LEMMA SpotApart ==
    ASSUME NEW s \in Defaults("spot"), NEW t \in Defaults("spot"), EventType("spot", s) = EventType("spot", t)
    PROVE  s = t
  BY SpotEventTypes DEF Defaults

LEMMA FuturesApart ==
    ASSUME NEW m \in {"usdm", "coinm"}, NEW n \in {"usdm", "coinm"},
           NEW s \in Defaults(m), NEW t \in Defaults(n), EventType(m, s) = EventType(n, t)
    PROVE  s = t
<1>1. s \in Defaults("usdm") /\ t \in Defaults("usdm")
  BY DEF Defaults
<1>2. EventType(m, s) = EventType("usdm", s) /\ EventType(n, t) = EventType("usdm", t)
  BY <1>1, FuturesEventTypes DEF Defaults
<1>3. EventType("usdm", s) = EventType("usdm", t)
  BY <1>2
<1>4. QED
  BY <1>1, <1>3, FuturesEventTypes DEF Defaults

LEMMA FuturesDefaultTypes ==
    ASSUME NEW m \in {"usdm", "coinm"}, NEW s \in Defaults(m)
    PROVE  EventType(m, s) \in FuturesTypes
<1>1. s \in Defaults("usdm")
  BY DEF Defaults
<1>2. QED
  BY <1>1, FuturesEventTypes DEF Defaults, FuturesTypes

\* The market and the symbol of an instrument that a subscription carries.
LEMMA CarriedFacts ==
    ASSUME NEW m \in {"spot", "usdm", "coinm"}, NEW sub, NEW of \in Carried(m, sub)
    PROVE  /\ sub.symbol # None => of.market = m /\ of.symbol = sub.symbol
           /\ m = "spot" => of.market = "spot"
           /\ m # "spot" => of.market \in {"usdm", "coinm"}
<1>1. CASE sub.symbol # None
  <2>1. of = [market |-> m, symbol |-> sub.symbol]
    BY <1>1 DEF Carried
  <2>2. of.market = m /\ of.symbol = sub.symbol
    BY <2>1
  <2>3. QED
    BY <2>2
<1>2. CASE sub.symbol = None
  <2>1. PICK merged : merged = IF m = "spot" THEN {"spot"} ELSE {"usdm", "coinm"}
    OBVIOUS
  <2>2. of \in UNION {{[market |-> n, symbol |-> s] : s \in Listed(n)} : n \in merged}
    BY <1>2, <2>1 DEF Carried
  <2>3. PICK n \in merged : of \in {[market |-> n, symbol |-> s] : s \in Listed(n)}
    BY <2>2
  <2>4. PICK s \in Listed(n) : of = [market |-> n, symbol |-> s]
    BY <2>3
  <2>5. of.market = n
    BY <2>4
  <2>6. QED
    BY <1>2, <2>1, <2>5
<1>3. QED
  BY <1>1, <1>2

\* Of the default streams of all markets, only one carries the events of a type and a market.
LEMMA OneStream ==
    ASSUME NEW m \in {"spot", "usdm", "coinm"}, NEW n \in {"spot", "usdm", "coinm"}, NEW s, NEW t,
           s.stream \in Defaults(m), t.stream \in Defaults(n),
           s.symbol = None <=> s.stream \in GlobalStreams, t.symbol = None <=> t.stream \in GlobalStreams,
           NEW of, of \in Carried(m, s), of \in Carried(n, t),
           EventType(m, s.stream) = EventType(n, t.stream)
    PROVE  m = n /\ s.stream = t.stream /\ s.symbol = t.symbol
<1>1. m = "spot" <=> n = "spot"
  BY CarriedFacts
<1>2. s.stream = t.stream
  <2>1. CASE m = "spot"
    BY <1>1, <2>1, SpotApart
  <2>2. CASE m # "spot"
    BY <1>1, <2>2, FuturesApart
  <2>3. QED
    BY <2>1, <2>2
<1>3. CASE s.stream \in GlobalStreams
  <2>1. s.symbol = None /\ t.symbol = None
    BY <1>2, <1>3
  <2>2. m # "coinm" /\ n # "coinm"
    BY <1>2, <1>3 DEF Defaults, GlobalStreams
  <2>3. QED
    BY <1>1, <1>2, <2>1, <2>2
<1>4. CASE s.stream \notin GlobalStreams
  <2>1. s.symbol # None /\ t.symbol # None
    BY <1>2, <1>4
  <2>2. QED
    BY <1>2, <2>1, CarriedFacts
<1>5. QED
  BY <1>3, <1>4

\* A dataset that was started with the default streams wants no others.
LEMMA DefaultsOf ==
    ASSUME MainInv, ConnInv, settings.streams = None, NEW i \in 1..Len(datasets), NEW market, NEW sub,
           IsOf(sub, market, i)
    PROVE  sub.stream \in Defaults(market)
<1>1. settings \in Settings /\ settings.exchange = "binance"
  <2>1. datasets # <<>>
    OBVIOUS
  <2>2. QED
    BY <2>1 DEF MainInv, Accepted
<1>2. PICK c : c = dataset_configs(settings)[i]
  OBVIOUS
<1>3. c.streams = None /\ c.exchange = "binance" /\ c.market = market
  BY <1>1, <1>2, ConfigFacts DEF IsOf
<1>4. market \in {"spot", "usdm", "coinm"} /\ sub.stream \in Items(streams(c))
  BY <1>2, SubscriptionFacts
<1>5. QED
  BY <1>3, <1>4, DefaultStreams

\* They are known to the parsers: the theorem holds of a process with the default streams.
LEMMA DefaultsAreKnown ==
    ASSUME MainInv, ConnInv, settings.streams = None, settings.exchange = "binance"
    PROVE  StreamsKnown
<1> SUFFICES ASSUME NEW i \in 1..Len(dataset_configs(settings))
             PROVE  Items(streams(dataset_configs(settings)[i]))
                      \subseteq KnownStreams(dataset_configs(settings)[i].market)
  BY DEF StreamsKnown
<1>1. PICK c : c = dataset_configs(settings)[i]
  OBVIOUS
<1>2. c.streams = None /\ c.exchange = "binance" /\ c.market \in Range(Markets)
  BY <1>1, ConfigFacts DEF MainInv
<1>3. c.market \in {"spot", "usdm", "coinm"}
  BY <1>2 DEF Range, Markets
<1>4. Items(streams(c)) \subseteq Defaults(c.market)
  BY <1>2, <1>3, DefaultStreams
<1>5. QED
  BY <1>1, <1>3, <1>4, DefaultsKnown

\* A connection and a subscription of it that carry an event.
Carries(c, sub, event) ==
    /\ c \in DOMAIN connections /\ sub \in Range(connections[c].streams)
    /\ event.of \in Carried(connections[c].market, sub)
    /\ EventType(connections[c].market, sub.stream) = event.e

LEMMA SubscriptionParts ==
    ASSUME NEW s, NEW t, NEW A, NEW B, s \in [symbol : A, stream : B], t \in [symbol : A, stream : B],
           s.symbol = t.symbol, s.stream = t.stream
    PROVE  s = t
<1>1. s = [symbol |-> s.symbol, stream |-> s.stream] /\ t = [symbol |-> t.symbol, stream |-> t.stream]
  OBVIOUS
<1>2. QED
  BY <1>1

LEMMA StreamsTyped ==
    ASSUME ConnInv, NEW c \in DOMAIN connections, NEW sub \in Range(connections[c].streams)
    PROVE  /\ c \in 1..Len(connections) /\ sub \in Subs(Instruments, Texts)
           /\ \E k \in 1..Len(connections[c].streams) : sub = connections[c].streams[k]
<1>1. c \in 1..Len(connections) /\ connections[c] \in Conns
  BY DEF ConnInv
<1>2. PICK q \in Seq(Subs(Instruments, Texts)) : q = connections[c].streams
  BY <1>1, Zenon DEF Conns
<1>3. PICK k \in 1..Len(q) : sub = q[k]
  BY <1>2 DEF Range
<1>4. q[k] \in Subs(Instruments, Texts)
  OBVIOUS
<1>5. QED
  BY <1>1, <1>2, <1>3, <1>4

LEMMA OneCarrier ==
    ASSUME MainInv, ConnInv, settings.streams = None, NEW event, NEW c, NEW d, NEW s, NEW t,
           Carries(c, s, event), Carries(d, t, event)
    PROVE  c = d /\ s = t
<1>1. /\ c \in 1..Len(connections) /\ s \in Subs(Instruments, Texts)
      /\ \E k \in 1..Len(connections[c].streams) : s = connections[c].streams[k]
  BY StreamsTyped DEF Carries
<1>2. /\ d \in 1..Len(connections) /\ t \in Subs(Instruments, Texts)
      /\ \E k \in 1..Len(connections[d].streams) : t = connections[d].streams[k]
  BY StreamsTyped DEF Carries
<1>3. PICK m, n : m = connections[c].market /\ n = connections[d].market
  OBVIOUS
<1>4. PICK i \in 1..Len(datasets) : IsOf(s, m, i)
  BY <1>1, <1>3, SubscriptionOf DEF Carries
<1>5. PICK j \in 1..Len(datasets) : IsOf(t, n, j)
  BY <1>2, <1>3, SubscriptionOf DEF Carries
<1>6. m \in {"spot", "usdm", "coinm"} /\ s.stream \in Defaults(m) /\ (s.symbol = None <=> s.stream \in GlobalStreams)
  BY <1>4, SubscriptionFacts, DefaultsOf
<1>7. n \in {"spot", "usdm", "coinm"} /\ t.stream \in Defaults(n) /\ (t.symbol = None <=> t.stream \in GlobalStreams)
  BY <1>5, SubscriptionFacts, DefaultsOf
<1>8. event.of \in Carried(m, s) /\ event.of \in Carried(n, t) /\ EventType(m, s.stream) = EventType(n, t.stream)
  BY <1>3 DEF Carries
<1>9. m = n /\ s.stream = t.stream /\ s.symbol = t.symbol
  BY <1>6, <1>7, <1>8, OneStream
<1>10. s = t
  BY <1>1, <1>2, <1>9, SubscriptionParts DEF Subs
<1>11. PICK plan : plan = Plan(connections, m)
  OBVIOUS
<1>12. plan[c] = connections[c].streams /\ plan[d] = connections[d].streams
  <2>1. c \in DOMAIN connections /\ d \in DOMAIN connections
    BY DEF Carries
  <2>2. QED
    BY <1>3, <1>9, <1>11, <2>1 DEF Plan
<1>13. Once(plan, Len(connections), Wanted(datasets[i].symbols, streams(dataset_configs(settings)[i])))
  BY <1>4, <1>11 DEF ConnInv, IsSubscribed, IsOf
<1>14. PICK k \in 1..Len(plan[c]), l \in 1..Len(plan[d]) : s = plan[c][k] /\ t = plan[d][l]
  BY <1>1, <1>2, <1>12
<1>15. c = d
  BY <1>1, <1>2, <1>10, <1>13, <1>14 DEF Once
<1>16. QED
  BY <1>10, <1>15

LEMMA AtMostOne ==
    ASSUME NEW S, \A x, y \in S : x = y
    PROVE  Cardinality(S) <= 1
<1>1. CASE S = {}
  BY <1>1, FS_EmptySet
<1>2. CASE S # {}
  <2>1. PICK x \in S : TRUE
    BY <1>2
  <2>2. S = {x}
    BY <2>1
  <2>3. QED
    BY <2>2, FS_Singleton
<1>3. QED
  BY <1>1, <1>2

Carriers(event) ==
    UNION {{<<c, sub>> : sub \in {sub \in Range(connections[c].streams) :
                /\ event.of \in Carried(connections[c].market, sub)
                /\ EventType(connections[c].market, sub.stream) = event.e}} :
           c \in DOMAIN connections}

LEMMA CarrierFacts ==
    ASSUME MainInv, ConnInv, settings.streams = None, NEW event
    PROVE  Cardinality(Carriers(event)) <= 1
<1>1. ASSUME NEW x \in Carriers(event)
      PROVE  \E c, sub : x = <<c, sub>> /\ Carries(c, sub, event)
  <2>1. PICK c \in DOMAIN connections :
          x \in {<<c, sub>> : sub \in {sub \in Range(connections[c].streams) :
                /\ event.of \in Carried(connections[c].market, sub)
                /\ EventType(connections[c].market, sub.stream) = event.e}}
    BY DEF Carriers
  <2>2. PICK sub \in Range(connections[c].streams) :
          /\ x = <<c, sub>>
          /\ event.of \in Carried(connections[c].market, sub)
          /\ EventType(connections[c].market, sub.stream) = event.e
    BY <2>1
  <2>3. QED
    BY <2>2 DEF Carries
<1>2. ASSUME NEW x \in Carriers(event), NEW y \in Carriers(event) PROVE x = y
  <2>1. PICK c, s : x = <<c, s>> /\ Carries(c, s, event)
    BY <1>1
  <2>2. PICK d, t : y = <<d, t>> /\ Carries(d, t, event)
    BY <1>1
  <2>3. c = d /\ s = t
    BY <2>1, <2>2, OneCarrier
  <2>4. QED
    BY <2>1, <2>2, <2>3
<1>3. QED
  BY <1>2, AtMostOne

\* The dataset that a message was delivered to, and the message.
IsDelivery(what, market, sub, message) ==
    /\ message \in Messages(market, sub)
    /\ what = [market |-> market, message |-> message, records |-> RecordsOf(parse_into(market, message))]

LEMMA DeliveryOf ==
    ASSUME MainInv, ConnInv, NEW what, Delivered(what)
    PROVE  \E market, sub, message : \E i \in 1..Len(datasets) :
             IsDelivery(what, market, sub, message) /\ IsOf(sub, market, i)
<1>1. PICK j \in 1..Len(connections) : \E sub \in Range(connections[j].streams) :
          \E message \in Messages(connections[j].market, sub) :
            what = [market |-> connections[j].market, message |-> message,
                    records |-> RecordsOf(parse_into(connections[j].market, message))]
  BY DEF Delivered
<1>2. PICK market : market = connections[j].market
  OBVIOUS
<1>3. PICK sub \in Range(connections[j].streams) : \E message \in Messages(market, sub) :
            IsDelivery(what, market, sub, message)
  BY <1>1, <1>2 DEF IsDelivery
<1>4. PICK message \in Messages(market, sub) : IsDelivery(what, market, sub, message)
  BY <1>3
<1>5. PICK i \in 1..Len(datasets) : IsOf(sub, market, i)
  BY <1>2, SubscriptionOf
<1>6. QED
  BY <1>4, <1>5, Zenon

\* A message that is well-formed becomes one record per event, each of them whole, and any other
\* message none, with the default streams and with any others that the parsers know: for every
\* text of a number, every way a message is wrapped, and every market (parser.rs,
\* futures_parser.rs, binance_json.rs, parse_decimal).
THEOREM EveryRowFaithful == Spec => [](settings.streams = None \/ StreamsKnown => RowsFaithful)
<1>1. MainInv /\ ConnInv /\ PushInv => (settings.streams = None \/ StreamsKnown => RowsFaithful)
  <2> SUFFICES ASSUME MainInv, ConnInv, PushInv, settings.streams = None \/ StreamsKnown PROVE RowsFaithful
    OBVIOUS
  <2>1. CASE pushed = None
    BY <2>1 DEF RowsFaithful
  <2>2. CASE pushed # None
    <3>1. AreRows(pushed.records, pushed.message, pushed.market)
      <4>1. CASE Polled(pushed)
        BY <4>1, PolledRows
      <4>2. CASE Delivered(pushed)
        <5>1. datasets # <<>>
          BY <4>2, DeliveryOf
        <5>2. settings.exchange = "binance"
          BY <5>1 DEF MainInv, Accepted
        <5>3. StreamsKnown
          BY <5>2, DefaultsAreKnown
        <5>4. QED
          BY <4>2, <5>3, DeliveredRows
      <4>3. QED
        BY <2>2, <4>1, <4>2 DEF PushInv
    <3>2. PICK records, events : records = pushed.records /\ events = pushed.message.events
      OBVIOUS
    <3>3. Len(records) = IF WellFormed(pushed.message) THEN Len(events) ELSE 0
      BY <3>1, <3>2 DEF AreRows
    <3>4. \A i \in DOMAIN records : IsKept(records[i], events[i].amount)
      BY <3>1, <3>2 DEF AreRows
    <3>5. QED
      BY <3>2, <3>3, <3>4 DEF RowsFaithful, IsKept
  <2>3. QED
    BY <2>1, <2>2
<1>2. QED
  BY <1>1, MainAlways, ConnAlways, PushAlways, PTL

\* Where the record of an event of a default stream goes.
LEMMA EventHome ==
    ASSUME NEW market \in {"spot", "usdm", "coinm"}, NEW sub, sub.stream \in Defaults(market),
           NEW data, IsEvent(data, market, sub), NEW record, record.target_market = Home(market, data)
    PROVE  Target(market, record) = data.of.market
<1>1. data.of \in Carried(market, sub) /\ data.e = EventType(market, sub.stream)
  BY DEF IsEvent
<1>2. CASE market = "spot"
  <2>1. data.of.market = "spot"
    BY <1>1, <1>2, CarriedFacts
  <2>2. record.target_market = None
    BY <1>2 DEF Home
  <2>3. QED
    BY <1>2, <2>1, <2>2 DEF Target
<1>3. CASE market # "spot"
  <2>1. data.of.market \in {"usdm", "coinm"}
    BY <1>1, <1>3, CarriedFacts
  <2>2. data.e \in FuturesTypes
    BY <1>1, <1>3, FuturesDefaultTypes
  <2>3. record.target_market = Marked(data)
    BY <1>3, <2>2 DEF Home
  <2>4. CASE Marked(data) = data.of.market
    <3>1. None \notin {"usdm", "coinm"}
      BY ServiceAssumption DEF Range, Markets
    <3>2. QED
      BY <2>1, <2>3, <2>4, <3>1 DEF Target
  <2>5. CASE sub.symbol # None /\ Marked(data) = None
    <3>1. data.of.market = market
      BY <1>1, <2>5, CarriedFacts
    <3>2. QED
      BY <2>3, <2>5, <3>1 DEF Target
  <2>6. QED
    BY <2>1, <2>4, <2>5, MarkedFacts
<1>4. QED
  BY <1>2, <1>3

LEMMA DeliveredHome ==
    ASSUME MainInv, ConnInv, settings.streams = None, NEW what, Delivered(what), NEW r \in DOMAIN what.records
    PROVE  Target(what.market, what.records[r]) = what.message.events[r].of.market
<1>1. PICK market, sub, message : \E i \in 1..Len(datasets) :
         IsDelivery(what, market, sub, message) /\ IsOf(sub, market, i)
  BY DeliveryOf
<1>2. PICK i \in 1..Len(datasets) : IsDelivery(what, market, sub, message) /\ IsOf(sub, market, i)
  BY <1>1
<1>3. what.market = market /\ what.message = message /\ message \in Messages(market, sub)
  BY <1>2 DEF IsDelivery
<1>4. market \in {"spot", "usdm", "coinm"} /\ sub.stream \in Defaults(market)
  BY <1>2, SubscriptionFacts, DefaultsOf
<1>5. AreRows(what.records, message, market)
  <2>1. settings.exchange = "binance"
    <3>1. datasets # <<>>
      BY <1>2
    <3>2. QED
      BY <3>1 DEF MainInv, Accepted
  <2>2. StreamsKnown
    BY <2>1, DefaultsAreKnown
  <2>3. QED
    BY <1>3, <2>2, DeliveredRows
<1>6. PICK records, events : records = what.records /\ events = message.events
  OBVIOUS
<1>7. WellFormed(message) /\ r \in 1..Len(events) /\ records[r].target_market = Home(market, events[r])
  <2>1. DOMAIN records = 1..Len(records) /\ r \in 1..Len(records)
    BY <1>5, <1>6 DEF AreRows
  <2>2. records[r].target_market = Home(market, events[r])
    BY <1>5, <1>6, <2>1 DEF AreRows
  <2>3. Len(records) # 0
    BY <2>1
  <2>4. WellFormed(message) /\ Len(records) = Len(events)
    BY <1>5, <1>6, <2>3 DEF AreRows
  <2>5. QED
    BY <2>1, <2>2, <2>4
<1>8. message # Response
  <2>1. ~WellFormed(Response)
    BY ResponseFacts DEF WellFormed
  <2>2. QED
    BY <1>7, <2>1
<1>9. PICK form \in Forms, batch \in Batches(market, sub) :
        message = [form |-> form, stream |-> sub, events |-> batch]
  BY <1>3, <1>8 DEF Messages
<1>10. AreEvents(events, market, sub)
  <2>1. events = batch
    BY <1>6, <1>9
  <2>2. QED
    BY <2>1, BatchFacts
<1>11. IsEvent(events[r], market, sub)
  BY <1>7, <1>10 DEF AreEvents
<1>12. Target(market, records[r]) = events[r].of.market
  BY <1>4, <1>7, <1>11, EventHome
<1>13. QED
  BY <1>3, <1>6, <1>12

LEMMA PolledHome ==
    ASSUME NEW what, Polled(what), NEW r \in DOMAIN what.records
    PROVE  Target(what.market, what.records[r]) = what.message.events[r].of.market
<1>1. PICK market, symbol : \E amount \in Amounts :
        what = [market |-> market,
                message |-> [form |-> "rest", stream |-> None, events |-> <<Interest(market, symbol, amount)>>],
                records |-> <<parse_open_interest(amount)>>]
  BY Zenon DEF Polled
<1>2. PICK amount \in Amounts :
        what = [market |-> market,
                message |-> [form |-> "rest", stream |-> None, events |-> <<Interest(market, symbol, amount)>>],
                records |-> <<parse_open_interest(amount)>>]
  BY <1>1, Zenon
<1>3. PICK event, row : event = Interest(market, symbol, amount) /\ row = parse_open_interest(amount)
  OBVIOUS
<1>4. PICK events, records : events = <<event>> /\ records = <<row>>
  OBVIOUS
<1>5. what.market = market /\ what.records = records /\ what.message.events = events
  BY <1>2, <1>3, <1>4
<1>6. DOMAIN records = 1..1 /\ records[1] = row /\ events[1] = event
  BY <1>4
<1>7. r = 1
  BY <1>5, <1>6
<1>8. event.of.market = market
  BY <1>3 DEF Interest
<1>9. row.target_market = None
  BY <1>3 DEF parse_open_interest
<1>10. QED
  BY <1>5, <1>6, <1>7, <1>8, <1>9 DEF Target

\* With the default streams an event is stored once, in its own market: of all the connections of
\* all datasets at most one gets it, whatever symbols there are and however many connections, and
\* its record goes to the writer of the market it names (config.rs, futures_parser.rs, main.rs).
THEOREM EveryEventStoredOnce == Spec => []StoredOnce
<1>1. MainInv /\ ConnInv /\ PushInv => StoredOnce
  <2> SUFFICES ASSUME MainInv, ConnInv, PushInv, pushed # None, settings.streams = None,
                      NEW i \in DOMAIN pushed.records
               PROVE  /\ Cardinality(Carriers(pushed.message.events[i])) <= 1
                      /\ Target(pushed.market, pushed.records[i]) = pushed.message.events[i].of.market
    BY DEF StoredOnce, Carriers
  <2>1. Cardinality(Carriers(pushed.message.events[i])) <= 1
    BY CarrierFacts
  <2>2. Target(pushed.market, pushed.records[i]) = pushed.message.events[i].of.market
    BY DeliveredHome, PolledHome DEF PushInv
  <2>3. QED
    BY <2>1, <2>2
<1>2. QED
  BY <1>1, MainAlways, ConnAlways, PushAlways, PTL

=============================================================================
