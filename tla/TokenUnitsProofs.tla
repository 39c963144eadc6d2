-------------------------- MODULE TokenUnitsProofs --------------------------
(***************************************************************************)
(* Facts about sums of token amounts, for amounts over any finite set, and *)
(* about what is counted or put in order, one after another.               *)
(***************************************************************************)
EXTENDS TokenUnits, Sequences, FiniteSetTheorems, TLAPS

\* The units of f are the pairs of an index and a number up to its amount.
LEMMA UnitsMember ==
  ASSUME NEW S, NEW f \in [S -> Nat], NEW p
  PROVE  p \in Units(f) <=> \E a \in S : \E k \in 1 .. f[a] : p = <<a, k>>
BY DEF Units

\* Every non-empty set of natural numbers has a least element.  Proofs by
\* induction on a number take the least number that fails.
LEMMA Least ==
  ASSUME NEW T \in SUBSET Nat, T # {}
  PROVE  \E x \in T : \A y \in T : x <= y
<1> DEFINE R == {ss \in Nat \X Nat : ss[1] < ss[2]}
<1>1. R = OpToRel(<, Nat)
  BY Zenon DEF OpToRel
<1>2. IsWellFoundedOn(R, Nat)
  BY <1>1, NatLessThanWellFounded
<1>3. \A i, j \in Nat : <<i, j>> \in R <=> i < j
  OBVIOUS
<1> HIDE DEF R
<1>4. PICK x \in T : \A y \in T : <<y, x>> \notin R
  BY <1>2, WFMin
<1>5. ASSUME NEW y \in T PROVE x <= y
  <2>1. x \in Nat /\ y \in Nat
    OBVIOUS
  <2>2. ~ (y < x)
    BY <1>3, <1>4, <2>1
  <2> QED BY <2>1, <2>2
<1> QED BY <1>5

\* A finite table of amounts has finitely many units, and its sum is a number.
LEMMA UnitsFinite ==
  ASSUME NEW S, IsFiniteSet(S), NEW f \in [S -> Nat]
  PROVE  IsFiniteSet(Units(f)) /\ Total(f) \in Nat
<1> DEFINE g == [a \in S |-> {a} \X (1 .. f[a])]
           T == {{a} \X (1 .. f[a]) : a \in S}
<1>1. g \in Surjection(S, T)
  BY DEF Surjection
<1>2. IsFiniteSet(T)
  <2> HIDE DEF g, T
  <2> QED BY <1>1, FS_Surjection
<1>3. ASSUME NEW t \in T PROVE IsFiniteSet(t)
  <2>1. PICK a \in S : t = {a} \X (1 .. f[a])
    BY <1>3
  <2>2. IsFiniteSet({a})
    BY FS_Singleton
  <2>3. 1 \in Int /\ f[a] \in Int
    OBVIOUS
  <2>4. IsFiniteSet(1 .. f[a])
    BY <2>3, FS_Interval
  <2> QED BY <2>1, <2>2, <2>4, FS_Product
<1>4. Units(f) = UNION T
  BY DEF Units
<1>5. IsFiniteSet(Units(f))
  <2> HIDE DEF T
  <2> QED BY <1>2, <1>3, <1>4, FS_UNION
<1> QED BY <1>5, FS_CardinalityType DEF Total

\* Raising one amount by d raises the sum by d.
LEMMA TotalRaise ==
  ASSUME NEW S, IsFiniteSet(S), NEW f \in [S -> Nat], NEW g \in [S -> Nat],
         NEW a \in S, NEW d \in Nat,
         g[a] = f[a] + d, \A b \in S \ {a} : g[b] = f[b]
  PROVE  Total(g) = Total(f) + d
<1> DEFINE New == {a} \X ((f[a] + 1) .. (f[a] + d))
<1>0. \A p : p \in Units(g) <=> \E b \in S : \E k \in 1 .. g[b] : p = <<b, k>>
  <2>1. g \in [S -> Nat]
    OBVIOUS
  <2> QED BY ONLY <2>1, UnitsMember
<1>1. IsFiniteSet(New) /\ Cardinality(New) = d
  <2> DEFINE lo == f[a] + 1
             hi == f[a] + d
             I == lo .. hi
  <2>1. lo \in Int /\ hi \in Int /\ (lo > hi <=> d = 0) /\ hi - lo + 1 = d
    BY f[a] \in Nat
  <2>2. IsFiniteSet(I) /\ Cardinality(I) = IF lo > hi THEN 0 ELSE hi - lo + 1
    <3> HIDE DEF lo, hi
    <3> QED BY <2>1, FS_Interval
  <2>3. Cardinality(I) = d
    <3> HIDE DEF lo, hi
    <3> QED BY <2>1, <2>2
  <2>4. IsFiniteSet({a}) /\ Cardinality({a}) = 1
    BY FS_Singleton
  <2>5. IsFiniteSet({a} \X I) /\ Cardinality({a} \X I) = 1 * d
    <3> HIDE DEF I
    <3> QED BY <2>2, <2>3, <2>4, FS_Product
  <2> QED BY <2>5
<1>2. Units(g) = Units(f) \cup New
  <2>1. ASSUME NEW p \in Units(g) PROVE p \in Units(f) \cup New
    <3> HIDE DEF New
    <3>0. PICK b \in S : \E j \in 1 .. g[b] : p = <<b, j>>
      BY <1>0
    <3>1. PICK k \in 1 .. g[b] : p = <<b, k>>
      BY <3>0
    <3>2. CASE b # a
      BY <3>1, <3>2, UnitsMember
    <3>3. CASE b = a /\ k <= f[a]
      <4>1. k \in 1 .. f[a]
        BY <3>3
      <4> QED BY <4>1, <3>1, <3>3, UnitsMember
    <3>4. CASE b = a /\ k > f[a]
      BY <3>1, <3>4 DEF New
    <3> QED BY <3>2, <3>3, <3>4
  <2>2. ASSUME NEW p \in Units(f) PROVE p \in Units(g)
    <3>0. PICK b \in S : \E j \in 1 .. f[b] : p = <<b, j>>
      BY UnitsMember
    <3>1. PICK k \in 1 .. f[b] : p = <<b, k>>
      BY <3>0
    <3>2. k \in 1 .. g[b]
      BY f[b] \in Nat, g[b] \in Nat
    <3> QED BY <3>1, <3>2, UnitsMember
  <2>3. ASSUME NEW p \in New PROVE p \in Units(g)
    <3>1. PICK k \in (f[a] + 1) .. (f[a] + d) : p = <<a, k>>
      BY <2>3
    <3>2. k \in 1 .. g[a]
      BY f[a] \in Nat
    <3> QED BY <3>1, <3>2, UnitsMember
  <2> QED BY <2>1, <2>2, <2>3
<1>3. Units(f) \cap New = {}
  <2>1. ASSUME NEW p \in Units(f), p \in New PROVE FALSE
    <3>0. PICK b \in S : \E j \in 1 .. f[b] : p = <<b, j>>
      BY UnitsMember
    <3>1. PICK k \in 1 .. f[b] : p = <<b, k>>
      BY <3>0
    <3>2. b = a /\ k \in (f[a] + 1) .. (f[a] + d)
      BY <2>1, <3>1
    <3> QED BY <3>1, <3>2, f[a] \in Nat
  <2> QED BY <2>1
<1>4. Cardinality(Units(g)) = Cardinality(Units(f)) + Cardinality(New) - 0
  <2>1. IsFiniteSet(Units(f)) /\ Cardinality(Units(f)) \in Nat
    BY UnitsFinite DEF Total
  <2>2. Cardinality(Units(f) \cap New) = 0
    BY <1>3, FS_EmptySet
  <2> HIDE DEF New
  <2>3. Cardinality(Units(f) \cup New)
          = Cardinality(Units(f)) + Cardinality(New) - Cardinality(Units(f) \cap New)
    BY <1>1, <2>1, FS_Union
  <2> QED BY <1>2, <2>2, <2>3
<1> QED BY <1>1, <1>4, UnitsFinite DEF Total

\* Lowering one amount by d lowers the sum by d.
LEMMA TotalLower ==
  ASSUME NEW S, IsFiniteSet(S), NEW f \in [S -> Nat], NEW g \in [S -> Nat],
         NEW a \in S, NEW d \in Nat,
         g[a] = f[a] - d, \A b \in S \ {a} : g[b] = f[b]
  PROVE  Total(g) = Total(f) - d
<1>1. f[a] = g[a] + d
  BY f[a] \in Nat, g[a] \in Nat
<1>2. Total(f) = Total(g) + d
  BY <1>1, TotalRaise
<1> QED BY <1>2, UnitsFinite

\* A sum is at least each of its terms.
LEMMA TotalCovers ==
  ASSUME NEW S, IsFiniteSet(S), NEW f \in [S -> Nat], NEW a \in S
  PROVE  f[a] <= Total(f)
<1> DEFINE g == [f EXCEPT ![a] = 0]
<1>1. g \in [S -> Nat] /\ g[a] = f[a] - f[a] /\ \A b \in S \ {a} : g[b] = f[b]
  BY f[a] \in Nat
<1>2. Total(g) = Total(f) - f[a]
  <2> HIDE DEF g
  <2> QED BY <1>1, TotalLower, f[a] \in Nat
<1>3. Total(g) \in Nat /\ Total(f) \in Nat
  <2> HIDE DEF g
  <2> QED BY <1>1, UnitsFinite
<1> QED BY <1>2, <1>3, f[a] \in Nat

\* Nothing adds up to nothing.
LEMMA TotalZero ==
  ASSUME NEW S, NEW f \in [S -> Nat], \A a \in S : f[a] = 0
  PROVE  Total(f) = 0
<1>1. Units(f) = {}
  BY UnitsMember
<1> QED BY <1>1, FS_EmptySet DEF Total

\* The sum over some of the indices is that of an amount of 0 for the others.
LEMMA TotalWithin ==
  ASSUME NEW S, NEW T \in SUBSET S, NEW k, \A a \in T : k[a] \in Nat
  PROVE  Total([a \in T |-> k[a]]) = Total([a \in S |-> IF a \in T THEN k[a] ELSE 0])
<1> DEFINE f == [a \in T |-> k[a]]
           g == [a \in S |-> IF a \in T THEN k[a] ELSE 0]
<1>1. /\ f \in [T -> Nat] /\ g \in [S -> Nat]
      /\ \A a \in T : f[a] = g[a]
      /\ \A a \in S \ T : g[a] = 0
  OBVIOUS
<1> HIDE DEF f, g
<1>2. \A p : (\E a \in T : \E k1 \in 1 .. f[a] : p = <<a, k1>>)
               <=> (\E a \in S : \E k1 \in 1 .. g[a] : p = <<a, k1>>)
  BY <1>1
<1>3. \A p : p \in Units(f) <=> \E a \in T : \E k1 \in 1 .. f[a] : p = <<a, k1>>
  BY <1>1, UnitsMember
<1>4. \A p : p \in Units(g) <=> \E a \in S : \E k1 \in 1 .. g[a] : p = <<a, k1>>
  BY <1>1, UnitsMember
<1>5. Units(f) = Units(g)
  BY <1>2, <1>3, <1>4
<1> QED BY <1>5 DEF Total, f, g

\* When one amount changes, up or down, the sum changes by as much.
LEMMA TotalChange ==
  ASSUME NEW S, IsFiniteSet(S), NEW f \in [S -> Nat], NEW g \in [S -> Nat], NEW a \in S,
         \A b \in S \ {a} : g[b] = f[b]
  PROVE  /\ Total(g) = Total(f) + (g[a] - f[a])
         /\ Total(f) \in Nat /\ Total(g) \in Nat
<1>1. f[a] \in Nat /\ g[a] \in Nat /\ Total(f) \in Nat /\ Total(g) \in Nat
  BY UnitsFinite
<1>2. CASE g[a] >= f[a]
  <2> DEFINE d == g[a] - f[a]
  <2>1. d \in Nat /\ g[a] = f[a] + d
    BY <1>1, <1>2
  <2> HIDE DEF d
  <2>2. Total(g) = Total(f) + d
    BY <2>1, TotalRaise
  <2> QED BY <1>1, <2>1, <2>2
<1>3. CASE g[a] < f[a]
  <2> DEFINE d == f[a] - g[a]
  <2>1. d \in Nat /\ g[a] = f[a] - d
    BY <1>1, <1>3
  <2> HIDE DEF d
  <2>2. Total(g) = Total(f) - d
    BY <2>1, TotalLower
  <2> QED BY <1>1, <2>1, <2>2
<1> QED BY <1>1, <1>2, <1>3

\* A pool that covers a sum still covers it when one of the amounts changes and
\* the pool grows by at least as much, or shrinks by no more.
LEMMA StillCovers ==
  ASSUME NEW S, IsFiniteSet(S), NEW f \in [S -> Nat], NEW g \in [S -> Nat], NEW a \in S,
         \A b \in S \ {a} : g[b] = f[b],
         NEW p \in Nat, NEW q \in Nat, p >= Total(f), q >= p + (g[a] - f[a])
  PROVE  q >= Total(g)
<1>1. Total(g) = Total(f) + (g[a] - f[a]) /\ Total(f) \in Nat /\ g[a] \in Nat /\ f[a] \in Nat
  BY TotalChange
<1> QED BY <1>1

\* A new index brings its own amount into the sum.
LEMMA TotalExtend ==
  ASSUME NEW S, IsFiniteSet(S), NEW x, x \notin S,
         NEW f \in [S -> Nat], NEW g \in [S \cup {x} -> Nat],
         \A b \in S : g[b] = f[b]
  PROVE  Total(g) = Total(f) + g[x]
<1> DEFINE R == S \cup {x}
           h == [b \in R |-> IF b = x THEN 0 ELSE f[b]]
<1>1. IsFiniteSet(R)
  BY FS_AddElement
<1>2. h \in [R -> Nat] /\ h[x] = 0 /\ \A b \in R \ {x} : g[b] = h[b]
  OBVIOUS
<1>3. g[x] \in Nat /\ g \in [R -> Nat]
  OBVIOUS
<1>4. Units(h) = Units(f)
  <2>1. ASSUME NEW p \in Units(h) PROVE p \in Units(f)
    <3>0. PICK b \in R : \E j \in 1 .. h[b] : p = <<b, j>>
      <4> HIDE DEF h, R
      <4> QED BY <1>2, UnitsMember
    <3>1. PICK k \in 1 .. h[b] : p = <<b, k>>
      BY <3>0
    <3>2. b \in S /\ k \in 1 .. f[b]
      BY <3>1
    <3> QED BY <3>1, <3>2, UnitsMember
  <2>2. ASSUME NEW p \in Units(f) PROVE p \in Units(h)
    <3>0. PICK b \in S : \E j \in 1 .. f[b] : p = <<b, j>>
      BY UnitsMember
    <3>1. PICK k \in 1 .. f[b] : p = <<b, k>>
      BY <3>0
    <3>2. b \in R /\ k \in 1 .. h[b]
      BY <3>1
    <3> QED BY <1>2, <3>1, <3>2, UnitsMember
  <2> QED BY <2>1, <2>2
<1>5. Total(g) = Total(h) + g[x]
  <2> HIDE DEF R, h
  <2> QED BY <1>1, <1>2, <1>3, TotalRaise, x \in R DEF R
<1> QED BY <1>4, <1>5 DEF Total

\* A property of subsets of a finite set that holds of the empty set and
\* survives the addition of an element holds of the whole set.
LEMMA SubsetInduction ==
  ASSUME NEW S, IsFiniteSet(S), NEW G \in SUBSET SUBSET S, {} \in G,
         \A T \in G : \A x \in S \ T : T \cup {x} \in G
  PROVE  S \in G
<1> DEFINE N == {n \in Nat : \E T \in SUBSET S : T \notin G /\ Cardinality(T) = n}
<1>1. ASSUME NEW T \in SUBSET S PROVE IsFiniteSet(T) /\ Cardinality(T) \in Nat
  BY FS_Subset, FS_CardinalityType
<1>2. CASE N = {}
  BY <1>1, <1>2
<1>3. CASE N # {}
  <2>1. N \in SUBSET Nat
    OBVIOUS
  <2>2. PICK n \in N : \A k \in N : n <= k
    <3> HIDE DEF N
    <3> QED BY <1>3, <2>1, Least
  <2>3. PICK T \in SUBSET S : T \notin G /\ Cardinality(T) = n
    OBVIOUS
  <2>4. PICK x \in T : TRUE
    BY <2>3
  <2> DEFINE U == T \ {x}
  <2>5. U \in SUBSET S /\ T = U \cup {x} /\ x \in S \ U
    OBVIOUS
  <2>6. Cardinality(U) = n - 1 /\ Cardinality(U) \in Nat
    BY <1>1, <2>3, <2>4, FS_RemoveElement
  <2>7. U \in G
    <3>1. ~ (n <= n - 1)
      BY <2>1
    <3>2. n - 1 \notin N
      BY <2>2, <3>1
    <3> QED BY <2>5, <2>6, <3>2
  <2> QED BY <2>3, <2>5, <2>7
<1> QED BY <1>2, <1>3

\* The sum over one more index.
LEMMA TotalOneMore ==
  ASSUME NEW T, IsFiniteSet(T), NEW x, x \notin T, NEW k, \A a \in T \cup {x} : k[a] \in Nat
  PROVE  /\ Total([a \in T \cup {x} |-> k[a]]) = Total([a \in T |-> k[a]]) + k[x]
         /\ Total([a \in T |-> k[a]]) \in Nat
<1> DEFINE e == [a \in T |-> k[a]]
           i == [a \in T \cup {x} |-> k[a]]
<1>1. /\ e \in [T -> Nat] /\ i \in [T \cup {x} -> Nat]
      /\ \A b \in T : i[b] = e[b]
      /\ i[x] = k[x]
  OBVIOUS
<1> HIDE DEF e, i
<1>2. Total(e) \in Nat
  BY <1>1, UnitsFinite
<1>3. Total(i) = Total(e) + i[x]
  BY <1>1, TotalExtend
<1> QED BY <1>1, <1>2, <1>3 DEF e, i

\* The sum of two tables is the table of the sums.
LEMMA TotalAdd ==
  ASSUME NEW S, IsFiniteSet(S), NEW f \in [S -> Nat], NEW g \in [S -> Nat],
         NEW h \in [S -> Nat], \A a \in S : h[a] = f[a] + g[a]
  PROVE  Total(h) = Total(f) + Total(g)
<1> DEFINE on(k, T) == [a \in T |-> k[a]]
           G == {T \in SUBSET S : Total(on(h, T)) = Total(on(f, T)) + Total(on(g, T))}
<1>1. {} \in G
  <2>1. ASSUME NEW k \in [S -> Nat] PROVE Total(on(k, {})) = 0
    <3>1. on(k, {}) \in [{} -> Nat]
      OBVIOUS
    <3> HIDE DEF on
    <3> QED BY <3>1, TotalZero
  <2> QED BY <2>1
<1>2. ASSUME NEW T \in G, NEW x \in S \ T PROVE T \cup {x} \in G
  <2>1. IsFiniteSet(T)
    BY FS_Subset
  <2>2. ASSUME NEW k \in [S -> Nat]
        PROVE  /\ Total(on(k, T \cup {x})) = Total(on(k, T)) + k[x]
               /\ Total(on(k, T)) \in Nat
    <3>1. x \notin T /\ \A a \in T \cup {x} : k[a] \in Nat
      OBVIOUS
    <3> HIDE DEF G
    <3> HIDE DEF on
    <3>2. x \notin T
      BY <3>1
    <3>3. \A a \in T \cup {x} : k[a] \in Nat
      BY <3>1
    <3>4. Total([a \in T \cup {x} |-> k[a]]) = Total([a \in T |-> k[a]]) + k[x]
      BY <2>1, <3>2, <3>3, TotalOneMore
    <3>5. Total([a \in T |-> k[a]]) \in Nat
      <4>1. [a \in T |-> k[a]] \in [T -> Nat]
        BY <3>3
      <4> QED BY <2>1, <4>1, UnitsFinite
    <3> QED BY <3>4, <3>5 DEF on
  <2>3. h[x] = f[x] + g[x] /\ f[x] \in Nat /\ g[x] \in Nat /\ T \cup {x} \in SUBSET S
    OBVIOUS
  <2>4. Total(on(h, T)) = Total(on(f, T)) + Total(on(g, T))
    OBVIOUS
  <2> HIDE DEF on
  <2>5. /\ Total(on(h, T \cup {x})) = Total(on(h, T)) + h[x]
        /\ Total(on(f, T \cup {x})) = Total(on(f, T)) + f[x] /\ Total(on(f, T)) \in Nat
        /\ Total(on(g, T \cup {x})) = Total(on(g, T)) + g[x] /\ Total(on(g, T)) \in Nat
    BY <2>2
  <2> QED BY <2>3, <2>4, <2>5
<1>3. S \in G
  <2> HIDE DEF G
  <2>1. G \in SUBSET SUBSET S
    BY DEF G
  <2> QED BY <1>1, <1>2, <2>1, SubsetInduction
<1>4. on(h, S) = h /\ on(f, S) = f /\ on(g, S) = g
  OBVIOUS
<1> QED BY <1>3, <1>4

\* Some of the amounts come to no more than all of them.
LEMMA TotalPart ==
  ASSUME NEW S, IsFiniteSet(S), NEW f \in [S -> Nat], NEW T \in SUBSET S
  PROVE  Total([a \in T |-> f[a]]) <= Total(f) /\ Total([a \in T |-> f[a]]) \in Nat
<1> DEFINE g == [a \in S |-> IF a \in T THEN f[a] ELSE 0]
           h == [a \in S |-> IF a \in T THEN 0 ELSE f[a]]
<1>1. /\ g \in [S -> Nat] /\ h \in [S -> Nat] /\ \A a \in S : f[a] = g[a] + h[a]
  OBVIOUS
<1>2. Total([a \in T |-> f[a]]) = Total(g)
  <2>1. \A a \in T : f[a] \in Nat
    OBVIOUS
  <2> QED BY <2>1, TotalWithin
<1> HIDE DEF g, h
<1>3. Total(f) = Total(g) + Total(h)
  BY <1>1, TotalAdd
<1>4. Total(g) \in Nat /\ Total(h) \in Nat
  BY <1>1, UnitsFinite
<1> QED BY <1>2, <1>3, <1>4

\* The amounts of f that belong to a, by the table key.
PartOf(f, key, T, a) == Total([i \in {j \in T : key[j] = a} |-> f[i]])

\* Amounts that are collected by key, for keys in P, add up to the same sum.
LEMMA TotalRegroup ==
  ASSUME NEW S, IsFiniteSet(S), NEW P, IsFiniteSet(P), NEW f \in [S -> Nat],
         NEW key \in [S -> P]
  PROVE  /\ [a \in P |-> PartOf(f, key, S, a)] \in [P -> Nat]
         /\ Total([a \in P |-> PartOf(f, key, S, a)]) = Total(f)
<1> DEFINE on(T) == [i \in T |-> f[i]]
           of(T, a) == [i \in {j \in T : key[j] = a} |-> f[i]]
           by(T) == [a \in P |-> PartOf(f, key, T, a)]
           G == {T \in SUBSET S : Total(by(T)) = Total(on(T))}
<1>1. ASSUME NEW T \in SUBSET S, NEW a
      PROVE  PartOf(f, key, T, a) = Total(of(T, a)) /\ PartOf(f, key, T, a) \in Nat
  <2> DEFINE Ta == {j \in T : key[j] = a}
  <2>1. IsFiniteSet(Ta) /\ of(T, a) \in [Ta -> Nat]
    BY FS_Subset
  <2>2. PartOf(f, key, T, a) = Total(of(T, a))
    BY Zenon DEF PartOf
  <2> HIDE DEF Ta, of
  <2> QED BY <2>1, <2>2, UnitsFinite
<1>2. ASSUME NEW T \in SUBSET S PROVE by(T) \in [P -> Nat]
  BY <1>1
<1>3. {} \in G
  <2>1. Total(on({})) = 0
    <3>1. on({}) \in [{} -> Nat]
      OBVIOUS
    <3> HIDE DEF on
    <3> QED BY <3>1, TotalZero
  <2>2. \A a \in P : by({})[a] = 0
    <3> TAKE a \in P
    <3>1. {j \in {} : key[j] = a} = {}
      OBVIOUS
    <3>2. of({}, a) \in [{} -> Nat]
      BY <3>1
    <3>3. Total(of({}, a)) = 0
      <4> HIDE DEF of
      <4> QED BY <3>2, TotalZero
    <3>4. {} \in SUBSET S
      OBVIOUS
    <3> QED BY <1>1, <3>3, <3>4
  <2>3. by({}) \in [P -> Nat]
    BY <1>2
  <2>4. Total(by({})) = 0
    <3> HIDE DEF by
    <3> QED BY <2>2, <2>3, TotalZero
  <2> QED BY <2>1, <2>4
<1>4. ASSUME NEW T \in G, NEW x \in S \ T PROVE T \cup {x} \in G
  <2> DEFINE V == T \cup {x}
             k == key[x]
  <2>0. T \in SUBSET S /\ V \in SUBSET S /\ k \in P /\ f[x] \in Nat /\ IsFiniteSet(T)
    BY FS_Subset
  <2>1. Total(on(V)) = Total(on(T)) + f[x]
    <3>1. x \notin T /\ \A a \in T \cup {x} : f[a] \in Nat
      OBVIOUS
    <3> HIDE DEF G
    <3> QED BY <2>0, <3>1, TotalOneMore
  <2>2. by(V)[k] = by(T)[k] + f[x]
    <3> DEFINE Tk == {j \in T : key[j] = k}
    <3>1. {j \in V : key[j] = k} = Tk \cup {x} /\ x \notin Tk /\ IsFiniteSet(Tk)
      BY <2>0, FS_Subset
    <3>2. \A j \in Tk \cup {x} : f[j] \in Nat
      OBVIOUS
    <3>3. Total(of(V, k)) = Total(of(T, k)) + f[x]
      <4> HIDE DEF G
      <4>1. Total([j \in Tk \cup {x} |-> f[j]]) = Total([j \in Tk |-> f[j]]) + f[x]
        <5> HIDE DEF Tk
        <5> QED BY <3>1, <3>2, TotalOneMore
      <4> QED BY <3>1, <4>1
    <3> QED BY <1>1, <2>0, <3>3
  <2>3. \A a \in P \ {k} : by(V)[a] = by(T)[a]
    <3> TAKE a \in P \ {k}
    <3>1. {j \in V : key[j] = a} = {j \in T : key[j] = a}
      OBVIOUS
    <3> QED BY <3>1 DEF PartOf
  <2>4. by(T) \in [P -> Nat] /\ by(V) \in [P -> Nat]
    BY <1>2, <2>0
  <2>5. Total(by(T)) = Total(on(T))
    OBVIOUS
  <2>6. Total(by(V)) = Total(by(T)) + f[x]
    <3> HIDE DEF by, k, V
    <3> QED BY <2>0, <2>2, <2>3, <2>4, TotalRaise
  <2>7. Total(by(V)) = Total(on(V))
    <3> HIDE DEF by, on, V
    <3> QED BY <2>1, <2>5, <2>6
  <2> QED BY <2>0, <2>7
<1>5. S \in G
  <2> HIDE DEF G
  <2>1. G \in SUBSET SUBSET S
    BY DEF G
  <2> QED BY <1>3, <1>4, <2>1, SubsetInduction
<1>6. on(S) = f
  OBVIOUS
<1> QED BY <1>2, <1>5, <1>6

-----------------------------------------------------------------------------
(***************************************************************************)
(* Shares that are rounded down.                                           *)
(***************************************************************************)
\* A larger factor makes a larger product.
LEMMA ProductGrows ==
  ASSUME NEW x \in Nat, NEW y \in Nat, NEW d \in Nat, x <= y
  PROVE  x * d <= y * d /\ x * d \in Nat
<1>1. PICK z \in Nat : y = x + z
  <2>1. y - x \in Nat /\ y = x + (y - x)
    OBVIOUS
  <2> QED BY <2>1
<1>2. y * d = x * d + z * d /\ x * d \in Nat /\ z * d \in Nat
  BY <1>1
<1> QED BY <1>2

\* A number below D * X is told by the digits it has in base D.
LEMMA OneNumberOneDigits ==
  ASSUME NEW D \in Nat \ {0}, NEW j \in Nat, NEW k \in Nat,
         NEW d \in 0 .. D - 1, NEW e \in 0 .. D - 1, j * D + d = k * D + e
  PROVE  j = k /\ d = e
<1>1. ASSUME NEW x \in Nat, NEW y \in Nat, NEW v \in 0 .. D - 1, NEW w \in 0 .. D - 1,
             x < y
      PROVE  x * D + v < y * D + w
  <2>1. (x + 1) * D <= y * D /\ x * D \in Nat
    BY <1>1, ProductGrows
  <2>2. (x + 1) * D = x * D + D
    OBVIOUS
  <2> QED BY <2>1, <2>2, y * D \in Nat
<1>2. ~(j < k) /\ ~(k < j)
  <2>1. j * D + d \in Nat
    OBVIOUS
  <2> QED BY <1>1, <2>1
<1>3. j = k
  BY <1>2
<1> QED BY <1>3

\* The digits of a number n below x * u in base u.
LEMMA DigitsOf ==
  ASSUME NEW u \in Nat \ {0}, NEW n \in Nat, NEW x \in Nat, n < x * u
  PROVE  /\ n \div u \in 0 .. x - 1
         /\ n % u \in 0 .. u - 1
         /\ n = ((n \div u) * u) + (n % u)
<1> DEFINE q == n \div u
           r == n % u
<1>1. q \in Nat /\ r \in 0 .. u - 1 /\ n = q * u + r
  OBVIOUS
<1> HIDE DEF q, r
<1>2. ASSUME q >= x PROVE FALSE
  <2>1. x * u <= q * u /\ x * u \in Nat
    BY <1>1, <1>2, ProductGrows
  <2>2. q * u \in Nat
    BY <1>1
  <2> QED BY <1>1, <2>1, <2>2
<1>3. q \in 0 .. x - 1
  BY <1>1, <1>2
<1> QED BY <1>1, <1>3 DEF q, r

\* If every amount of f is at most u in D of the amount of g, so are the sums.
LEMMA TotalScales ==
  ASSUME NEW S, IsFiniteSet(S), NEW f \in [S -> Nat], NEW g \in [S -> Nat],
         NEW D \in Nat \ {0}, NEW u \in Nat \ {0},
         \A a \in S : f[a] * D <= g[a] * u
  PROVE  Total(f) * D <= Total(g) * u
<1> DEFINE From == Units(f) \X (1 .. D)
           Into == Units(g) \X (1 .. u)
           n(p) == (p[1][2] - 1) * D + (p[2] - 1)
           q(p) == n(p) \div u
           r(p) == n(p) % u
           h == [p \in From |-> <<<<p[1][1], q(p) + 1>>, r(p) + 1>>]
<1>1. ASSUME NEW p \in From
      PROVE  \E a \in S : \E k \in 1 .. f[a] : \E d \in 1 .. D : p = <<<<a, k>>, d>>
  <2>1. p[1] \in Units(f) /\ p[2] \in 1 .. D /\ p = <<p[1], p[2]>>
    OBVIOUS
  <2>2. PICK a \in S : \E j \in 1 .. f[a] : p[1] = <<a, j>>
    BY <2>1, UnitsMember
  <2>3. PICK k \in 1 .. f[a] : p[1] = <<a, k>>
    BY <2>2
  <2> QED BY <2>1, <2>3
<1>2. ASSUME NEW a \in S, NEW k \in 1 .. f[a], NEW d \in 1 .. D
      PROVE  LET m == (k - 1) * D + (d - 1) IN
             /\ m \in Nat
             /\ m \div u \in 0 .. g[a] - 1 /\ m % u \in 0 .. u - 1
             /\ m = ((m \div u) * u) + (m % u)
  <2> DEFINE m == (k - 1) * D + (d - 1)
  <2>0. f[a] \in Nat /\ g[a] \in Nat
    OBVIOUS
  <2>1. k \in Nat /\ k - 1 \in Nat /\ k <= f[a] /\ d - 1 \in 0 .. D - 1
    BY <2>0
  <2>2. k * D <= f[a] * D
    BY <2>0, <2>1, ProductGrows
  <2>3. k * D = (k - 1) * D + D /\ (k - 1) * D \in Nat /\ f[a] * D \in Nat
    BY <2>0, <2>1
  <2>4. m \in Nat /\ m < f[a] * D
    BY <2>1, <2>2, <2>3
  <2>5. f[a] * D <= g[a] * u /\ g[a] * u \in Nat
    BY <2>0
  <2>6. m < g[a] * u
    BY <2>3, <2>4, <2>5
  <2> HIDE DEF m
  <2>7. /\ m \div u \in 0 .. g[a] - 1 /\ m % u \in 0 .. u - 1
        /\ m = ((m \div u) * u) + (m % u)
    BY <2>0, <2>4, <2>6, DigitsOf
  <2> QED BY <2>4, <2>7 DEF m
<1>3. ASSUME NEW p \in From PROVE h[p] \in Into
  <2>10. PICK a \in S : \E k \in 1 .. f[a] : \E d \in 1 .. D : p = <<<<a, k>>, d>>
    BY <1>1
  <2>11. PICK k \in 1 .. f[a] : \E d \in 1 .. D : p = <<<<a, k>>, d>>
    BY <2>10
  <2>1. PICK d \in 1 .. D : p = <<<<a, k>>, d>>
    BY <2>11
  <2> DEFINE m == (k - 1) * D + (d - 1)
  <2>2. m \div u \in 0 .. g[a] - 1 /\ m % u \in 0 .. u - 1
    BY <1>2
  <2>3. h[p] = <<<<a, (m \div u) + 1>>, (m % u) + 1>>
    BY <2>1
  <2>4. (m \div u) + 1 \in 1 .. g[a] /\ (m % u) + 1 \in 1 .. u
    <3> HIDE DEF m
    <3> QED BY <2>2
  <2> HIDE DEF m
  <2>5. <<a, (m \div u) + 1>> \in Units(g)
    BY <2>4, UnitsMember
  <2> QED BY <2>3, <2>4, <2>5
<1>4. ASSUME NEW p \in From, NEW o \in From, h[p] = h[o] PROVE p = o
  <2>10. PICK a \in S : \E k \in 1 .. f[a] : \E d \in 1 .. D : p = <<<<a, k>>, d>>
    BY <1>1
  <2>11. PICK k \in 1 .. f[a] : \E d \in 1 .. D : p = <<<<a, k>>, d>>
    BY <2>10
  <2>1. PICK d \in 1 .. D : p = <<<<a, k>>, d>>
    BY <2>11
  <2>20. PICK b \in S : \E j \in 1 .. f[b] : \E e \in 1 .. D : o = <<<<b, j>>, e>>
    BY <1>1
  <2>21. PICK j \in 1 .. f[b] : \E e \in 1 .. D : o = <<<<b, j>>, e>>
    BY <2>20
  <2>2. PICK e \in 1 .. D : o = <<<<b, j>>, e>>
    BY <2>21
  <2> DEFINE m == (k - 1) * D + (d - 1)
             l == (j - 1) * D + (e - 1)
  <2>3. /\ m \in Nat /\ m \div u \in Int /\ m % u \in Int
        /\ m = ((m \div u) * u) + (m % u)
    BY <1>2
  <2>4. /\ l \in Nat /\ l \div u \in Int /\ l % u \in Int
        /\ l = ((l \div u) * u) + (l % u)
    BY <1>2
  <2>5. h[p] = <<<<a, (m \div u) + 1>>, (m % u) + 1>> /\ h[o] = <<<<b, (l \div u) + 1>>, (l % u) + 1>>
    BY <2>1, <2>2
  <2>6. a = b /\ m = l
    <3> HIDE DEF m, l, h
    <3>0. <<<<a, (m \div u) + 1>>, (m % u) + 1>> = <<<<b, (l \div u) + 1>>, (l % u) + 1>>
      BY <1>4, <2>5, Zenon
    <3>1. a = b /\ (m \div u) + 1 = (l \div u) + 1 /\ (m % u) + 1 = (l % u) + 1
      <4> DEFINE x == (m \div u) + 1
                 y == (m % u) + 1
                 v == (l \div u) + 1
                 w == (l % u) + 1
      <4>1. <<<<a, x>>, y>> = <<<<b, v>>, w>>
        BY <3>0
      <4> HIDE DEF x, y, v, w
      <4>2. <<a, x>> = <<b, v>> /\ y = w
        BY <4>1
      <4>3. a = b /\ x = v
        BY <4>2
      <4> QED BY <4>2, <4>3 DEF x, y, v, w
    <3>2. m \div u = l \div u /\ m % u = l % u
      BY <2>3, <2>4, <3>1
    <3> QED BY <2>3, <2>4, <3>1, <3>2
  <2>7. k - 1 \in Nat /\ j - 1 \in Nat /\ d - 1 \in 0 .. D - 1 /\ e - 1 \in 0 .. D - 1
    OBVIOUS
  <2>8. k - 1 = j - 1 /\ d - 1 = e - 1
    BY <2>6, <2>7, OneNumberOneDigits
  <2>9. k = j /\ d = e
    BY <2>7, <2>8
  <2> QED BY <2>1, <2>2, <2>6, <2>9
<1>5. h \in Injection(From, Into)
  <2>1. h \in [From -> Into]
    <3> HIDE DEF From, Into
    <3> QED BY <1>3
  <2> HIDE DEF h, From, Into
  <2>2. \A p, o \in From : h[p] = h[o] => p = o
    BY <1>4
  <2> QED BY <2>1, <2>2 DEF Injection, IsInjective
<1>6. IsFiniteSet(From) /\ Cardinality(From) = Total(f) * D
  <2>1. IsFiniteSet(1 .. D) /\ Cardinality(1 .. D) = D
    BY FS_Interval
  <2> QED BY <2>1, UnitsFinite, FS_Product DEF Total
<1>7. IsFiniteSet(Into) /\ Cardinality(Into) = Total(g) * u
  <2>1. IsFiniteSet(1 .. u) /\ Cardinality(1 .. u) = u
    BY FS_Interval
  <2> QED BY <2>1, UnitsFinite, FS_Product DEF Total
<1> HIDE DEF h, From, Into
<1>8. Cardinality(From) <= Cardinality(Into)
  BY <1>5, <1>7, FS_Injection
<1> QED BY <1>6, <1>7, <1>8

\* f gives each member of S its share w[a] in d of the amount u, rounded down.
RoundedDown(f, S, u, w, d) ==
    \A a \in S : f[a] = (u * w[a]) \div d

\* Shares of an amount u that are rounded down never add up to more than u,
\* if they are shares in D of weights that add up to at most D.
THEOREM FloorSharesFit ==
  ASSUME NEW S, IsFiniteSet(S), NEW w \in [S -> Nat], NEW f \in [S -> Nat],
         NEW D \in Nat \ {0}, NEW u \in Nat, Total(w) <= D,
         RoundedDown(f, S, u, w, D)
  PROVE  Total(f) <= u
<1>1. Total(f) \in Nat /\ Total(w) \in Nat
  BY UnitsFinite
<1>2. CASE u = 0
  <2>1. ASSUME NEW a \in S PROVE f[a] = 0
    <3>1. u * w[a] = 0
      BY <1>2, w[a] \in Nat
    <3> QED BY <3>1 DEF RoundedDown
  <2>2. Total(f) = 0
    BY <2>1, TotalZero
  <2> QED BY <1>2, <2>2
<1>3. CASE u # 0
  <2>1. ASSUME NEW a \in S PROVE f[a] * D <= w[a] * u
    <3> DEFINE x == u * w[a]
    <3>1. x \in Nat /\ f[a] = x \div D /\ w[a] * u = x
      BY w[a] \in Nat DEF RoundedDown
    <3> HIDE DEF x
    <3>2. (x \div D) * D <= x
      BY <3>1
    <3> QED BY <3>1, <3>2
  <2>2. u \in Nat \ {0}
    BY <1>3
  <2>3. Total(f) * D <= Total(w) * u
    BY <2>1, <2>2, TotalScales
  <2>4. Total(w) * u <= D * u
    BY <1>1, ProductGrows
  <2>5. ASSUME Total(f) > u PROVE FALSE
    <3>1. (u + 1) * D <= Total(f) * D
      BY <1>1, <2>5, ProductGrows
    <3>2. (u + 1) * D = D * u + D /\ D * u \in Nat /\ Total(f) * D \in Nat /\ Total(w) * u \in Nat
      BY <1>1
    <3> QED BY <2>3, <2>4, <3>1, <3>2
  <2> QED BY <1>1, <2>5
<1> QED BY <1>2, <1>3

-----------------------------------------------------------------------------
(***************************************************************************)
(* Counting up to a number, and functions that are defined while counting. *)
(***************************************************************************)
LEMMA CountingUp ==
  ASSUME NEW n \in Nat, NEW S, 0 \in S, \A i \in 0 .. n - 1 : i \in S => i + 1 \in S
  PROVE  \A i \in 0 .. n : i \in S
<1> SUFFICES ASSUME NEW j \in 0 .. n, j \notin S PROVE FALSE
  OBVIOUS
<1> DEFINE M == {i \in 0 .. n : i \notin S}
<1>1. PICK k \in M : \A i \in M : k <= i
  <2>1. j \in M /\ M \subseteq Nat
    OBVIOUS
  <2> HIDE DEF M
  <2> QED BY <2>1, Least
<1>2. k \in 1 .. n /\ k - 1 \in 0 .. n - 1 /\ ~(k <= k - 1)
  BY <1>1
<1>3. k - 1 \in S
  BY <1>1, <1>2
<1> QED BY <1>1, <1>2, <1>3

\* A quotient is rounded down.
LEMMA Quotient ==
  ASSUME NEW n \in Nat, NEW u \in Nat \ {0}
  PROVE  n \div u \in Nat /\ (n \div u) * u <= n /\ n - (n \div u) * u < u
<1> DEFINE q == n \div u
           r == n % u
<1>1. q \in Nat /\ r \in 0 .. u - 1 /\ n = q * u + r
  OBVIOUS
<1> HIDE DEF q, r
<1>2. q * u \in Nat
  BY <1>1
<1>3. q * u <= n /\ n - q * u < u
  BY <1>1, <1>2
<1> QED BY <1>1, <1>3 DEF q

\* A sequence with one element replaced, and with one more.
LEMMA Replaced ==
  ASSUME NEW T, NEW s \in Seq(T), NEW i \in 1 .. Len(s), NEW x \in T
  PROVE  /\ [s EXCEPT ![i] = x] \in Seq(T) /\ Len([s EXCEPT ![i] = x]) = Len(s)
         /\ [s EXCEPT ![i] = x][i] = x
         /\ \A j \in 1 .. Len(s) : j # i => [s EXCEPT ![i] = x][j] = s[j]
  OBVIOUS

LEMMA AsSequence ==
  ASSUME NEW T, NEW n \in Nat, NEW g \in [1 .. n -> T]
  PROVE  g \in Seq(T) /\ Len(g) = n
  OBVIOUS

LEMMA Appended ==
  ASSUME NEW T, NEW s \in Seq(T), NEW x \in T
  PROVE  /\ Append(s, x) \in Seq(T) /\ Len(Append(s, x)) = Len(s) + 1 /\ Len(s) \in Nat
         /\ Append(s, x)[Len(s) + 1] = x
         /\ \A j \in 1 .. Len(s) : Append(s, x)[j] = s[j]
  OBVIOUS

\* The functions that start with a and go on by the steps of step.
Stepping(n, S, a, step) ==
  {f \in [0 .. n -> S] : f[0] = a /\ \A i \in 1 .. n : f[i] = step[i][f[i - 1]]}

LEMMA CountingFunction ==
  ASSUME NEW n \in Nat, NEW S, NEW a \in S, NEW step \in [1 .. n -> [S -> S]]
  PROVE  Stepping(n, S, a, step) # {}
<1> DEFINE Good(g, k) == \A i \in 0 .. k : g[i] = IF i = 0 THEN a ELSE step[i][g[i - 1]]
           T == {k \in 0 .. n : \E g \in [0 .. k -> S] : Good(g, k)}
<1>1. 0 \in T
  <2> DEFINE g == [i \in 0 .. 0 |-> a]
  <2>1. g \in [0 .. 0 -> S] /\ Good(g, 0)
    OBVIOUS
  <2> HIDE DEF g, Good
  <2>2. \E f \in [0 .. 0 -> S] : Good(f, 0)
    BY <2>1
  <2> QED BY <2>2
<1>2. ASSUME NEW k \in 0 .. n - 1, k \in T PROVE k + 1 \in T
  <2>1. PICK g \in [0 .. k -> S] : Good(g, k)
    BY <1>2
  <2> DEFINE h == [i \in 0 .. k + 1 |-> IF i = k + 1 THEN step[k + 1][g[k]] ELSE g[i]]
  <2>2. step[k + 1][g[k]] \in S
    OBVIOUS
  <2>3. h \in [0 .. k + 1 -> S]
    BY <2>2
  <2>4. Good(h, k + 1)
    <3> SUFFICES ASSUME NEW i \in 0 .. k + 1
                 PROVE  h[i] = IF i = 0 THEN a ELSE step[i][h[i - 1]]
      OBVIOUS
    <3>1. CASE i = k + 1
      BY <3>1
    <3>2. CASE i # k + 1
      BY <2>1, <3>2
    <3> QED BY <3>1, <3>2
  <2> HIDE DEF h, Good
  <2>5. \E f \in [0 .. k + 1 -> S] : Good(f, k + 1)
    BY <2>3, <2>4
  <2> QED BY <2>5
<1>3. n \in T
  <2>1. \A i \in 0 .. n - 1 : i \in T => i + 1 \in T
    BY <1>2
  <2> HIDE DEF T
  <2>2. \A i \in 0 .. n : i \in T
    BY <1>1, <2>1, CountingUp
  <2> QED BY <2>2
<1>4. PICK f \in [0 .. n -> S] : Good(f, n)
  BY <1>3
<1>5. f[0] = a /\ \A i \in 1 .. n : f[i] = step[i][f[i - 1]]
  BY <1>4
<1> QED BY <1>5 DEF Stepping

=============================================================================
