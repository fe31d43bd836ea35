---------------------------- MODULE TableProofs ----------------------------
(***************************************************************************)
(* Lemmas about the mathematics the modules share: what the total of a     *)
(* finite table does when the table changes, what a selection of positions *)
(* of a queue returns, and that matching, resting and evicting keep a book *)
(* a pair of sequences of entries.                                         *)
(***************************************************************************)
EXTENDS PriceTime, FiniteSetTheorems, FunctionTheorems, SequenceTheorems, TLAPS

-----------------------------------------------------------------------------
(* Totals.                                                                 *)

\* The units of one holder are as many as its amount: the pairs <<u, i>> are
\* in bijection with the i.
LEMMA UnitsOfCardinality ==
  ASSUME NEW u, NEW f, f[u] \in Nat
  PROVE  /\ IsFiniteSet(UnitsOf(f, u))
         /\ Cardinality(UnitsOf(f, u)) = f[u]
<1>1. /\ IsFiniteSet({u})
      /\ Cardinality({u}) = 1
  BY FS_Singleton
<1>2. /\ IsFiniteSet(1..f[u])
      /\ Cardinality(1..f[u]) = f[u]
  <2>1. IsFiniteSet(1..f[u]) /\ Cardinality(1..f[u]) = IF 1 > f[u] THEN 0 ELSE f[u] - 1 + 1
    BY FS_Interval
  <2> QED
    BY <2>1
<1>3. /\ IsFiniteSet({u} \X (1..f[u]))
      /\ Cardinality({u} \X (1..f[u])) = Cardinality({u}) * Cardinality(1..f[u])
  BY <1>1, <1>2, FS_Product, Zenon
<1> QED
  BY <1>1, <1>2, <1>3 DEF UnitsOf

\* A table over a finite set of holders has finitely many units.
LEMMA UnitsFinite ==
  ASSUME NEW S, IsFiniteSet(S), NEW f \in [S -> Nat]
  PROVE  /\ IsFiniteSet(Units(f))
         /\ Total(f) \in Nat
<1> DEFINE T == {UnitsOf(f, u) : u \in S}
           g == [u \in S |-> UnitsOf(f, u)]
<1>1. g \in Surjection(S, T)
  BY DEF Surjection
<1>2. IsFiniteSet(T)
  BY <1>1, FS_Surjection, Zenon
<1>3. \A t \in T : IsFiniteSet(t)
  BY UnitsOfCardinality
<1>4. IsFiniteSet(UNION T)
  BY <1>2, <1>3, FS_UNION, Zenon
<1> QED
  BY <1>4, FS_CardinalityType, Zenon DEF Units, Total

\* Splitting one holder off: its amount and the units of the others.
LEMMA TotalSplit ==
  ASSUME NEW S, IsFiniteSet(S), NEW f \in [S -> Nat], NEW u \in S
  PROVE  LET rest == UNION {UnitsOf(f, v) : v \in S \ {u}}
         IN  /\ IsFiniteSet(rest)
             /\ Total(f) = Cardinality(rest) + f[u]
<1> DEFINE rest == UNION {UnitsOf(f, v) : v \in S \ {u}}
           own  == UnitsOf(f, u)
<1>1. Units(f) = rest \cup own
  BY DEF Units
<1>2. rest \cap own = {}
  BY DEF UnitsOf
<1>3. IsFiniteSet(Units(f))
  BY UnitsFinite
<1>4. IsFiniteSet(rest)
  <2>1. rest \in SUBSET Units(f)
    BY <1>1
  <2> QED
    BY <1>3, <2>1, FS_Subset, Zenon
<1>5. IsFiniteSet(own) /\ Cardinality(own) = f[u]
  BY UnitsOfCardinality
<1>6. Cardinality(rest \cup own)
        = Cardinality(rest) + Cardinality(own) - Cardinality(rest \cap own)
  BY <1>4, <1>5, FS_Union, Zenon
<1>7. Cardinality(rest \cap own) = 0
  BY <1>2, FS_EmptySet
<1>8. Cardinality(rest) \in Nat
  BY <1>4, FS_CardinalityType
<1>9. Total(f) = Cardinality(rest) + f[u]
  BY <1>1, <1>5, <1>6, <1>7, <1>8 DEF Total
<1> QED
  BY <1>4, <1>9

\* Changing one entry changes the total by as much.
LEMMA TotalUpdate ==
  ASSUME NEW S, IsFiniteSet(S), NEW f \in [S -> Nat], NEW g \in [S -> Nat],
         NEW u \in S, \A v \in S \ {u} : g[v] = f[v]
  PROVE  Total(g) + f[u] = Total(f) + g[u]
<1> DEFINE restF == UNION {UnitsOf(f, v) : v \in S \ {u}}
           restG == UNION {UnitsOf(g, v) : v \in S \ {u}}
<1>1. restF = restG
  BY DEF UnitsOf
<1>2. IsFiniteSet(restF) /\ Total(f) = Cardinality(restF) + f[u]
  BY TotalSplit
<1>3. Total(g) = Cardinality(restG) + g[u]
  BY TotalSplit
<1>4. Cardinality(restF) \in Nat
  BY <1>2, FS_CardinalityType
<1> HIDE DEF restF, restG
<1> QED
  BY <1>1, <1>2, <1>3, <1>4

\* Moving d units from one holder to another leaves the total alone.
LEMMA TotalMove ==
  ASSUME NEW S, IsFiniteSet(S), NEW f \in [S -> Nat], NEW g \in [S -> Nat],
         NEW u \in S, NEW w \in S, u # w, NEW d \in Nat,
         g[u] = f[u] - d, g[w] = f[w] + d,
         \A v \in S \ {u, w} : g[v] = f[v]
  PROVE  Total(g) = Total(f)
<1> DEFINE h == [f EXCEPT ![u] = g[u]]
<1>1. h \in [S -> Nat] /\ h[u] = g[u] /\ h[w] = f[w]
  OBVIOUS
<1>2. Total(h) + f[u] = Total(f) + h[u]
  <2>1. \A v \in S \ {u} : h[v] = f[v]
    OBVIOUS
  <2> HIDE DEF h
  <2> QED
    BY <1>1, <2>1, TotalUpdate
<1>3. Total(g) + h[w] = Total(h) + g[w]
  <2>1. \A v \in S \ {w} : g[v] = h[v]
    OBVIOUS
  <2> HIDE DEF h
  <2> QED
    BY <1>1, <2>1, TotalUpdate
<1>4. Total(f) \in Nat /\ Total(g) \in Nat
  BY UnitsFinite
<1>5. Total(h) \in Nat
  BY <1>1, UnitsFinite
<1> HIDE DEF h
<1> QED
  BY <1>1, <1>2, <1>3, <1>4, <1>5

\* No holder has more than the total.
LEMMA EntryWithinTotal ==
  ASSUME NEW S, IsFiniteSet(S), NEW f \in [S -> Nat], NEW u \in S
  PROVE  f[u] <= Total(f)
<1> DEFINE rest == UNION {UnitsOf(f, v) : v \in S \ {u}}
<1>1. IsFiniteSet(rest) /\ Total(f) = Cardinality(rest) + f[u]
  BY TotalSplit
<1>2. Cardinality(rest) \in Nat
  BY <1>1, FS_CardinalityType
<1> HIDE DEF rest
<1> QED
  BY <1>1, <1>2

\* A table of zeros has no units.
LEMMA TotalZero ==
  ASSUME NEW S, NEW f \in [S -> Nat], \A u \in S : f[u] = 0
  PROVE  Total(f) = 0
<1>1. \A u \in S : UnitsOf(f, u) = {}
  BY DEF UnitsOf
<1>2. Units(f) = {}
  BY <1>1 DEF Units
<1> QED
  BY <1>2, FS_EmptySet DEF Total

-----------------------------------------------------------------------------

\* A collection of subsets of a finite set has a smallest member: the induction
\* on tables that follows, with the property made a set.
LEMMA SmallestSubset ==
  ASSUME NEW S, IsFiniteSet(S), NEW C, C \subseteq SUBSET S, C # {}
  PROVE  \E A \in C : \A B \in C : B \subseteq A => B = A
<1>1. C \subseteq FiniteSubsetsOf(S)
  BY FS_FiniteSubsetsOfFinite
<1>2. IsWellFoundedOn(StrictSubsetOrdering(S), FiniteSubsetsOf(S))
  BY FS_StrictSubsetOrderingWellFounded
<1>3. PICK A \in C : \A B \in C : <<B, A>> \notin StrictSubsetOrdering(S)
  BY <1>1, <1>2, WFMin
<1>4. \A B \in C : B \subseteq A /\ B # A => <<B, A>> \in StrictSubsetOrdering(S)
  BY DEF StrictSubsetOrdering
<1>5. \A B \in C : B \subseteq A => B = A
  BY <1>3, <1>4
<1> QED
  BY <1>5

\* Taking one holder out of the table.
LEMMA TotalRemove ==
  ASSUME NEW S, IsFiniteSet(S), NEW f \in [S -> Nat], NEW u \in S
  PROVE  Total(f) = Total([v \in S \ {u} |-> f[v]]) + f[u]
<1> DEFINE rest == UNION {UnitsOf(f, v) : v \in S \ {u}}
           g == [v \in S \ {u} |-> f[v]]
<1>1. Total(f) = Cardinality(rest) + f[u]
  BY TotalSplit
<1>2. \A v \in S \ {u} : UnitsOf(g, v) = UnitsOf(f, v)
  BY DEF UnitsOf
<1>3. Units(g) = rest
  BY <1>2 DEF Units
<1> QED
  BY <1>1, <1>3 DEF Total

\* Holders with nothing do not count.
LEMMA TotalSupport ==
  ASSUME NEW S, NEW f, DOMAIN f = S, NEW A, A \subseteq S, \A u \in S \ A : f[u] = 0
  PROVE  Total([u \in A |-> f[u]]) = Total(f)
<1> DEFINE g == [u \in A |-> f[u]]
<1>1. \A u \in A : UnitsOf(g, u) = UnitsOf(f, u)
  BY DEF UnitsOf
<1>2. \A u \in S \ A : UnitsOf(f, u) = {}
  BY DEF UnitsOf
<1>3. Units(g) = Units(f)
  BY <1>1, <1>2 DEF Units
<1> QED
  BY <1>3 DEF Total

\* A table whose holders can be told apart among those of another, each with no
\* more than there, has no more in total.
LEMMA TotalInjection ==
  ASSUME NEW A, NEW B, IsFiniteSet(B), NEW b \in Injection(A, B),
         NEW g \in [A -> Nat], NEW f \in [B -> Nat], \A a \in A : g[a] <= f[b[a]]
  PROVE  Total(g) <= Total(f)
<1> DEFINE at == [x \in Units(g) |-> <<b[x[1]], x[2]>>]
<1>1. b \in [A -> B] /\ \A x, y \in A : b[x] = b[y] => x = y
  BY DEF Injection, IsInjective
<1>2. \A x \in Units(g) : /\ x = <<x[1], x[2]>>
                          /\ x[1] \in A
                          /\ x[2] \in 1..g[x[1]]
  BY DEF Units, UnitsOf
<1>3. ASSUME NEW x \in Units(g)
      PROVE  at[x] \in Units(f)
  <2>1. x[1] \in A /\ x[2] \in 1..g[x[1]] /\ b[x[1]] \in B
    BY <1>1, <1>2
  <2>2. g[x[1]] \in Nat /\ f[b[x[1]]] \in Nat /\ g[x[1]] <= f[b[x[1]]]
    BY <2>1
  <2>3. x[2] \in 1..f[b[x[1]]]
    BY <2>1, <2>2
  <2>4. at[x] \in UnitsOf(f, b[x[1]])
    BY <2>3 DEF UnitsOf
  <2> QED
    BY <2>1, <2>4 DEF Units
<1>4. ASSUME NEW x \in Units(g), NEW y \in Units(g), at[x] = at[y]
      PROVE  x = y
  <2>1. b[x[1]] = b[y[1]] /\ x[2] = y[2]
    BY <1>4
  <2>2. x[1] = y[1]
    BY <1>1, <1>2, <2>1
  <2> QED
    BY <1>2, <2>1, <2>2
<1>5. at \in Injection(Units(g), Units(f))
  <2>1. at \in [Units(g) -> Units(f)]
    BY <1>3
  <2> HIDE DEF at
  <2> QED
    BY <1>4, <2>1, Fun_IsInj
<1>6. IsFiniteSet(Units(f))
  BY UnitsFinite
<1> HIDE DEF at
<1> QED
  BY <1>5, <1>6, FS_Injection DEF Total

\* A table with no more anywhere has no more in total.
LEMMA TotalMonotone ==
  ASSUME NEW S, IsFiniteSet(S), NEW g \in [S -> Nat], NEW f \in [S -> Nat],
         \A u \in S : g[u] <= f[u]
  PROVE  Total(g) <= Total(f)
<1> DEFINE b == [u \in S |-> u]
<1>1. b \in Injection(S, S) /\ \A u \in S : b[u] = u
  BY DEF Injection, IsInjective
<1> HIDE DEF b
<1> QED
  BY <1>1, TotalInjection

\* The empty table.
LEMMA TotalEmpty ==
  ASSUME NEW f, DOMAIN f = {}
  PROVE  Total(f) = 0
<1>1. Units(f) = {}
  BY DEF Units
<1> QED
  BY <1>1, FS_EmptySet DEF Total

\* Totals add up.
LEMMA TotalSum ==
  ASSUME NEW S, IsFiniteSet(S), NEW f \in [S -> Nat], NEW g \in [S -> Nat]
  PROVE  Total([u \in S |-> f[u] + g[u]]) = Total(f) + Total(g)
<1> DEFINE part(x, A) == [u \in A |-> x[u]]
           both == [u \in S |-> f[u] + g[u]]
           bad == {A \in SUBSET S : Total(part(both, A)) # Total(part(f, A)) + Total(part(g, A))}
<1>1. SUFFICES bad = {}
  <2>1. S \notin bad
    BY <1>1, Zenon
  <2>2. part(both, S) = both /\ part(f, S) = f /\ part(g, S) = g
    OBVIOUS
  <2> QED
    BY <2>1, <2>2
<1>2. SUFFICES ASSUME bad # {}
               PROVE  FALSE
  OBVIOUS
<1>3. PICK A \in bad : \A B \in bad : B \subseteq A => B = A
  <2>1. bad \subseteq SUBSET S
    OBVIOUS
  <2> HIDE DEF bad
  <2> QED
    BY <1>2, <2>1, SmallestSubset
<1>4. A \in SUBSET S /\ Total(part(both, A)) # Total(part(f, A)) + Total(part(g, A))
  OBVIOUS
<1>5. IsFiniteSet(A)
  BY <1>4, FS_Subset
<1>6. CASE A = {}
  <2>1. Total(part(both, A)) = 0 /\ Total(part(f, A)) = 0 /\ Total(part(g, A)) = 0
    BY <1>6, TotalEmpty
  <2> QED
    BY <1>4, <2>1
<1>7. CASE A # {}
  <2>1. PICK u \in A : TRUE
    BY <1>7
  <2> DEFINE B == A \ {u}
  <2>2. Total(part(both, B)) = Total(part(f, B)) + Total(part(g, B))
    <3>1. B \notin bad
      BY <1>3, <2>1
    <3>2. B \in SUBSET S
      BY <1>4
    <3> HIDE DEF B, part, both
    <3> QED
      BY <3>1, <3>2
  <2>3. ASSUME NEW x \in [S -> Nat]
        PROVE  /\ Total(part(x, A)) = Total(part(x, B)) + x[u]
               /\ Total(part(x, B)) \in Nat
    <3>1. part(x, A) \in [A -> Nat] /\ part(x, B) \in [B -> Nat]
      BY <1>4
    <3>2. Total(part(x, A)) = Total([v \in A \ {u} |-> part(x, A)[v]]) + part(x, A)[u]
      <4> HIDE DEF part
      <4> QED
        BY <1>5, <2>1, <3>1, TotalRemove
    <3>3. [v \in A \ {u} |-> part(x, A)[v]] = part(x, B) /\ part(x, A)[u] = x[u]
      BY <2>1
    <3>4. IsFiniteSet(B)
      BY <1>5, FS_RemoveElement
    <3>5. Total(part(x, B)) \in Nat
      <4> HIDE DEF part, B
      <4> QED
        BY <3>1, <3>4, UnitsFinite
    <3> HIDE DEF part, B
    <3> QED
      BY <3>2, <3>3, <3>5
  <2>4. both \in [S -> Nat] /\ both[u] = f[u] + g[u] /\ f[u] \in Nat /\ g[u] \in Nat
    BY <1>4, <2>1
  <2>5. /\ Total(part(both, A)) = Total(part(both, B)) + both[u]
        /\ Total(part(f, A)) = Total(part(f, B)) + f[u] /\ Total(part(f, B)) \in Nat
        /\ Total(part(g, A)) = Total(part(g, B)) + g[u] /\ Total(part(g, B)) \in Nat
    <3> HIDE DEF part, B, both
    <3> QED
      BY <2>3, <2>4
  <2> HIDE DEF part, B, both
  <2> QED
    BY <1>4, <2>2, <2>4, <2>5
<1> QED
  BY <1>6, <1>7

\* If every entry of g, n times, is within m times the entry of f, so is the total.
LEMMA TotalScale ==
  ASSUME NEW S, IsFiniteSet(S), NEW f \in [S -> Nat], NEW g \in [S -> Nat],
         NEW n \in Nat, NEW m \in Nat, \A u \in S : g[u] * n <= f[u] * m
  PROVE  Total(g) * n <= Total(f) * m
<1> DEFINE part(x, A) == [u \in A |-> x[u]]
           bad == {A \in SUBSET S : ~(Total(part(g, A)) * n <= Total(part(f, A)) * m)}
<1>1. SUFFICES bad = {}
  <2>1. S \notin bad
    BY <1>1, Zenon
  <2>2. part(f, S) = f /\ part(g, S) = g
    OBVIOUS
  <2> QED
    BY <2>1, <2>2
<1>2. SUFFICES ASSUME bad # {}
               PROVE  FALSE
  OBVIOUS
<1>3. PICK A \in bad : \A B \in bad : B \subseteq A => B = A
  <2>1. bad \subseteq SUBSET S
    OBVIOUS
  <2> HIDE DEF bad
  <2> QED
    BY <1>2, <2>1, SmallestSubset
<1>4. A \in SUBSET S /\ ~(Total(part(g, A)) * n <= Total(part(f, A)) * m)
  OBVIOUS
<1>5. IsFiniteSet(A)
  BY <1>4, FS_Subset
<1>6. CASE A = {}
  <2>1. Total(part(f, A)) = 0 /\ Total(part(g, A)) = 0
    BY <1>6, TotalEmpty
  <2>2. 0 * n <= 0 * m
    OBVIOUS
  <2> QED
    BY <1>4, <2>1, <2>2
<1>7. CASE A # {}
  <2>1. PICK u \in A : TRUE
    BY <1>7
  <2> DEFINE B == A \ {u}
  <2>2. Total(part(g, B)) * n <= Total(part(f, B)) * m
    <3>1. B \notin bad
      BY <1>3, <2>1
    <3>2. B \in SUBSET S
      BY <1>4
    <3> HIDE DEF B, part
    <3> QED
      BY <3>1, <3>2
  <2>3. ASSUME NEW x \in [S -> Nat]
        PROVE  /\ Total(part(x, A)) = Total(part(x, B)) + x[u]
               /\ Total(part(x, B)) \in Nat
    <3>1. part(x, A) \in [A -> Nat] /\ part(x, B) \in [B -> Nat]
      BY <1>4
    <3>2. Total(part(x, A)) = Total([v \in A \ {u} |-> part(x, A)[v]]) + part(x, A)[u]
      <4> HIDE DEF part
      <4> QED
        BY <1>5, <2>1, <3>1, TotalRemove
    <3>3. [v \in A \ {u} |-> part(x, A)[v]] = part(x, B) /\ part(x, A)[u] = x[u]
      BY <2>1
    <3>4. IsFiniteSet(B)
      BY <1>5, FS_RemoveElement
    <3>5. Total(part(x, B)) \in Nat
      <4> HIDE DEF part, B
      <4> QED
        BY <3>1, <3>4, UnitsFinite
    <3> HIDE DEF part, B
    <3> QED
      BY <3>2, <3>3, <3>5
  <2>4. g[u] * n <= f[u] * m /\ f[u] \in Nat /\ g[u] \in Nat
    BY <1>4, <2>1
  <2>5. /\ Total(part(f, A)) = Total(part(f, B)) + f[u] /\ Total(part(f, B)) \in Nat
        /\ Total(part(g, A)) = Total(part(g, B)) + g[u] /\ Total(part(g, B)) \in Nat
    <3> HIDE DEF part, B
    <3> QED
      BY <2>3
  <2>6. ASSUME NEW x \in Nat, NEW y \in Nat, NEW k \in Nat
        PROVE  (x + y) * k = x * k + y * k
    OBVIOUS
  <2> HIDE DEF part, B
  <2> DEFINE a == Total(part(g, B)) * n
             b == Total(part(f, B)) * m
             c == g[u] * n
             d == f[u] * m
  <2>7. Total(part(g, A)) * n = a + c /\ Total(part(f, A)) * m = b + d
    BY <2>4, <2>5, <2>6
  <2>8. a \in Nat /\ b \in Nat /\ c \in Nat /\ d \in Nat /\ a <= b /\ c <= d
    BY <2>2, <2>4, <2>5
  <2> HIDE DEF a, b, c, d
  <2>9. a + c <= b + d
    BY <2>8
  <2> QED
    BY <1>4, <2>7, <2>9
<1> QED
  BY <1>6, <1>7

\* A table taken apart in two.
LEMMA TotalParts ==
  ASSUME NEW S, IsFiniteSet(S), NEW f \in [S -> Nat], NEW A \in SUBSET S
  PROVE  Total(f) = Total([u \in A |-> f[u]]) + Total([u \in S \ A |-> f[u]])
<1>1. PICK g, h : /\ g = [u \in S |-> IF u \in A THEN f[u] ELSE 0]
                  /\ h = [u \in S |-> IF u \in A THEN 0 ELSE f[u]]
  OBVIOUS
<1>2. g \in [S -> Nat] /\ h \in [S -> Nat] /\ DOMAIN g = S /\ DOMAIN h = S
  BY <1>1
<1>3. Total([u \in S |-> g[u] + h[u]]) = Total(g) + Total(h)
  BY <1>2, TotalSum
<1>4. [u \in S |-> g[u] + h[u]] = f
  BY <1>1
<1>5. Total([u \in A |-> g[u]]) = Total(g)
  <2>1. \A u \in S \ A : g[u] = 0
    BY <1>1
  <2> QED
    BY <1>2, <2>1, TotalSupport
<1>6. Total([u \in S \ A |-> h[u]]) = Total(h)
  <2>1. \A u \in S \ (S \ A) : h[u] = 0
    BY <1>1
  <2>2. S \ A \subseteq S
    OBVIOUS
  <2> QED
    BY <1>2, <2>1, <2>2, TotalSupport
<1>7. [u \in A |-> g[u]] = [u \in A |-> f[u]] /\ [u \in S \ A |-> h[u]] = [u \in S \ A |-> f[u]]
  BY <1>1
<1> QED
  BY <1>3, <1>4, <1>5, <1>6, <1>7

\* The same amounts under other names add up to the same.
LEMMA TotalReindex ==
  ASSUME NEW A, IsFiniteSet(A), NEW B, NEW b \in Bijection(A, B),
         NEW g \in [A -> Nat], NEW f \in [B -> Nat], \A a \in A : g[a] = f[b[a]]
  PROVE  Total(g) = Total(f)
<1>1. /\ b \in [A -> B]
      /\ \A x, y \in A : b[x] = b[y] => x = y
      /\ \A y \in B : \E x \in A : b[x] = y
  <2>1. b \in Injection(A, B) /\ b \in Surjection(A, B)
    BY DEF Bijection
  <2> QED
    BY <2>1 DEF Injection, IsInjective, Surjection
<1>2. IsFiniteSet(B)
  <2>1. b \in Surjection(A, B)
    BY DEF Bijection
  <2> QED
    BY <2>1, FS_Surjection
<1>3. \A a \in A : g[a] <= f[b[a]]
  <2> SUFFICES ASSUME NEW a \in A PROVE g[a] <= f[b[a]]
    OBVIOUS
  <2>1. g[a] = f[b[a]] /\ g[a] \in Nat
    OBVIOUS
  <2> QED
    BY <2>1
<1>4. Total(g) <= Total(f)
  <2>1. b \in Injection(A, B)
    BY DEF Bijection
  <2> QED
    BY <1>2, <1>3, <2>1, TotalInjection
<1>5. PICK c : c = [y \in B |-> CHOOSE x \in A : b[x] = y]
  OBVIOUS
<1>6. c \in [B -> A] /\ \A y \in B : b[c[y]] = y
  BY <1>1, <1>5
<1>7. c \in Injection(B, A)
  BY <1>6, Fun_IsInj
<1>8. \A y \in B : f[y] <= g[c[y]]
  <2> SUFFICES ASSUME NEW y \in B PROVE f[y] <= g[c[y]]
    OBVIOUS
  <2>1. c[y] \in A /\ b[c[y]] = y
    BY <1>6
  <2>2. g[c[y]] = f[y] /\ f[y] \in Nat
    BY <2>1
  <2> QED
    BY <2>2
<1>9. Total(f) <= Total(g)
  BY <1>7, <1>8, TotalInjection
<1>10. Total(f) \in Nat /\ Total(g) \in Nat
  BY <1>2, UnitsFinite
<1> QED
  BY <1>4, <1>9, <1>10

\* The same, of the function that takes its values through the bijection.
LEMMA TotalThrough ==
  ASSUME NEW A, IsFiniteSet(A), NEW B, NEW b \in Bijection(A, B), NEW f \in [B -> Nat]
  PROVE  Total([a \in A |-> f[b[a]]]) = Total(f)
<1>1. PICK g : g = [a \in A |-> f[b[a]]]
  OBVIOUS
<1>2. \A a \in A : b[a] \in B
  BY DEF Bijection, Injection
<1>3. g \in [A -> Nat] /\ \A a \in A : g[a] = f[b[a]]
  BY <1>1, <1>2
<1>4. Total(g) = Total(f)
  BY <1>3, TotalReindex
<1> QED
  BY <1>1, <1>4

\* A table restricted to some of its entries, and the total in two parts.
Part(f, A) == [u \in A |-> f[u]]

\* The total of a table is that of its parts on two halves of its domain.
LEMMA TotalOfParts ==
  ASSUME NEW S, IsFiniteSet(S), NEW f \in [S -> Nat], NEW A, A \in SUBSET S
  PROVE  Total(f) = Total(Part(f, A)) + Total(Part(f, S \ A))
<1>1. Total(f) = Total([u \in A |-> f[u]]) + Total([u \in S \ A |-> f[u]])
  BY TotalParts
<1> QED
  BY <1>1 DEF Part

-----------------------------------------------------------------------------
(* Queues, and what PriceTime makes of them.                               *)

\* Counting upwards reaches every position of a finite set once, so Nth, which
\* Sub is built on, always has a position to choose.
LEMMA NthIsPosition ==
  ASSUME NEW P, P \subseteq Nat, IsFiniteSet(P), NEW k \in 1..Cardinality(P)
  PROVE  Nth(P, k) \in P /\ Cardinality({j \in P : j <= Nth(P, k)}) = k
<1> DEFINE upTo(i) == {j \in P : j <= i}
           rank == [i \in P |-> Cardinality(upTo(i))]
           n == Cardinality(P)
<1>1. n \in Nat
  BY FS_CardinalityType
<1>2. \A i \in P : IsFiniteSet(upTo(i)) /\ Cardinality(upTo(i)) \in 1..n
  <2> SUFFICES ASSUME NEW i \in P
               PROVE  IsFiniteSet(upTo(i)) /\ Cardinality(upTo(i)) \in 1..n
    OBVIOUS
  <2>1. upTo(i) \in SUBSET P /\ i \in upTo(i)
    OBVIOUS
  <2> HIDE DEF upTo
  <2>2. IsFiniteSet(upTo(i)) /\ Cardinality(upTo(i)) <= n
    BY <2>1, FS_Subset
  <2>3. Cardinality(upTo(i)) \in Nat /\ Cardinality(upTo(i)) # 0
    BY <2>1, <2>2, FS_CardinalityType, FS_EmptySet
  <2> QED
    BY <1>1, <2>2, <2>3
<1>3. ASSUME NEW i \in P, NEW j \in P, i < j
      PROVE  Cardinality(upTo(i)) # Cardinality(upTo(j))
  <2>1. upTo(i) \in SUBSET upTo(j) /\ j \in upTo(j) /\ j \notin upTo(i)
    <3>1. i \in Nat /\ j \in Nat /\ \A x \in P : x \in Nat
      OBVIOUS
    <3>2. \A x \in P : x <= i => x <= j
      BY <1>3, <3>1
    <3>3. upTo(i) \in SUBSET upTo(j)
      BY <3>2
    <3>4. j <= j /\ ~(j <= i)
      BY <1>3, <3>1
    <3> QED
      BY <3>3, <3>4
  <2>2. IsFiniteSet(upTo(j))
    BY <1>2
  <2> HIDE DEF upTo
  <2> QED
    BY <2>1, <2>2, FS_Subset
<1>4. rank \in Injection(P, 1..n)
  <2>1. rank \in [P -> 1..n]
    BY <1>2
  <2>2. \A i, j \in P : rank[i] = rank[j] => i = j
    <3>1. \A i, j \in P : i = j \/ i < j \/ j < i
      OBVIOUS
    <3> HIDE DEF upTo
    <3> QED
      BY <1>3, <3>1
  <2> HIDE DEF rank
  <2> QED
    BY <2>1, <2>2 DEF Injection, IsInjective
<1>5. IsFiniteSet(1..n) /\ Cardinality(1..n) = n
  BY <1>1, FS_Interval
<1>6. rank \in Surjection(P, 1..n)
  <2> HIDE DEF rank
  <2> QED
    BY <1>4, <1>5, FS_Injection
<1>7. \E i \in P : rank[i] = k
  <2> HIDE DEF rank
  <2> QED
    BY <1>6 DEF Surjection
<1>8. \E i \in P : Cardinality({j \in P : j <= i}) = k
  BY <1>7
<1> QED
  BY <1>8 DEF Nth

\* What Sub picks: every position of the set, each once.
LEMMA NthBijection ==
  ASSUME NEW P, P \subseteq Nat, IsFiniteSet(P)
  PROVE  /\ Cardinality(P) \in Nat
         /\ \A k \in 1..Cardinality(P) : Nth(P, k) \in P
         /\ \A k, l \in 1..Cardinality(P) : Nth(P, k) = Nth(P, l) => k = l
         /\ \A i \in P : \E k \in 1..Cardinality(P) : Nth(P, k) = i
<1> DEFINE n == Cardinality(P)
           at == [k \in 1..n |-> Nth(P, k)]
<1>1. n \in Nat
  BY FS_CardinalityType
<1>2. \A k \in 1..n : Nth(P, k) \in P /\ Cardinality({j \in P : j <= Nth(P, k)}) = k
  BY NthIsPosition
<1>3. at \in [1..n -> P] /\ \A k, l \in 1..n : at[k] = at[l] => k = l
  BY <1>2, Zenon
<1>4. at \in Injection(1..n, P)
  <2> HIDE DEF at
  <2> QED
    BY <1>3, Fun_IsInj
<1>5. IsFiniteSet(1..n) /\ Cardinality(1..n) = n
  BY <1>1, FS_Interval
<1>6. at \in Surjection(1..n, P)
  <2> HIDE DEF at
  <2> QED
    BY <1>4, <1>5, FS_Injection
<1>7. \A i \in P : \E k \in 1..n : at[k] = i
  <2> HIDE DEF at
  <2> QED
    BY <1>6 DEF Surjection
<1> QED
  BY <1>1, <1>2, <1>3, <1>7

\* The positions of a queue.
LEMMA PositionsFinite ==
  ASSUME NEW S, NEW queue \in Seq(S)
  PROVE  /\ Len(queue) \in Nat /\ DOMAIN queue = 1..Len(queue)
         /\ IsFiniteSet(DOMAIN queue) /\ DOMAIN queue \subseteq Nat
         /\ \A P \in SUBSET (DOMAIN queue) : IsFiniteSet(P) /\ P \subseteq Nat
<1>1. Len(queue) \in Nat /\ DOMAIN queue = 1..Len(queue)
  OBVIOUS
<1>2. IsFiniteSet(DOMAIN queue)
  BY <1>1, FS_Interval
<1> QED
  BY <1>1, <1>2, FS_Subset

\* The part of a queue at some of its positions is a queue of its members.
LEMMA SubType ==
  ASSUME NEW S, NEW queue \in Seq(S), NEW P \in SUBSET (DOMAIN queue)
  PROVE  Sub(queue, P) \in Seq(S)
<1>1. DOMAIN queue = 1..Len(queue) /\ Len(queue) \in Nat
  OBVIOUS
<1>2. IsFiniteSet(P) /\ P \subseteq Nat
  <2>1. IsFiniteSet(DOMAIN queue)
    BY <1>1, FS_Interval
  <2> QED
    BY <1>1, <2>1, FS_Subset
<1>3. Cardinality(P) \in Nat
  BY <1>2, FS_CardinalityType
<1>4. \A k \in 1..Cardinality(P) : queue[Nth(P, k)] \in S
  BY <1>1, <1>2, NthBijection
<1> DEFINE n == Cardinality(P)
           pick(k) == queue[Nth(P, k)]
<1>5. n \in Nat /\ \A k \in 1..n : pick(k) \in S
  BY <1>3, <1>4
<1> HIDE DEF n, pick
<1>6. [k \in 1..n |-> pick(k)] \in Seq(S)
  BY <1>5
<1> QED
  BY <1>6 DEF Sub, n, pick

\* The members of the part of a queue at some positions.
LEMMA SubMembers ==
  ASSUME NEW S, NEW queue \in Seq(S), NEW P \in SUBSET (DOMAIN queue)
  PROVE  /\ DOMAIN Sub(queue, P) = 1..Cardinality(P)
         /\ \A k \in DOMAIN Sub(queue, P) :
              Nth(P, k) \in P /\ Sub(queue, P)[k] = queue[Nth(P, k)]
         /\ \A k, l \in DOMAIN Sub(queue, P) : Nth(P, k) = Nth(P, l) => k = l
         /\ \A i \in P : \E k \in DOMAIN Sub(queue, P) : Sub(queue, P)[k] = queue[i]
<1>1. IsFiniteSet(P) /\ P \subseteq Nat
  BY PositionsFinite
<1> QED
  BY <1>1, NthBijection DEF Sub

\* A table over the part of a queue, no larger anywhere than one over the queue.
LEMMA SubTotal ==
  ASSUME NEW S, NEW queue \in Seq(S), NEW P \in SUBSET (DOMAIN queue),
         NEW A \in SUBSET (DOMAIN Sub(queue, P)), NEW g \in [A -> Nat],
         NEW B \in SUBSET (DOMAIN queue), NEW f \in [B -> Nat],
         \A k \in A : Nth(P, k) \in B /\ g[k] <= f[Nth(P, k)]
  PROVE  Total(g) <= Total(f)
<1> DEFINE at == [k \in A |-> Nth(P, k)]
<1>1. at \in [A -> B] /\ \A k, l \in A : at[k] = at[l] => k = l
  BY SubMembers
<1>2. \A k \in A : g[k] <= f[at[k]]
  OBVIOUS
<1>3. at \in Injection(A, B)
  <2> HIDE DEF at
  <2> QED
    BY <1>1, Fun_IsInj
<1>4. IsFiniteSet(B)
  BY PositionsFinite
<1> HIDE DEF at
<1> QED
  BY <1>2, <1>3, <1>4, TotalInjection

\* The queue r is the other one with e put in at a position.
Inserted(r, queue, e, at) ==
  /\ at \in 1..(Len(queue) + 1)
  /\ Len(r) = Len(queue) + 1
  /\ \A k \in 1..(Len(queue) + 1) :
       r[k] = IF k < at THEN queue[k] ELSE IF k = at THEN e ELSE queue[k - 1]

\* Where a resting order goes: behind those at least as good.
PlaceOf(side, queue, e) ==
  Cardinality({i \in DOMAIN queue : ~Better(side, e.price, queue[i].price)}) + 1

\* A resting order inserted in a queue: it stands at its place, and the others
\* stand around it as they stood.
LEMMA RestPlace ==
  ASSUME NEW S, NEW queue \in Seq(S), NEW e \in S, NEW side
  PROVE  /\ Rest(side, queue, e) \in Seq(S)
         /\ Inserted(Rest(side, queue, e), queue, e, PlaceOf(side, queue, e))
<1> DEFINE ahead == {i \in DOMAIN queue : ~Better(side, e.price, queue[i].price)}
           at == Cardinality(ahead) + 1
           n == Len(queue)
<1>1. n \in Nat /\ DOMAIN queue = 1..n /\ IsFiniteSet(DOMAIN queue)
      /\ Cardinality(DOMAIN queue) = n
  <2>1. n \in Nat /\ DOMAIN queue = 1..n
    BY PositionsFinite
  <2>2. IsFiniteSet(1..n) /\ Cardinality(1..n) = n
    <3> HIDE DEF n
    <3> QED
      BY <2>1, FS_Interval
  <2> QED
    BY <2>1, <2>2
<1>2. at \in 1..(n + 1)
  <2>1. ahead \in SUBSET DOMAIN queue
    OBVIOUS
  <2> HIDE DEF ahead, n
  <2>2. IsFiniteSet(ahead) /\ Cardinality(ahead) <= n
    BY <1>1, <2>1, FS_Subset
  <2>3. Cardinality(ahead) \in Nat
    BY <2>2, FS_CardinalityType
  <2> QED
    BY <1>1, <2>2, <2>3
<1>0. at = PlaceOf(side, queue, e)
  BY DEF PlaceOf
<1> HIDE DEF at
<1> DEFINE front == SubSeq(queue, 1, at - 1)
           back == SubSeq(queue, at, n)
           head == front \o <<e>>
           r == head \o back
<1>3. /\ front \in Seq(S) /\ Len(front) = at - 1
      /\ \A k \in 1..(at - 1) : front[k] = queue[k]
  <2>1. \A k \in 1..(at - 1) : queue[k] \in S
    BY <1>1, <1>2
  <2>2. 1 \in Int /\ at - 1 \in Int
    BY <1>1, <1>2
  <2>3. /\ front \in Seq(S) /\ Len(front) = IF 1 <= at - 1 THEN at - 1 - 1 + 1 ELSE 0
        /\ \A k \in 1..(at - 1 - 1 + 1) : front[k] = queue[1 + k - 1]
    BY <2>1, <2>2, SubSeqProperties
  <2> HIDE DEF front
  <2> QED
    BY <1>1, <1>2, <2>3
<1>4. /\ back \in Seq(S) /\ Len(back) = n - at + 1
      /\ \A k \in 1..(n - at + 1) : back[k] = queue[at + k - 1]
  <2>1. \A k \in at..n : queue[k] \in S
    BY <1>1, <1>2
  <2>2. at \in Int /\ n \in Int
    BY <1>1, <1>2
  <2>3. /\ back \in Seq(S) /\ Len(back) = IF at <= n THEN n - at + 1 ELSE 0
        /\ \A k \in 1..(n - at + 1) : back[k] = queue[at + k - 1]
    BY <2>1, <2>2, SubSeqProperties
  <2> HIDE DEF back
  <2> QED
    BY <1>1, <1>2, <2>3
<1> HIDE DEF front, back, n
<1>5. <<e>> \in Seq(S) /\ Len(<<e>>) = 1 /\ <<e>>[1] = e
  OBVIOUS
<1>6. /\ head \in Seq(S) /\ Len(head) = at
      /\ \A k \in 1..at : head[k] = IF k < at THEN queue[k] ELSE e
  <2>1. /\ head \in Seq(S) /\ Len(head) = Len(front) + Len(<<e>>)
        /\ \A k \in 1..(Len(front) + Len(<<e>>)) :
             head[k] = IF k <= Len(front) THEN front[k] ELSE <<e>>[k - Len(front)]
    BY <1>3, <1>5, ConcatProperties
  <2> HIDE DEF head
  <2>2. at - 1 + 1 = at /\ at - (at - 1) = 1 /\ at - 1 \in Nat /\ at \in Nat
    BY <1>1, <1>2
  <2>3. Len(head) = at
    BY <1>3, <1>5, <2>1, <2>2
  <2>4. ASSUME NEW k \in 1..at
        PROVE  head[k] = IF k < at THEN queue[k] ELSE e
    <3>1. head[k] = IF k <= at - 1 THEN front[k] ELSE <<e>>[k - (at - 1)]
      BY <1>3, <1>5, <2>1, <2>2
    <3>2. CASE k < at
      <4>1. k <= at - 1 /\ k \in 1..(at - 1)
        BY <2>2, <3>2
      <4> QED
        BY <1>3, <3>1, <3>2, <4>1
    <3>3. CASE k = at
      <4>1. ~(k <= at - 1) /\ k - (at - 1) = 1 /\ ~(k < at)
        BY <2>2, <3>3
      <4> QED
        BY <1>5, <3>1, <4>1
    <3> QED
      BY <2>2, <3>2, <3>3
  <2> QED
    BY <2>1, <2>3, <2>4
<1> HIDE DEF head
<1>7. /\ r \in Seq(S) /\ Len(r) = n + 1
      /\ \A k \in 1..(n + 1) :
           r[k] = IF k < at THEN queue[k] ELSE IF k = at THEN e ELSE queue[k - 1]
  <2>1. /\ r \in Seq(S) /\ Len(r) = at + (n - at + 1)
        /\ \A k \in 1..(at + (n - at + 1)) :
             r[k] = IF k <= at THEN head[k] ELSE back[k - at]
    <3>1. /\ r \in Seq(S) /\ Len(r) = Len(head) + Len(back)
          /\ \A k \in 1..(Len(head) + Len(back)) :
               r[k] = IF k <= Len(head) THEN head[k] ELSE back[k - Len(head)]
      BY <1>4, <1>6, ConcatProperties
    <3> HIDE DEF r
    <3> QED
      BY <1>4, <1>6, <3>1
  <2>2. at + (n - at + 1) = n + 1
    BY <1>1, <1>2
  <2> HIDE DEF r
  <2>3. ASSUME NEW k \in 1..(n + 1)
        PROVE  r[k] = IF k < at THEN queue[k] ELSE IF k = at THEN e ELSE queue[k - 1]
    <3>1. r[k] = IF k <= at THEN head[k] ELSE back[k - at]
      BY <2>1, <2>2
    <3>2. CASE k <= at
      <4>1. k \in 1..at
        BY <1>1, <1>2, <3>2
      <4>2. r[k] = IF k < at THEN queue[k] ELSE e
        BY <1>6, <3>1, <3>2, <4>1
      <4> QED
        BY <1>1, <1>2, <3>2, <4>2
    <3>3. CASE k > at
      <4>1. k - at \in 1..(n - at + 1) /\ at + (k - at) - 1 = k - 1
            /\ ~(k <= at) /\ ~(k < at) /\ k # at
        BY <1>1, <1>2, <3>3
      <4> QED
        BY <1>4, <3>1, <4>1
    <3> QED
      BY <1>1, <1>2, <3>2, <3>3
  <2> QED
    BY <2>1, <2>2, <2>3
<1>8. Rest(side, queue, e) = r
  BY DEF Rest, InsertAt, at, r, head, front, back, n
<1> HIDE DEF r
<1>9. Inserted(r, queue, e, at)
  BY <1>2, <1>7 DEF n, Inserted
<1> QED
  BY <1>0, <1>7, <1>8, <1>9

\* A resting order inserted in a queue stands at one position of it.
LEMMA RestMembers ==
  ASSUME NEW S, NEW queue \in Seq(S), NEW e \in S, NEW side
  PROVE  /\ Rest(side, queue, e) \in Seq(S)
         /\ \E at : Inserted(Rest(side, queue, e), queue, e, at)
BY RestPlace

\* A resting order inserted in a queue keeps it a queue.
LEMMA RestType ==
  ASSUME NEW S, NEW queue \in Seq(S), NEW e \in S, NEW side
  PROVE  Rest(side, queue, e) \in Seq(S)
BY RestMembers

-----------------------------------------------------------------------------

\* What the members of a queue amount to, each weighed by the table W.
BookSum(queue, W) == Total([i \in DOMAIN queue |-> W[queue[i]]])

\* The weights of a queue and their sum.
LEMMA SumType ==
  ASSUME NEW S, NEW queue \in Seq(S), NEW W \in [S -> Nat]
  PROVE  /\ [i \in DOMAIN queue |-> W[queue[i]]] \in [DOMAIN queue -> Nat]
         /\ BookSum(queue, W) \in Nat
<1>1. IsFiniteSet(DOMAIN queue) /\ \A i \in DOMAIN queue : W[queue[i]] \in Nat
  BY PositionsFinite
<1>2. [i \in DOMAIN queue |-> W[queue[i]]] \in [DOMAIN queue -> Nat]
  BY <1>1
<1> QED
  BY <1>1, <1>2, UnitsFinite DEF BookSum

\* An order that comes to rest adds its own weight and no more.
LEMMA RestSum ==
  ASSUME NEW S, NEW queue \in Seq(S), NEW e \in S, NEW side, NEW W \in [S -> Nat]
  PROVE  BookSum(Rest(side, queue, e), W) <= BookSum(queue, W) + W[e]
<1> DEFINE r == Rest(side, queue, e)
           n == Len(queue)
           f == [i \in DOMAIN queue |-> W[queue[i]]]
           g == [k \in DOMAIN r |-> W[r[k]]]
<1>1. PICK at : Inserted(r, queue, e, at)
  BY RestMembers
<1>2. /\ r \in Seq(S) /\ Len(r) = n + 1 /\ at \in 1..(n + 1)
      /\ \A k \in 1..(n + 1) :
           r[k] = IF k < at THEN queue[k] ELSE IF k = at THEN e ELSE queue[k - 1]
  BY <1>1, RestMembers DEF Inserted
<1>3. n \in Nat /\ DOMAIN queue = 1..n /\ IsFiniteSet(DOMAIN queue)
  BY PositionsFinite
<1>4. IsFiniteSet(DOMAIN r) /\ DOMAIN r = 1..(n + 1)
  <2>1. IsFiniteSet(DOMAIN r) /\ DOMAIN r = 1..Len(r)
    <3> HIDE DEF r
    <3> QED
      BY <1>2, PositionsFinite
  <2> QED
    BY <1>2, <2>1
<1> DEFINE B == DOMAIN r \ {at}
           h == [k \in B |-> g[k]]
           b == [k \in B |-> IF k < at THEN k ELSE k - 1]
<1>5. f \in [DOMAIN queue -> Nat] /\ g \in [DOMAIN r -> Nat] /\ W[e] \in Nat
  <2>1. f \in [DOMAIN queue -> Nat]
    BY SumType
  <2>2. g \in [DOMAIN r -> Nat]
    <3> HIDE DEF r
    <3> QED
      BY <1>2, SumType
  <2> QED
    BY <2>1, <2>2
<1>6. g[at] = W[e]
  BY <1>2, <1>3, <1>4
<1>7. Total(g) = Total(h) + g[at]
  <2>1. at \in DOMAIN r
    BY <1>2, <1>4
  <2> HIDE DEF g, r
  <2> QED
    BY <1>4, <1>5, <2>1, TotalRemove
<1>8. \A k \in B : b[k] \in DOMAIN queue /\ r[k] = queue[b[k]]
  BY <1>2, <1>3, <1>4
<1>9. ASSUME NEW k \in B, NEW l \in B, b[k] = b[l] PROVE k = l
  <2>1. k \in 1..(n + 1) /\ l \in 1..(n + 1) /\ k # at /\ l # at
    BY <1>4, Zenon
  <2>2. b[k] = (IF k < at THEN k ELSE k - 1) /\ b[l] = (IF l < at THEN l ELSE l - 1)
    OBVIOUS
  <2> HIDE DEF b, n, B
  <2>3. PICK x, y : x = b[k] /\ y = b[l]
    OBVIOUS
  <2>4. x = y /\ n \in Nat /\ at \in 1..(n + 1)
    BY <1>2, <1>3, <1>9, <2>3
  <2> QED
    BY <2>1, <2>2, <2>3, <2>4
<1>10. b \in Injection(B, DOMAIN queue)
  <2>1. b \in [B -> DOMAIN queue]
    <3>1. b = [k \in B |-> b[k]]
      OBVIOUS
    <3> HIDE DEF b, B
    <3> QED
      BY <1>8, <3>1
  <2> HIDE DEF b, B
  <2> QED
    BY <1>9, <2>1, Fun_IsInj
<1>11. h \in [B -> Nat] /\ \A k \in B : h[k] <= f[b[k]]
  <2>1. h \in [B -> Nat]
    BY <1>5
  <2>2. \A k \in B : h[k] = W[r[k]] /\ f[b[k]] = W[queue[b[k]]]
    BY <1>8
  <2>3. \A k \in B : h[k] = f[b[k]] /\ h[k] \in Nat
    BY <1>8, <2>1, <2>2
  <2> HIDE DEF h, f, b, B
  <2> QED
    BY <2>1, <2>3
<1>12. Total(h) <= Total(f)
  <2> HIDE DEF h, f, b, B
  <2> QED
    BY <1>3, <1>5, <1>10, <1>11, TotalInjection
<1>13. Total(h) \in Nat /\ Total(f) \in Nat
  <2>1. IsFiniteSet(B)
    BY <1>4, FS_RemoveElement
  <2> HIDE DEF h, f, B
  <2> QED
    BY <1>3, <1>5, <1>11, <2>1, UnitsFinite
<1>14. BookSum(r, W) = Total(g) /\ BookSum(queue, W) = Total(f)
  BY DEF BookSum
<1> HIDE DEF r, f, g, h
<1> QED
  BY <1>5, <1>6, <1>7, <1>12, <1>13, <1>14 DEF r

\* Parts of a queue weigh no more than the queue: the members kept, with those
\* of the others that can be told apart by where they stood.
LEMMA SplitSum ==
  ASSUME NEW S, NEW queue \in Seq(S), NEW W \in [S -> Nat],
         NEW P \in SUBSET (DOMAIN queue),
         NEW X, NEW at \in Injection(X, DOMAIN queue), NEW g \in [X -> Nat],
         \A x \in X : at[x] \notin P /\ g[x] <= W[queue[at[x]]]
  PROVE  BookSum(Sub(queue, P), W) + Total(g) <= BookSum(queue, W)
<1> DEFINE D == DOMAIN queue
           f == [i \in D |-> W[queue[i]]]
           a == [i \in D |-> IF i \in P THEN f[i] ELSE 0]
           b == [i \in D |-> IF i \in P THEN 0 ELSE f[i]]
           s == Sub(queue, P)
           w == [k \in DOMAIN s |-> W[s[k]]]
<1>1. f \in [D -> Nat] /\ IsFiniteSet(D)
  BY SumType, PositionsFinite
<1>2. a \in [D -> Nat] /\ b \in [D -> Nat] /\ \A i \in D : f[i] = a[i] + b[i]
  <2> HIDE DEF f
  <2> QED
    BY <1>1
<1>3. Total(f) = Total(a) + Total(b)
  <2>1. f = [i \in D |-> a[i] + b[i]]
    <3> HIDE DEF a, b, f
    <3> QED
      BY <1>1, <1>2
  <2> HIDE DEF a, b, D, f
  <2>2. Total([i \in D |-> a[i] + b[i]]) = Total(a) + Total(b)
    BY <1>1, <1>2, TotalSum
  <2> QED
    BY <2>1, <2>2, Zenon
<1>4. Total(w) <= Total(a)
  <2>1. w \in [DOMAIN s -> Nat]
    <3>1. s \in Seq(S)
      BY SubType
    <3> HIDE DEF s
    <3> QED
      BY <3>1, SumType
  <2>2. \A k \in DOMAIN s : Nth(P, k) \in P /\ s[k] = queue[Nth(P, k)]
    BY SubMembers
  <2>3. \A k \in DOMAIN s : Nth(P, k) \in D /\ w[k] = a[Nth(P, k)]
    <3> HIDE DEF s
    <3> QED
      BY <2>2
  <2>4. \A k \in DOMAIN s : Nth(P, k) \in D /\ w[k] <= a[Nth(P, k)]
    <3> HIDE DEF w, a
    <3> QED
      BY <2>1, <2>3
  <2>5. DOMAIN s \in SUBSET (DOMAIN Sub(queue, P)) /\ D \in SUBSET (DOMAIN queue)
    OBVIOUS
  <2> HIDE DEF w, a, s, D
  <2> QED
    BY <1>2, <2>1, <2>4, <2>5, SubTotal
<1>5. Total(g) <= Total(b)
  <2>1. at \in [X -> D]
    BY DEF Injection
  <2>2. \A x \in X : b[at[x]] = W[queue[at[x]]]
    BY <2>1
  <2>3. \A x \in X : g[x] <= b[at[x]]
    <3> HIDE DEF b
    <3> QED
      BY <2>2
  <2>4. at \in Injection(X, D) /\ IsFiniteSet(D) /\ b \in [D -> Nat]
    BY <1>1, <1>2, Zenon
  <2> HIDE DEF b, D
  <2> QED
    BY <2>3, <2>4, TotalInjection
<1>6. Total(w) \in Nat /\ Total(a) \in Nat /\ Total(b) \in Nat /\ Total(g) \in Nat
  <2>1. Total(a) \in Nat /\ Total(b) \in Nat
    <3> HIDE DEF a, b, D
    <3> QED
      BY <1>1, <1>2, UnitsFinite
  <2>2. Total(w) \in Nat
    <3>1. s \in Seq(S)
      BY SubType
    <3> HIDE DEF s
    <3> QED
      BY <3>1, SumType DEF BookSum
  <2>3. IsFiniteSet(X)
    BY <1>1, FS_Injection
  <2>4. Total(g) \in Nat
    BY <2>3, UnitsFinite
  <2> QED
    BY <2>1, <2>2, <2>4
<1>7. BookSum(Sub(queue, P), W) = Total(w) /\ BookSum(queue, W) = Total(f)
  BY DEF BookSum
<1> HIDE DEF w, f, a, b, D
<1> QED
  BY <1>3, <1>4, <1>5, <1>6, <1>7

\* Part of a queue, alone and with one of the others.
LEMMA SubSum ==
  ASSUME NEW S, NEW queue \in Seq(S), NEW W \in [S -> Nat],
         NEW P \in SUBSET (DOMAIN queue)
  PROVE  /\ BookSum(Sub(queue, P), W) <= BookSum(queue, W)
         /\ \A i \in DOMAIN queue \ P :
              BookSum(Sub(queue, P), W) + W[queue[i]] <= BookSum(queue, W)
<1>1. ASSUME NEW Q \in SUBSET (DOMAIN queue \ P)
      PROVE  BookSum(Sub(queue, P), W) + Total([i \in Q |-> W[queue[i]]]) <= BookSum(queue, W)
  <2> DEFINE at == [i \in Q |-> i]
             g == [i \in Q |-> W[queue[i]]]
  <2>1. at \in [Q -> DOMAIN queue] /\ \A i, j \in Q : at[i] = at[j] => i = j
    OBVIOUS
  <2>2. at \in Injection(Q, DOMAIN queue)
    <3> HIDE DEF at
    <3> QED
      BY <2>1, Fun_IsInj
  <2>3. g \in [Q -> Nat] /\ \A i \in Q : at[i] \notin P /\ g[i] <= W[queue[at[i]]]
    <3>1. \A i \in Q : W[queue[i]] \in Nat
      OBVIOUS
    <3> QED
      BY <3>1
  <2> HIDE DEF at, g
  <2>4. BookSum(Sub(queue, P), W) + Total(g) <= BookSum(queue, W)
    BY <2>2, <2>3, SplitSum
  <2> QED
    BY <2>4 DEF g
<1>2. BookSum(Sub(queue, P), W) \in Nat
  BY SubType, SumType
<1>3. BookSum(Sub(queue, P), W) <= BookSum(queue, W)
  <2>1. {} \in SUBSET (DOMAIN queue \ P) /\ Total([i \in {} |-> W[queue[i]]]) = 0
    BY TotalEmpty
  <2>2. BookSum(Sub(queue, P), W) + 0 <= BookSum(queue, W)
    BY <1>1, <2>1
  <2> QED
    BY <1>2, <2>2
<1>4. ASSUME NEW i \in DOMAIN queue \ P
      PROVE  BookSum(Sub(queue, P), W) + W[queue[i]] <= BookSum(queue, W)
  <2> DEFINE g == [j \in {i} |-> W[queue[j]]]
  <2>1. g \in [{i} -> Nat] /\ g[i] = W[queue[i]] /\ W[queue[i]] \in Nat
    OBVIOUS
  <2>2. W[queue[i]] <= Total(g) /\ Total(g) \in Nat
    <3>1. IsFiniteSet({i})
      BY FS_Singleton
    <3> HIDE DEF g
    <3>2. g[i] <= Total(g) /\ Total(g) \in Nat
      BY <2>1, <3>1, EntryWithinTotal, UnitsFinite
    <3> QED
      BY <2>1, <3>2
  <2>3. BookSum(Sub(queue, P), W) + Total(g) <= BookSum(queue, W)
    BY <1>1
  <2>4. BookSum(queue, W) \in Nat
    BY SumType
  <2> HIDE DEF g
  <2> QED
    BY <1>2, <2>1, <2>2, <2>3, <2>4
<1> QED
  BY <1>3, <1>4

-----------------------------------------------------------------------------

\* The members of a book: orders of some owners with some identities.
EntrySet(ids, owners) ==
  [id : ids, owner : owners, price : Nat, remaining : Nat]

FillSet(ids, owners) ==
  [maker : ids, owner : owners, price : Nat, quantity : Nat]

\* What is ahead of a position is a quantity.
LEMMA AheadType ==
  ASSUME NEW ids, NEW owners, NEW queue \in Seq(EntrySet(ids, owners)),
         NEW i \in DOMAIN queue
  PROVE  Ahead(queue, i) \in Nat
<1>1. i \in 1..Len(queue) /\ Len(queue) \in Nat
  OBVIOUS
<1>2. IsFiniteSet(1..(i - 1))
  BY <1>1, FS_Interval
<1>3. [j \in 1..(i - 1) |-> queue[j].remaining] \in [1..(i - 1) -> Nat]
  <2> SUFFICES ASSUME NEW j \in 1..(i - 1)
               PROVE  queue[j].remaining \in Nat
    OBVIOUS
  <2>1. j \in 1..Len(queue)
    BY <1>1
  <2>2. queue[j] \in EntrySet(ids, owners)
    BY <2>1
  <2> QED
    BY <2>2 DEF EntrySet
<1> QED
  BY <1>2, <1>3, UnitsFinite DEF Ahead

\* An order takes from a resting order no more than rests.
LEMMA TakenType ==
  ASSUME NEW ids, NEW owners, NEW queue \in Seq(EntrySet(ids, owners)),
         NEW order, order.quantity \in Nat
  PROVE  /\ Taken(order, queue) \in [DOMAIN queue -> Nat]
         /\ \A i \in DOMAIN queue : Taken(order, queue)[i] <= queue[i].remaining
<1> SUFFICES ASSUME NEW i \in DOMAIN queue
             PROVE  /\ Taken(order, queue)[i] \in Nat
                    /\ Taken(order, queue)[i] <= queue[i].remaining
  BY DEF Taken
<1> DEFINE a == Ahead(queue, i)
           r == queue[i].remaining
           q == order.quantity
           t == Taken(order, queue)[i]
<1>1. a \in Nat /\ r \in Nat /\ q \in Nat
  <2>1. a \in Nat
    BY AheadType
  <2>2. r \in Nat
    <3>1. queue[i] \in EntrySet(ids, owners)
      OBVIOUS
    <3> QED
      BY <3>1 DEF EntrySet
  <2> HIDE DEF a, r
  <2> QED
    BY <2>1, <2>2
<1>2. t = 0 \/ (a < q /\ t = Min64(q - a, r))
  BY DEF Taken
<1> HIDE DEF a, r, q, t
<1>3. t \in Nat /\ t <= r
  BY <1>1, <1>2 DEF Min64
<1> QED
  BY <1>3 DEF t, r

\* The match with the order at position i, the positions with one, and what
\* rests after it.
FillAt(order, queue, i) ==
  [maker |-> queue[i].id, owner |-> queue[i].owner,
   price |-> queue[i].price, quantity |-> Taken(order, queue)[i]]

Hit(order, queue) == {i \in DOMAIN queue : Taken(order, queue)[i] > 0}

LeftAt(order, queue, i) == [queue[i] EXCEPT !.remaining = @ - Taken(order, queue)[i]]

\* A match with each, and what each has left.
AllFills(order, queue) == [i \in DOMAIN queue |-> FillAt(order, queue, i)]
AllLeft(order, queue) == [i \in DOMAIN queue |-> LeftAt(order, queue, i)]

Remains(order, queue) == {i \in DOMAIN queue : LeftAt(order, queue, i).remaining > 0}

\* The matches of an order are matches with resting orders, and what they leave
\* of these is resting orders.
LEMMA FillsParts ==
  ASSUME NEW ids, NEW owners, NEW queue \in Seq(EntrySet(ids, owners)),
         NEW order, order.quantity \in Nat
  PROVE  /\ AllFills(order, queue) \in Seq(FillSet(ids, owners))
         /\ DOMAIN AllFills(order, queue) = DOMAIN queue
         /\ Hit(order, queue) \in SUBSET (DOMAIN queue)
         /\ Fills(order, queue) = Sub(AllFills(order, queue), Hit(order, queue))
         /\ AllLeft(order, queue) \in Seq(EntrySet(ids, owners))
         /\ DOMAIN AllLeft(order, queue) = DOMAIN queue
         /\ Remains(order, queue) \in SUBSET (DOMAIN queue)
         /\ AfterFills(order, queue) = Sub(AllLeft(order, queue), Remains(order, queue))
<1> DEFINE taken == Taken(order, queue)
           fill == AllFills(order, queue)
           left == AllLeft(order, queue)
<1>1. \A i \in DOMAIN queue :
        /\ taken[i] \in Nat /\ taken[i] <= queue[i].remaining
        /\ queue[i] \in EntrySet(ids, owners)
  BY TakenType
<1>2. \A i \in DOMAIN queue : FillAt(order, queue, i) \in FillSet(ids, owners)
  BY <1>1 DEF FillAt, FillSet, EntrySet
<1>3. \A i \in DOMAIN queue : LeftAt(order, queue, i) \in EntrySet(ids, owners)
  <2> SUFFICES ASSUME NEW i \in DOMAIN queue
               PROVE  LeftAt(order, queue, i) \in EntrySet(ids, owners)
    OBVIOUS
  <2>1. LeftAt(order, queue, i) = [queue[i] EXCEPT !.remaining = @ - taken[i]]
    BY DEF LeftAt
  <2>2. queue[i].remaining \in Nat
    BY <1>1 DEF EntrySet
  <2>3. queue[i].remaining - taken[i] \in Nat
    <3> HIDE DEF taken
    <3> QED
      BY <1>1, <2>2
  <2> HIDE DEF taken
  <2> QED
    BY <1>1, <2>1, <2>3 DEF EntrySet
<1>4. DOMAIN queue = 1..Len(queue) /\ Len(queue) \in Nat
  OBVIOUS
<1>5. fill \in Seq(FillSet(ids, owners)) /\ DOMAIN fill = DOMAIN queue
  <2>1. fill \in [1..Len(queue) -> FillSet(ids, owners)] /\ DOMAIN fill = DOMAIN queue
    BY <1>2, <1>4 DEF AllFills
  <2> HIDE DEF fill
  <2> QED
    BY <1>4, <2>1
<1>6. left \in Seq(EntrySet(ids, owners)) /\ DOMAIN left = DOMAIN queue
  <2>1. left \in [1..Len(queue) -> EntrySet(ids, owners)] /\ DOMAIN left = DOMAIN queue
    BY <1>3, <1>4 DEF AllLeft
  <2> HIDE DEF left
  <2> QED
    BY <1>4, <2>1
<1>7. Fills(order, queue) = Sub(fill, Hit(order, queue))
  BY DEF Fills, AllFills, FillAt, Hit
<1>8. AfterFills(order, queue) = Sub(left, Remains(order, queue))
  <2>1. Remains(order, queue) = {i \in DOMAIN left : left[i].remaining > 0}
    BY DEF Remains, AllLeft
  <2> QED
    BY <2>1 DEF AfterFills, AllLeft, LeftAt
<1> QED
  BY <1>5, <1>6, <1>7, <1>8 DEF Hit, Remains

\* The fills of an order.
LEMMA FillsType ==
  ASSUME NEW ids, NEW owners, NEW queue \in Seq(EntrySet(ids, owners)),
         NEW order, order.quantity \in Nat
  PROVE  Fills(order, queue) \in Seq(FillSet(ids, owners))
BY FillsParts, SubType

\* What is left of the opposite side.
LEMMA AfterFillsType ==
  ASSUME NEW ids, NEW owners, NEW queue \in Seq(EntrySet(ids, owners)),
         NEW order, order.quantity \in Nat
  PROVE  AfterFills(order, queue) \in Seq(EntrySet(ids, owners))
BY FillsParts, SubType

\* What an order leaves unfilled is a number.
LEMMA UnfilledType ==
  ASSUME NEW ids, NEW owners, NEW queue \in Seq(EntrySet(ids, owners)),
         NEW order, order.quantity \in Nat
  PROVE  Unfilled(order, queue) \in Int
<1>1. Taken(order, queue) \in [DOMAIN queue -> Nat]
  BY TakenType
<1>2. IsFiniteSet(DOMAIN queue)
  <2>1. DOMAIN queue = 1..Len(queue) /\ Len(queue) \in Nat
    OBVIOUS
  <2> QED
    BY <2>1, FS_Interval
<1>3. Total(Taken(order, queue)) \in Nat
  BY <1>1, <1>2, UnitsFinite
<1> QED
  BY <1>3 DEF Unfilled

\* A match is with a resting order the incoming one crosses, and takes no more
\* than either has.
LEMMA FillsMembers ==
  ASSUME NEW ids, NEW owners, NEW queue \in Seq(EntrySet(ids, owners)),
         NEW order, order.quantity \in Nat,
         NEW j \in DOMAIN Fills(order, queue)
  PROVE  /\ Nth(Hit(order, queue), j) \in Hit(order, queue)
         /\ LET i == Nth(Hit(order, queue), j)
            IN  /\ Fills(order, queue)[j] = FillAt(order, queue, i)
                /\ Crosses(order, queue[i].price)
                /\ Taken(order, queue)[i] \in 1..order.quantity
                /\ Taken(order, queue)[i] <= queue[i].remaining
<1> DEFINE fill == AllFills(order, queue)
           P == Hit(order, queue)
           i == Nth(P, j)
<1>1. /\ fill \in Seq(FillSet(ids, owners)) /\ DOMAIN fill = DOMAIN queue
      /\ P \in SUBSET (DOMAIN fill)
      /\ Fills(order, queue) = Sub(fill, P)
  BY FillsParts
<1>2. i \in P /\ Fills(order, queue)[j] = fill[i]
  <2> HIDE DEF fill, P
  <2> QED
    BY <1>1, SubMembers
<1>3. i \in DOMAIN queue /\ fill[i] = FillAt(order, queue, i) /\ Taken(order, queue)[i] > 0
  BY <1>2 DEF Hit, AllFills
<1>4. /\ Taken(order, queue)[i] \in Nat /\ Taken(order, queue)[i] <= queue[i].remaining
      /\ Ahead(queue, i) \in Nat /\ queue[i].remaining \in Nat
  <2>1. Taken(order, queue)[i] \in Nat /\ Taken(order, queue)[i] <= queue[i].remaining
    BY <1>3, TakenType
  <2>2. Ahead(queue, i) \in Nat
    BY <1>3, AheadType
  <2>3. queue[i] \in EntrySet(ids, owners)
    BY <1>3
  <2>4. queue[i].remaining \in Nat
    BY <2>3 DEF EntrySet
  <2> QED
    BY <2>1, <2>2, <2>4
<1> HIDE DEF i
<1> DEFINE a == Ahead(queue, i)
           r == queue[i].remaining
           t == Taken(order, queue)[i]
<1>5. t = 0 \/ (Crosses(order, queue[i].price) /\ a < order.quantity
                /\ t = Min64(order.quantity - a, r))
  BY <1>3 DEF Taken
<1>6. t \in Nat /\ t > 0 /\ a \in Nat /\ r \in Nat
  BY <1>3, <1>4
<1>7. Crosses(order, queue[i].price) /\ t \in 1..order.quantity
  <2> HIDE DEF a, r, t
  <2> QED
    BY <1>5, <1>6 DEF Min64
<1> QED
  BY <1>2, <1>3, <1>4, <1>7 DEF i

\* An order takes no more than its quantity: what it takes last is what the
\* quantity ahead has left of it.
LEMMA TakenTotal ==
  ASSUME NEW ids, NEW owners, NEW queue \in Seq(EntrySet(ids, owners)),
         NEW order, order.quantity \in Nat
  PROVE  /\ Total(Taken(order, queue)) \in 0..order.quantity
         /\ Unfilled(order, queue) \in 0..order.quantity
<1> DEFINE f == Taken(order, queue)
           D == DOMAIN queue
           H == Hit(order, queue)
           q == order.quantity
<1>1. /\ f \in [D -> Nat] /\ IsFiniteSet(D) /\ D = 1..Len(queue) /\ Len(queue) \in Nat
      /\ \A i \in D : f[i] <= queue[i].remaining /\ queue[i].remaining \in Nat
  <2>1. \A i \in D : queue[i] \in EntrySet(ids, owners)
    OBVIOUS
  <2>2. \A i \in D : queue[i].remaining \in Nat
    BY <2>1 DEF EntrySet
  <2> QED
    BY <2>2, TakenType, PositionsFinite
<1>2. Total(f) \in Nat
  <2> HIDE DEF f, D
  <2> QED
    BY <1>1, UnitsFinite
<1>3. CASE H = {}
  <2>1. \A i \in D : f[i] = 0
    <3>1. \A i \in D : ~(f[i] > 0)
      BY <1>3 DEF Hit
    <3> HIDE DEF f, D
    <3> QED
      BY <1>1, <3>1
  <2>2. Total(f) = 0
    <3> HIDE DEF f, D
    <3> QED
      BY <1>1, <2>1, TotalZero
  <2> QED
    BY <2>2 DEF Unfilled
<1>4. CASE H # {}
  <2>1. IsFiniteSet(H) /\ H \subseteq Nat /\ H \subseteq D
    <3>1. H \in SUBSET DOMAIN queue
      BY DEF Hit
    <3> HIDE DEF H
    <3> QED
      BY <3>1, PositionsFinite
  <2> DEFINE m == Nth(H, Cardinality(H))
             upTo == {j \in H : j <= m}
  <2>2. m \in H /\ Cardinality(upTo) = Cardinality(H)
    <3>1. Cardinality(H) \in Nat /\ Cardinality(H) # 0
      BY <1>4, <2>1, FS_CardinalityType, FS_EmptySet
    <3>2. Cardinality(H) \in 1..Cardinality(H)
      BY <3>1
    <3> HIDE DEF H
    <3> QED
      BY <2>1, <3>2, NthIsPosition
  <2>3. upTo = H
    <3>1. upTo \in SUBSET H
      OBVIOUS
    <3> HIDE DEF upTo, H
    <3> QED
      BY <2>1, <2>2, <3>1, FS_Subset
  <2>4. \A j \in H : j <= m
    BY <2>3
  <2>5. m \in D /\ m \in Nat /\ f[m] > 0
    BY <2>1, <2>2 DEF Hit
  <2> HIDE DEF m
  <2> DEFINE A == 1..m
             B == 1..(m - 1)
             g == [j \in A |-> f[j]]
             h == [j \in B |-> f[j]]
             ahead == [j \in B |-> queue[j].remaining]
  <2>6. A \subseteq D /\ B \subseteq A /\ A \ {m} = B /\ m \in A
        /\ IsFiniteSet(A) /\ IsFiniteSet(B)
    <3>1. A \subseteq D /\ B \subseteq A /\ A \ {m} = B /\ m \in A
      BY <1>1, <2>5
    <3>2. m \in Int /\ m - 1 \in Int /\ 1 \in Int
      BY <2>5
    <3>3. IsFiniteSet(A) /\ IsFiniteSet(B)
      BY <3>2, FS_Interval
    <3> QED
      BY <3>1, <3>3
  <2>7. \A i \in D \ A : f[i] = 0
    <3> SUFFICES ASSUME NEW i \in D \ A
                 PROVE  f[i] = 0
      OBVIOUS
    <3>1. ~(i <= m)
      BY <1>1, <2>5
    <3>2. i \notin H
      BY <2>4, <3>1
    <3>3. ~(f[i] > 0)
      BY <3>2 DEF Hit
    <3> HIDE DEF f, D
    <3> QED
      BY <1>1, <3>3
  <2>8. Total(g) = Total(f)
    <3> HIDE DEF f, D, A
    <3> QED
      BY <1>1, <2>6, <2>7, TotalSupport
  <2>9. g \in [A -> Nat] /\ h \in [B -> Nat] /\ ahead \in [B -> Nat]
        /\ g[m] = f[m] /\ h = [j \in A \ {m} |-> g[j]]
        /\ \A j \in B : h[j] <= ahead[j]
    <3> HIDE DEF f, D, A, B
    <3> QED
      BY <1>1, <2>6
  <2>10. Total(g) = Total(h) + g[m]
    <3> HIDE DEF g, h, A, B
    <3>1. Total(g) = Total([j \in A \ {m} |-> g[j]]) + g[m]
      BY <2>6, <2>9, TotalRemove
    <3> QED
      BY <2>9, <3>1, Zenon
  <2>11. Total(h) <= Total(ahead) /\ Total(h) \in Nat /\ Total(ahead) \in Nat
    <3> HIDE DEF h, ahead, B
    <3> QED
      BY <2>6, <2>9, TotalMonotone, UnitsFinite
  <2>12. Total(ahead) = Ahead(queue, m)
    BY DEF Ahead
  <2>13. f[m] = 0 \/ (Ahead(queue, m) < q /\ f[m] = Min64(q - Ahead(queue, m), queue[m].remaining))
    BY <2>5 DEF Taken
  <2>14. f[m] \in Nat /\ queue[m].remaining \in Nat
    <3> HIDE DEF f, D
    <3> QED
      BY <1>1, <2>5
  <2> DEFINE x == Ahead(queue, m)
             r == queue[m].remaining
  <2>15. Total(f) <= q
    <3> HIDE DEF f, g, h, ahead, x, r, D
    <3>1. f[m] <= q - x
      <4>1. x \in Nat /\ r \in Nat /\ (f[m] = 0 \/ (x < q /\ f[m] = Min64(q - x, r)))
        BY <2>11, <2>12, <2>13, <2>14 DEF x, r
      <4> QED
        BY <2>5, <2>14, <4>1 DEF Min64
    <3>2. Total(f) = Total(h) + f[m] /\ Total(h) <= x /\ x \in Nat
      BY <2>8, <2>9, <2>10, <2>11, <2>12 DEF x
    <3> QED
      BY <2>11, <2>14, <3>1, <3>2
  <2> HIDE DEF f
  <2> QED
    BY <1>2, <2>15 DEF Unfilled, f
<1> QED
  BY <1>3, <1>4

\* What the matches come to, each weighed by V, in proportion to what is taken.
LEMMA FillsScale ==
  ASSUME NEW ids, NEW owners, NEW queue \in Seq(EntrySet(ids, owners)),
         NEW order, order.quantity \in Nat,
         NEW V \in [FillSet(ids, owners) -> Nat], NEW n \in Nat, NEW m \in Nat,
         \A j \in DOMAIN Fills(order, queue) :
           V[Fills(order, queue)[j]] * n <= Fills(order, queue)[j].quantity * m
  PROVE  BookSum(Fills(order, queue), V) * n <= Total(Taken(order, queue)) * m
<1> DEFINE F == Fills(order, queue)
           P == Hit(order, queue)
           D == DOMAIN F
           f == [j \in D |-> F[j].quantity]
           g == [j \in D |-> V[F[j]]]
           taken == Taken(order, queue)
<1>1. F \in Seq(FillSet(ids, owners)) /\ IsFiniteSet(D)
  <2>1. F \in Seq(FillSet(ids, owners))
    BY FillsType
  <2> HIDE DEF F
  <2> QED
    BY <2>1, PositionsFinite
<1>2. f \in [D -> Nat] /\ g \in [D -> Nat] /\ \A j \in D : g[j] * n <= f[j] * m
  <2>1. \A j \in D : F[j] \in FillSet(ids, owners)
    <3> HIDE DEF F
    <3> QED
      BY <1>1
  <2>2. \A j \in D : F[j].quantity \in Nat /\ V[F[j]] \in Nat
    BY <2>1 DEF FillSet
  <2>3. \A j \in D : V[F[j]] * n <= F[j].quantity * m
    OBVIOUS
  <2> HIDE DEF F
  <2> QED
    BY <2>2, <2>3
<1>3. Total(g) * n <= Total(f) * m /\ Total(f) \in Nat /\ Total(g) \in Nat
  <2> HIDE DEF f, g, D
  <2> QED
    BY <1>1, <1>2, TotalScale, UnitsFinite
<1>4. Total(f) <= Total(taken) /\ Total(taken) \in Nat
  <2> DEFINE fill == AllFills(order, queue)
  <2>1. /\ fill \in Seq(FillSet(ids, owners)) /\ DOMAIN fill = DOMAIN queue
        /\ P \in SUBSET (DOMAIN fill)
        /\ F = Sub(fill, P)
    BY FillsParts
  <2>2. \A j \in D : Nth(P, j) \in P /\ F[j] = fill[Nth(P, j)]
    <3> HIDE DEF fill, P, F
    <3> QED
      BY <2>1, SubMembers
  <2>3. taken \in [DOMAIN queue -> Nat]
    BY TakenType
  <2>4. \A j \in D : Nth(P, j) \in DOMAIN fill /\ f[j] = taken[Nth(P, j)]
    <3>1. \A j \in D : Nth(P, j) \in DOMAIN queue
      BY <2>2 DEF Hit
    <3>2. \A j \in D : F[j].quantity = taken[Nth(P, j)]
      <4>1. \A i \in DOMAIN queue : fill[i].quantity = taken[i]
        BY DEF AllFills, FillAt
      <4> HIDE DEF fill, F, P, taken
      <4> QED
        BY <2>2, <3>1, <4>1
    <3> HIDE DEF F, P, taken
    <3> QED
      BY <2>1, <3>1, <3>2
  <2>5. \A j \in D : Nth(P, j) \in DOMAIN fill /\ f[j] <= taken[Nth(P, j)]
    <3> HIDE DEF f, taken, P, D
    <3> QED
      BY <1>2, <2>4
  <2>6. D \in SUBSET (DOMAIN Sub(fill, P)) /\ DOMAIN fill \in SUBSET (DOMAIN fill)
    BY <2>1
  <2>7. taken \in [DOMAIN fill -> Nat]
    BY <2>1, <2>3
  <2>8. IsFiniteSet(DOMAIN queue)
    BY PositionsFinite
  <2> HIDE DEF f, taken, P, D, fill
  <2> QED
    BY <1>2, <2>1, <2>3, <2>5, <2>6, <2>7, <2>8, SubTotal, UnitsFinite
<1>5. Total(f) * m <= Total(taken) * m
  <2>1. \A x, y, z \in Nat : x <= y => x * z <= y * z
    OBVIOUS
  <2> HIDE DEF f, taken
  <2> QED
    BY <1>3, <1>4, <2>1
<1>6. BookSum(F, V) = Total(g)
  BY DEF BookSum
<1> DEFINE x == Total(g) * n
           y == Total(f) * m
           z == Total(taken) * m
<1>7. x \in Nat /\ y \in Nat /\ z \in Nat /\ x <= y /\ y <= z
  <2> HIDE DEF f, g, taken
  <2> QED
    BY <1>3, <1>4, <1>5
<1>8. BookSum(F, V) * n = x
  <2> HIDE DEF F, g
  <2> QED
    BY <1>6
<1> HIDE DEF x, y
<1>9. x <= z
  <2> HIDE DEF z
  <2> QED
    BY <1>7
<1> QED
  BY <1>8, <1>9

\* Matching splits every resting order in what is taken and what is left: if
\* the two never weigh more than the whole did, the side does not.
LEMMA MatchSum ==
  ASSUME NEW ids, NEW owners, NEW queue \in Seq(EntrySet(ids, owners)),
         NEW order, order.quantity \in Nat,
         NEW V \in [FillSet(ids, owners) -> Nat],
         NEW W \in [EntrySet(ids, owners) -> Nat],
         \A i \in DOMAIN queue :
           V[FillAt(order, queue, i)] + W[LeftAt(order, queue, i)] <= W[queue[i]]
  PROVE  BookSum(Fills(order, queue), V) + BookSum(AfterFills(order, queue), W)
           <= BookSum(queue, W)
<1> DEFINE D == DOMAIN queue
           fill == AllFills(order, queue)
           left == AllLeft(order, queue)
           f == [i \in D |-> V[fill[i]]]
           g == [i \in D |-> W[left[i]]]
           both == [i \in D |-> f[i] + g[i]]
           w == [i \in D |-> W[queue[i]]]
<1>1. /\ fill \in Seq(FillSet(ids, owners)) /\ DOMAIN fill = D
      /\ Hit(order, queue) \in SUBSET D
      /\ Fills(order, queue) = Sub(fill, Hit(order, queue))
      /\ left \in Seq(EntrySet(ids, owners)) /\ DOMAIN left = D
      /\ Remains(order, queue) \in SUBSET D
      /\ AfterFills(order, queue) = Sub(left, Remains(order, queue))
  BY FillsParts
<1>2. IsFiniteSet(D)
  BY PositionsFinite
<1>3. BookSum(fill, V) = Total(f) /\ BookSum(left, W) = Total(g) /\ BookSum(queue, W) = Total(w)
  BY <1>1 DEF BookSum
<1>4. f \in [D -> Nat] /\ g \in [D -> Nat] /\ w \in [D -> Nat]
  <2>1. \A i \in D : V[fill[i]] \in Nat
    <3> HIDE DEF fill, D
    <3> QED
      BY <1>1
  <2>2. \A i \in D : W[left[i]] \in Nat
    <3> HIDE DEF left, D
    <3> QED
      BY <1>1
  <2>3. w \in [D -> Nat]
    BY SumType
  <2> HIDE DEF fill, left, D, w
  <2> QED
    BY <2>1, <2>2, <2>3
<1>5. both \in [D -> Nat] /\ \A i \in D : both[i] <= w[i]
  <2>1. \A i \in D : V[fill[i]] + W[left[i]] <= W[queue[i]]
    BY DEF AllFills, AllLeft
  <2>2. \A i \in D : f[i] + g[i] <= w[i]
    BY <2>1
  <2> HIDE DEF f, g, w, D
  <2> QED
    BY <1>4, <2>2
<1>6. Total(both) = Total(f) + Total(g)
  <2> HIDE DEF f, g, D
  <2> QED
    BY <1>2, <1>4, TotalSum
<1>7. Total(both) <= Total(w)
  <2> HIDE DEF both, w, D
  <2> QED
    BY <1>2, <1>4, <1>5, TotalMonotone
<1>8. BookSum(Fills(order, queue), V) <= BookSum(fill, V)
      /\ BookSum(AfterFills(order, queue), W) <= BookSum(left, W)
  <2> HIDE DEF fill, left
  <2> QED
    BY <1>1, SubSum
<1>9. /\ BookSum(Fills(order, queue), V) \in Nat /\ BookSum(AfterFills(order, queue), W) \in Nat
      /\ Total(f) \in Nat /\ Total(g) \in Nat /\ Total(w) \in Nat
  <2>1. BookSum(Fills(order, queue), V) \in Nat /\ BookSum(AfterFills(order, queue), W) \in Nat
    BY FillsType, AfterFillsType, SumType
  <2> HIDE DEF f, g, w, D
  <2> QED
    BY <1>2, <1>4, <2>1, UnitsFinite
<1> HIDE DEF f, g, w, both, fill, left
<1> QED
  BY <1>3, <1>6, <1>7, <1>8, <1>9

\* A book is a queue of resting orders on each side.
BookSet(ids, owners) == [Sides -> Seq(EntrySet(ids, owners))]

\* The two sides.
LEMMA OppositeSide ==
  ASSUME NEW side \in Sides
  PROVE  Opposite(side) \in Sides /\ Opposite(side) # side
BY DEF Sides, Opposite

\* Placing an order leaves a book.
LEMMA AfterPlaceType ==
  ASSUME NEW ids, NEW owners, NEW book \in BookSet(ids, owners), NEW order,
         order.id \in ids, order.owner \in owners, order.side \in Sides,
         order.price \in Nat, order.quantity \in Nat
  PROVE  AfterPlace(order, book) \in BookSet(ids, owners)
<1> DEFINE S == EntrySet(ids, owners)
           opp == Opposite(order.side)
           left == Unfilled(order, book[opp])
           rest == IF order.type = "limit" /\ left > 0
                   THEN Rest(order.side, book[order.side], Entry(order, left))
                   ELSE book[order.side]
           filled == AfterFills(order, book[opp])
<1>1. opp \in Sides /\ opp # order.side
  BY OppositeSide
<1>2. book[opp] \in Seq(S) /\ book[order.side] \in Seq(S)
  BY <1>1 DEF BookSet
<1>3. filled \in Seq(S)
  BY <1>2, AfterFillsType
<1>4. left \in Int
  BY <1>2, UnfilledType
<1>5. left > 0 => Entry(order, left) \in S
  <2> HIDE DEF left
  <2> QED
    BY <1>4 DEF Entry, EntrySet
<1>6. rest \in Seq(S)
  <2> HIDE DEF left, S
  <2> QED
    BY <1>2, <1>5, RestType
<1>7. AfterPlace(order, book) = [book EXCEPT ![opp] = filled, ![order.side] = rest]
  <2>1. [book EXCEPT ![opp] = filled][order.side] = book[order.side]
    <3> HIDE DEF opp, filled
    <3> QED
      BY <1>1 DEF BookSet
  <2> QED
    BY <2>1 DEF AfterPlace
<1> HIDE DEF opp, filled, rest
<1> QED
  BY <1>1, <1>3, <1>6, <1>7 DEF BookSet

\* Taking an order out, or the worst levels, leaves a book.
LEMMA WithoutType ==
  ASSUME NEW ids, NEW owners, NEW book \in BookSet(ids, owners), NEW id
  PROVE  Without(id, book) \in BookSet(ids, owners)
<1>1. \A s \in Sides : Sub(book[s], {i \in DOMAIN book[s] : book[s][i].id # id})
                         \in Seq(EntrySet(ids, owners))
  BY SubType DEF BookSet
<1> QED
  BY <1>1 DEF Without, BookSet

\* What an eviction leaves.
LEMMA AfterEvictType ==
  ASSUME NEW ids, NEW owners, NEW book \in BookSet(ids, owners), NEW max
  PROVE  /\ AfterEvict(book, max) \in BookSet(ids, owners)
         /\ \A s \in Sides : Evicted(s, book[s], max) \in Seq(EntrySet(ids, owners))
<1>1. \A s \in Sides : Kept(s, book[s], max) \in Seq(EntrySet(ids, owners))
  BY SubType DEF BookSet, Kept
<1>2. \A s \in Sides : Evicted(s, book[s], max) \in Seq(EntrySet(ids, owners))
  BY SubType DEF BookSet, Evicted
<1> QED
  BY <1>1, <1>2 DEF AfterEvict, BookSet

\* An order that goes back behind its level leaves a book.
LEMMA RestBackType ==
  ASSUME NEW ids, NEW owners, NEW book \in BookSet(ids, owners),
         NEW s \in Sides, NEW e \in EntrySet(ids, owners)
  PROVE  [book EXCEPT ![s] = Rest(s, @, e)] \in BookSet(ids, owners)
<1>1. Rest(s, book[s], e) \in Seq(EntrySet(ids, owners))
  BY RestType DEF BookSet
<1> QED
  BY <1>1 DEF BookSet

-----------------------------------------------------------------------------

\* The IDs of a queue, who owns them, and that no two of its orders share one.
QueueIds(queue) == {queue[i].id : i \in DOMAIN queue}

QueueOwners(queue) == {<<queue[i].id, queue[i].owner>> : i \in DOMAIN queue}

Once(queue) == \A i, j \in DOMAIN queue : queue[i].id = queue[j].id => i = j

\* Taking orders out of a queue leaves what it tells of its orders no larger.
LEMMA SubParts ==
  ASSUME NEW S, NEW queue \in Seq(S), NEW P \in SUBSET (DOMAIN queue)
  PROVE  LET r == Sub(queue, P)
         IN  /\ QueueIds(r) = {queue[i].id : i \in P}
             /\ QueueIds(r) \subseteq QueueIds(queue) /\ QueueOwners(r) \subseteq QueueOwners(queue)
             /\ Levels(r) = {queue[i].price : i \in P}
             /\ Levels(r) \subseteq Levels(queue)
             /\ Once(queue) => Once(r)
<1> DEFINE r == Sub(queue, P)
<1>1. \A k \in DOMAIN r : Nth(P, k) \in P /\ r[k] = queue[Nth(P, k)]
  BY SubMembers
<1>2. \A k, l \in DOMAIN r : Nth(P, k) = Nth(P, l) => k = l
  BY SubMembers
<1>3. \A i \in P : \E k \in DOMAIN r : r[k] = queue[i]
  BY SubMembers
<1> HIDE DEF r
<1>4. QueueIds(r) = {queue[i].id : i \in P}
  BY <1>1, <1>3 DEF QueueIds
<1>5. Levels(r) = {queue[i].price : i \in P}
  BY <1>1, <1>3 DEF Levels
<1>6. QueueIds(r) \subseteq QueueIds(queue)
  BY <1>4 DEF QueueIds
<1>7. Levels(r) \subseteq Levels(queue)
  BY <1>5 DEF Levels
<1>8. QueueOwners(r) \subseteq QueueOwners(queue)
  BY <1>1 DEF QueueOwners
<1>9. Once(queue) => Once(r)
  BY <1>1, <1>2 DEF Once
<1> QED
  BY <1>4, <1>5, <1>6, <1>7, <1>8, <1>9 DEF r

\* Putting one order in adds what it tells of that order.
LEMMA RestParts ==
  ASSUME NEW S, NEW queue \in Seq(S), NEW e \in S, NEW side
  PROVE  LET r == Rest(side, queue, e)
         IN  /\ QueueIds(r) = QueueIds(queue) \cup {e.id}
             /\ QueueOwners(r) = QueueOwners(queue) \cup {<<e.id, e.owner>>}
             /\ Levels(r) = Levels(queue) \cup {e.price}
             /\ Once(queue) /\ e.id \notin QueueIds(queue) => Once(r)
<1> DEFINE r == Rest(side, queue, e)
<1>1. PICK at : Inserted(r, queue, e, at)
  BY RestMembers
<1>2. r \in Seq(S) /\ Len(queue) \in Nat /\ DOMAIN queue = 1..Len(queue)
  BY RestMembers, PositionsFinite
<1> HIDE DEF r
<1>3. /\ at \in 1..(Len(queue) + 1) /\ DOMAIN r = 1..(Len(queue) + 1)
      /\ \A k \in DOMAIN r :
           r[k] = IF k < at THEN queue[k] ELSE IF k = at THEN e ELSE queue[k - 1]
  BY <1>1, <1>2 DEF Inserted
<1>4. ASSUME NEW k \in DOMAIN r
      PROVE  \/ k = at /\ r[k] = e
             \/ k < at /\ k \in DOMAIN queue /\ r[k] = queue[k]
             \/ k > at /\ k - 1 \in DOMAIN queue /\ r[k] = queue[k - 1]
  BY <1>2, <1>3
<1>5. ASSUME NEW i \in DOMAIN queue
      PROVE  \E k \in DOMAIN r : r[k] = queue[i]
  <2>1. CASE i < at
    <3>1. i \in DOMAIN r /\ r[i] = queue[i]
      BY <1>2, <1>3, <2>1
    <3> QED
      BY <3>1
  <2>2. CASE ~(i < at)
    <3>1. i + 1 \in DOMAIN r /\ ~(i + 1 < at) /\ i + 1 # at /\ (i + 1) - 1 = i
      BY <1>2, <1>3, <2>2
    <3>2. r[i + 1] = queue[i]
      BY <1>3, <3>1
    <3> QED
      BY <3>1, <3>2
  <2> QED
    BY <2>1, <2>2
<1>6. at \in DOMAIN r /\ r[at] = e
  BY <1>2, <1>3
<1>7. /\ \A k \in DOMAIN r : r[k] = e \/ \E i \in DOMAIN queue : r[k] = queue[i]
      /\ \A i \in DOMAIN queue : \E k \in DOMAIN r : r[k] = queue[i]
      /\ \E k \in DOMAIN r : r[k] = e
  BY <1>4, <1>5, <1>6
<1>8. QueueIds(r) = QueueIds(queue) \cup {e.id}
  BY <1>7 DEF QueueIds
<1>9. QueueOwners(r) = QueueOwners(queue) \cup {<<e.id, e.owner>>}
  BY <1>7 DEF QueueOwners
<1>10. Levels(r) = Levels(queue) \cup {e.price}
  BY <1>7 DEF Levels
<1>11. ASSUME Once(queue), e.id \notin QueueIds(queue), NEW k \in DOMAIN r, NEW l \in DOMAIN r,
              r[k].id = r[l].id
       PROVE  k = l
  <2>1. \A i \in DOMAIN queue : queue[i].id # e.id
    BY <1>11 DEF QueueIds
  <2>2. \A m \in DOMAIN r : m = at <=> r[m].id = e.id
    BY <1>4, <1>6, <2>1
  <2>3. CASE k # at /\ l # at
    <3> DEFINE i == IF k < at THEN k ELSE k - 1
               j == IF l < at THEN l ELSE l - 1
    <3>1. /\ i \in DOMAIN queue /\ r[k] = queue[i]
          /\ j \in DOMAIN queue /\ r[l] = queue[j]
      BY <1>2, <1>3, <1>4, <2>3
    <3>2. i = j
      BY <1>11, <3>1 DEF Once
    <3> QED
      BY <1>2, <1>3, <2>3, <3>2
  <2> QED
    BY <1>11, <2>2, <2>3
<1>12. Once(queue) /\ e.id \notin QueueIds(queue) => Once(r)
  BY <1>11 DEF Once
<1> QED
  BY <1>8, <1>9, <1>10, <1>12 DEF r

\* An order that is matched leaves of the opposite queue fewer orders, or less of
\* them, and nothing else.
LEMMA LeftParts ==
  ASSUME NEW ids, NEW owners, NEW queue \in Seq(EntrySet(ids, owners)),
         NEW order, order.quantity \in Nat
  PROVE  LET r == AfterFills(order, queue)
         IN  /\ QueueIds(r) \subseteq QueueIds(queue) /\ QueueOwners(r) \subseteq QueueOwners(queue)
             /\ Levels(r) \subseteq Levels(queue)
             /\ Once(queue) => Once(r)
<1> DEFINE left == AllLeft(order, queue)
           P == Remains(order, queue)
<1>1. /\ left \in Seq(EntrySet(ids, owners)) /\ DOMAIN left = DOMAIN queue
      /\ P \in SUBSET (DOMAIN left) /\ AfterFills(order, queue) = Sub(left, P)
  BY FillsParts
<1>2. ASSUME NEW i \in DOMAIN queue
      PROVE  /\ left[i].id = queue[i].id /\ left[i].owner = queue[i].owner
             /\ left[i].price = queue[i].price
  <2>1. queue[i] \in EntrySet(ids, owners)
    OBVIOUS
  <2>2. left[i] = LeftAt(order, queue, i)
    BY DEF AllLeft
  <2> QED
    BY <2>1, <2>2 DEF LeftAt, EntrySet
<1> HIDE DEF left, P
<1>3. /\ QueueIds(left) = QueueIds(queue) /\ QueueOwners(left) = QueueOwners(queue)
      /\ Levels(left) = Levels(queue) /\ (Once(queue) => Once(left))
  <2>1. QueueIds(left) = QueueIds(queue)
    BY <1>1, <1>2 DEF QueueIds
  <2>2. QueueOwners(left) = QueueOwners(queue)
    BY <1>1, <1>2 DEF QueueOwners
  <2>3. Levels(left) = Levels(queue)
    BY <1>1, <1>2 DEF Levels
  <2>4. Once(queue) => Once(left)
    BY <1>1, <1>2 DEF Once
  <2> QED
    BY <2>1, <2>2, <2>3, <2>4
<1>4. /\ QueueIds(Sub(left, P)) \subseteq QueueIds(left) /\ QueueOwners(Sub(left, P)) \subseteq QueueOwners(left)
      /\ Levels(Sub(left, P)) \subseteq Levels(left)
      /\ Once(left) => Once(Sub(left, P))
  BY <1>1, SubParts
<1> QED
  BY <1>1, <1>3, <1>4

\* The matches of an order name orders of the opposite queue by their owners.
LEMMA FillsOwners ==
  ASSUME NEW ids, NEW owners, NEW queue \in Seq(EntrySet(ids, owners)),
         NEW order, order.quantity \in Nat
  PROVE  LET F == Fills(order, queue)
         IN  {<<F[j].maker, F[j].owner>> : j \in DOMAIN F} \subseteq QueueOwners(queue)
<1> DEFINE F == Fills(order, queue)
<1> SUFFICES ASSUME NEW j \in DOMAIN F
             PROVE  <<F[j].maker, F[j].owner>> \in QueueOwners(queue)
  OBVIOUS
<1> DEFINE i == Nth(Hit(order, queue), j)
<1>1. i \in Hit(order, queue) /\ F[j] = FillAt(order, queue, i)
  BY FillsMembers
<1>2. i \in DOMAIN queue
  BY <1>1 DEF Hit
<1> HIDE DEF i, F
<1> QED
  BY <1>1, <1>2 DEF FillAt, QueueOwners

\* Of the matched queue all that is left is of some quantity, and an order that
\* is not there any more is one that was matched.
LEMMA FillsLeave ==
  ASSUME NEW ids, NEW owners, NEW queue \in Seq(EntrySet(ids, owners)),
         NEW order, order.quantity \in Nat
  PROVE  LET F == Fills(order, queue)
             r == AfterFills(order, queue)
         IN  /\ \A k \in DOMAIN r : r[k].remaining > 0
             /\ \A i \in DOMAIN queue :
                  \/ queue[i].remaining = 0
                  \/ queue[i].id \in QueueIds(r)
                  \/ \E j \in DOMAIN F : F[j].maker = queue[i].id
<1> DEFINE left == AllLeft(order, queue)
           P == Remains(order, queue)
           F == Fills(order, queue)
           all == AllFills(order, queue)
           hit == Hit(order, queue)
           r == Sub(left, P)
<1>1. /\ left \in Seq(EntrySet(ids, owners)) /\ DOMAIN left = DOMAIN queue
      /\ P \in SUBSET (DOMAIN left) /\ AfterFills(order, queue) = r
      /\ all \in Seq(FillSet(ids, owners)) /\ DOMAIN all = DOMAIN queue
      /\ hit \in SUBSET (DOMAIN all) /\ F = Sub(all, hit)
  BY FillsParts
<1>2. /\ \A k \in DOMAIN r : Nth(P, k) \in P /\ r[k] = left[Nth(P, k)]
      /\ QueueIds(r) = {left[i].id : i \in P}
  <2>1. \A k \in DOMAIN r : Nth(P, k) \in P /\ r[k] = left[Nth(P, k)]
    BY <1>1, SubMembers
  <2>2. QueueIds(r) = {left[i].id : i \in P}
    <3> HIDE DEF left, P
    <3> QED
      BY <1>1, SubParts
  <2> QED
    BY <2>1, <2>2
<1>3. \A i \in P : left[i].remaining > 0
  BY DEF Remains, AllLeft
<1>4. \A i \in hit : \E j \in DOMAIN F : F[j] = all[i]
  BY <1>1, SubMembers
<1>5. ASSUME NEW i \in DOMAIN queue, queue[i].remaining # 0, i \notin hit
      PROVE  queue[i].id \in QueueIds(r)
  <2> DEFINE e == queue[i]
             n == Taken(order, queue)[i]
  <2>1. e \in EntrySet(ids, owners) /\ n \in Nat /\ n = 0
    BY <1>5, TakenType DEF Hit
  <2>2. e.remaining \in Nat /\ left[i] = [e EXCEPT !.remaining = e.remaining - n]
    BY <2>1 DEF AllLeft, LeftAt, EntrySet
  <2>3. left[i].id = e.id /\ left[i].remaining = e.remaining /\ left[i].remaining > 0
    <3> HIDE DEF left, e, n
    <3>1. e.remaining # 0
      BY <1>5 DEF e
    <3> QED
      BY <2>1, <2>2, <3>1 DEF EntrySet
  <2>4. i \in P
    BY <2>3 DEF Remains, AllLeft
  <2> HIDE DEF left, P
  <2> QED
    BY <1>2, <2>3, <2>4
<1>6. ASSUME NEW i \in hit
      PROVE  \E j \in DOMAIN F : F[j].maker = queue[i].id
  <2>1. PICK j \in DOMAIN F : F[j] = all[i]
    BY <1>4
  <2>2. F[j].maker = queue[i].id
    BY <1>1, <2>1 DEF AllFills, FillAt
  <2> QED
    BY <2>2
<1> HIDE DEF left, P, F, all, hit
<1>7. \A k \in DOMAIN r : r[k].remaining > 0
  BY <1>2, <1>3
<1> HIDE DEF r
<1> QED
  BY <1>1, <1>5, <1>6, <1>7 DEF F

\* EvictExcessLevels: whatever the levels of a side were, at most max are kept.
\* The number of better levels tells the kept ones apart.
LEMMA KeptLevels ==
  ASSUME NEW ids, NEW owners, NEW queue \in Seq(EntrySet(ids, owners)),
         NEW side, NEW max \in Nat
  PROVE  /\ IsFiniteSet(Levels(Kept(side, queue, max)))
         /\ Cardinality(Levels(Kept(side, queue, max))) <= max
<1> DEFINE all == Levels(queue)
           above(p) == {q \in all : Better(side, q, p)}
           P == {i \in DOMAIN queue : Rank(side, queue, i) < max}
           kept == Levels(Sub(queue, P))
           rank == [p \in kept |-> Cardinality(above(p))]
<1>1. all \subseteq Nat
  <2>1. \A i \in DOMAIN queue : queue[i].price \in Nat
    <3>1. \A i \in DOMAIN queue : queue[i] \in EntrySet(ids, owners)
      OBVIOUS
    <3> QED
      BY <3>1 DEF EntrySet
  <2> QED
    BY <2>1 DEF Levels
<1>2. IsFiniteSet(all)
  <2> DEFINE f == [i \in DOMAIN queue |-> queue[i].price]
  <2>1. f \in Surjection(DOMAIN queue, all)
    BY DEF Surjection, Levels
  <2>2. IsFiniteSet(DOMAIN queue)
    BY PositionsFinite
  <2> HIDE DEF f, all
  <2> QED
    BY <2>1, <2>2, FS_Surjection
<1>3. /\ kept = {queue[i].price : i \in P}
      /\ kept \subseteq all
  <2>1. P \in SUBSET (DOMAIN queue)
    OBVIOUS
  <2> HIDE DEF P
  <2> QED
    BY <2>1, SubParts
<1>4. ASSUME NEW p
      PROVE  /\ above(p) \in SUBSET all /\ IsFiniteSet(above(p))
             /\ Cardinality(above(p)) \in Nat
  <2>1. above(p) \in SUBSET all
    OBVIOUS
  <2> HIDE DEF all, above
  <2>2. IsFiniteSet(above(p))
    BY <1>2, <2>1, FS_Subset
  <2> QED
    BY <2>1, <2>2, FS_CardinalityType
<1>5. \A i \in DOMAIN queue : Rank(side, queue, i) = Cardinality(above(queue[i].price))
  BY DEF Rank
<1>6. ASSUME NEW p \in kept
      PROVE  rank[p] \in 0..(max - 1)
  <2>1. PICK i \in P : p = queue[i].price
    BY <1>3
  <2>2. Rank(side, queue, i) < max /\ i \in DOMAIN queue
    OBVIOUS
  <2>3. rank[p] = Rank(side, queue, i)
    BY <1>5, <2>1, <2>2
  <2>4. rank[p] \in Nat
    BY <1>4
  <2> HIDE DEF rank
  <2> QED
    BY <2>2, <2>3, <2>4
<1>7. ASSUME NEW p \in kept, NEW q \in kept, Better(side, p, q)
      PROVE  Cardinality(above(p)) # Cardinality(above(q))
  <2>1. p \in Nat /\ q \in Nat /\ p \in all
    BY <1>1, <1>3
  <2>2. p \in above(q) /\ p \notin above(p)
    BY <1>7, <2>1 DEF Better
  <2>3. above(p) \in SUBSET above(q)
    BY <1>1, <1>7, <2>1 DEF Better
  <2>4. IsFiniteSet(above(q))
    BY <1>4
  <2> HIDE DEF above
  <2> QED
    BY <2>2, <2>3, <2>4, FS_Subset
<1>8. ASSUME NEW p \in kept, NEW q \in kept, rank[p] = rank[q]
      PROVE  p = q
  <2>1. p \in Nat /\ q \in Nat
    BY <1>1, <1>3
  <2>2. p = q \/ Better(side, p, q) \/ Better(side, q, p)
    BY <2>1 DEF Better
  <2>3. rank[p] = Cardinality(above(p)) /\ rank[q] = Cardinality(above(q))
    OBVIOUS
  <2> HIDE DEF kept, rank, above
  <2> QED
    BY <1>7, <1>8, <2>2, <2>3
<1>9. rank \in Injection(kept, 0..(max - 1))
  <2>1. rank \in [kept -> 0..(max - 1)]
    <3> DEFINE t == 0..(max - 1)
    <3> HIDE DEF t, kept, above
    <3> QED
      BY <1>6 DEF t
  <2> HIDE DEF rank, kept
  <2> QED
    BY <1>8, <2>1, Fun_IsInj
<1>10. IsFiniteSet(0..(max - 1)) /\ Cardinality(0..(max - 1)) = max
  <2>1. 0 \in Int /\ max - 1 \in Int
    OBVIOUS
  <2>2. /\ IsFiniteSet(0..(max - 1))
        /\ Cardinality(0..(max - 1)) = IF 0 > max - 1 THEN 0 ELSE max - 1 - 0 + 1
    BY <2>1, FS_Interval
  <2> QED
    BY <2>2
<1>11. IsFiniteSet(kept) /\ Cardinality(kept) <= max
  <2> HIDE DEF rank, kept
  <2> QED
    BY <1>9, <1>10, FS_Injection
<1> QED
  BY <1>11 DEF Kept

=============================================================================
