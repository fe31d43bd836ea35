-------------------------- MODULE OrderBookProofs --------------------------
(***************************************************************************)
(* The matching engine, for any orders and any interleaving of calls: a    *)
(* side's tree, queues, map and aggregates always describe one list of     *)
(* orders, whoever takes the mutex finds every bid below every ask, and    *)
(* every call has the effect and the result of price-time priority.        *)
(*                                                                         *)
(* A side is described by its walk F, the orders of the tree best level    *)
(* first, and by the number start[p] of orders before level p.  What the   *)
(* code does to the tree is shown to do one thing to the walk; the rest of *)
(* the argument is about two sequences.                                    *)
(***************************************************************************)
EXTENDS OrderBook, TableProofs

\* The queue r is the other one without its position at.
Removed(r, queue, at) ==
  /\ at \in 1..Len(queue)
  /\ Len(r) = Len(queue) - 1
  /\ \A k \in 1..(Len(queue) - 1) :
       r[k] = IF k < at THEN queue[k] ELSE queue[k + 1]

\* What RemoveAt does.
LEMMA RemoveAtParts ==
  ASSUME NEW S, NEW s \in Seq(S), NEW n \in 1..Len(s)
  PROVE  /\ RemoveAt(s, n) \in Seq(S)
         /\ Removed(RemoveAt(s, n), s, n)
<1>1. PICK a, b : a = SubSeq(s, 1, n - 1) /\ b = SubSeq(s, n + 1, Len(s))
  OBVIOUS
<1>2. Len(s) \in Nat /\ n \in Nat
  OBVIOUS
<1>3. a \in Seq(S) /\ Len(a) = n - 1 /\ \A k \in 1..(n - 1) : a[k] = s[k]
  BY <1>1, <1>2
<1>4. b \in Seq(S) /\ Len(b) = Len(s) - n /\ \A k \in 1..(Len(s) - n) : b[k] = s[n + k]
  BY <1>1, <1>2
<1>5. RemoveAt(s, n) = a \o b
  BY <1>1 DEF RemoveAt
<1>6. /\ a \o b \in Seq(S) /\ Len(a \o b) = Len(s) - 1
      /\ \A k \in 1..(Len(s) - 1) : (a \o b)[k] = IF k <= n - 1 THEN a[k] ELSE b[k - (n - 1)]
  <2>1. /\ a \o b \in Seq(S)
        /\ Len(a \o b) = Len(a) + Len(b)
        /\ \A i \in 1..(Len(a) + Len(b)) :
             (a \o b)[i] = IF i <= Len(a) THEN a[i] ELSE b[i - Len(a)]
    BY <1>3, <1>4, ConcatProperties
  <2>2. Len(a) + Len(b) = Len(s) - 1 /\ Len(a) = n - 1
    BY <1>2, <1>3, <1>4
  <2> QED
    BY <2>1, <2>2, Zenon
<1>7. ASSUME NEW k \in 1..(Len(s) - 1)
      PROVE  (a \o b)[k] = IF k < n THEN s[k] ELSE s[k + 1]
  <2>1. CASE k < n
    BY <1>2, <1>3, <1>6, <2>1
  <2>2. CASE ~(k < n)
    <3>1. k - (n - 1) \in 1..(Len(s) - n) /\ n + (k - (n - 1)) = k + 1
      BY <1>2, <2>2
    <3>2. b[k - (n - 1)] = s[k + 1]
      BY <1>4, <3>1
    <3>3. ~(k <= n - 1)
      BY <1>2, <2>2
    <3>4. (a \o b)[k] = b[k - (n - 1)]
      BY <1>6, <3>3
    <3> QED
      BY <2>2, <3>2, <3>4
  <2> QED
    BY <2>1, <2>2
<1> QED
  BY <1>5, <1>6, <1>7 DEF Removed

\* A set of positions with everything before each of its members is an initial
\* segment, so its size says where it ends.
LEMMA InitialSegment ==
  ASSUME NEW n \in Nat, NEW A \in SUBSET (1..n),
         \A j \in A : \A i \in 1..n : i < j => i \in A
  PROVE  /\ IsFiniteSet(A) /\ Cardinality(A) \in 0..n
         /\ A = 1..Cardinality(A)
<1> DEFINE B == (1..(n + 1)) \ A
<1>1. n + 1 \in B /\ B \subseteq Nat
  OBVIOUS
<1>2. \E m \in B : \A x \in B : m <= x
  <2>1. IsWellFoundedOn(OpToRel(<, Nat), Nat)
    BY NatLessThanWellFounded
  <2>2. B \subseteq Nat /\ B # {}
    BY <1>1
  <2> HIDE DEF B
  <2>3. \E p \in B : \A x \in B : ~(<<x, p>> \in OpToRel(<, Nat))
    BY <2>1, <2>2, WFMin, Zenon
  <2>4. \E p \in B : \A x \in B : ~(x < p)
    BY <2>2, <2>3, Zenon DEF OpToRel
  <2> QED
    BY <2>2, <2>4
<1>3. PICK m \in B : \A x \in B : m <= x
  BY <1>2
<1>4. m \in 1..(n + 1) /\ m \notin A
  OBVIOUS
<1>5. \A x \in 1..(m - 1) : x \in A
  <2>1. \A x \in 1..(m - 1) : x \in 1..(n + 1) /\ ~(m <= x)
    BY <1>4
  <2> QED
    BY <1>3, <2>1
<1>6. \A x \in A : x < m
  <2> SUFFICES ASSUME NEW x \in A, ~(x < m) PROVE FALSE
    OBVIOUS
  <2>1. x # m /\ x \in 1..n
    BY <1>4
  <2>2. m < x /\ m \in 1..n
    BY <1>4, <2>1
  <2> QED
    BY <1>4, <2>2
<1>7. A = 1..(m - 1)
  <2>1. \A x \in A : x \in 1..(m - 1)
    BY <1>4, <1>6
  <2> QED
    BY <1>5, <2>1
<1>8. IsFiniteSet(1..(m - 1)) /\ Cardinality(1..(m - 1)) = m - 1
  BY <1>4, FS_Interval
<1> QED
  BY <1>4, <1>7, <1>8
-----------------------------------------------------------------------------

\* An order at rest.
Order == [id : Nat, owner : Owners, price : Prices, remaining : Nat \ {0}]

\* The tree L holds the orders of the list F: level p has those that follow the
\* first start[p] of them.
Walk(side, L, F, start) ==
  /\ F \in Seq(Order)
  /\ start \in [DOMAIN L -> Nat]
  /\ \A p \in DOMAIN L :
       /\ L[p] \in Seq(Order)
       /\ Len(L[p]) > 0
       /\ start[p] + Len(L[p]) <= Len(F)
  /\ \A p \in DOMAIN L : \A i \in 1..Len(L[p]) : F[start[p] + i] = L[p][i]
  /\ \A p \in DOMAIN L : \A i \in 1..Len(L[p]) : L[p][i].price = p
  /\ \A k \in 1..Len(F) :
       /\ F[k].price \in DOMAIN L
       /\ start[F[k].price] < k
       /\ k <= start[F[k].price] + Len(L[F[k].price])
  /\ \A p, q \in DOMAIN L : Better(side, p, q) => start[p] + Len(L[p]) <= start[q]

\* The comparator orders the prices.
LEMMA BetterOrder ==
  ASSUME NEW side
  PROVE  /\ \A p \in Nat : ~Better(side, p, p)
         /\ \A p, q \in Nat : Better(side, p, q) \/ Better(side, q, p) \/ p = q
         /\ \A p, q \in Nat : Better(side, p, q) => ~Better(side, q, p)
         /\ \A p, q, r \in Nat : Better(side, p, q) /\ Better(side, q, r) => Better(side, p, r)
         /\ \A p, q, r \in Nat : ~Better(side, q, p) /\ ~Better(side, r, q) => ~Better(side, r, p)
BY DEF Better

\* The levels of a tree, and what its walk says of positions.
LEMMA WalkParts ==
  ASSUME OrderBookAssumption, NEW side, NEW L, NEW F, NEW start, Walk(side, L, F, start)
  PROVE  /\ Len(F) \in Nat /\ DOMAIN F = 1..Len(F)
         /\ DOMAIN L \subseteq Prices /\ DOMAIN L \subseteq Nat
         /\ \A p \in DOMAIN L : Len(L[p]) \in Nat /\ DOMAIN L[p] = 1..Len(L[p]) /\ start[p] \in Nat
         /\ \A k \in 1..Len(F) : /\ F[k] \in Order
                                 /\ F[k].price \in Prices /\ F[k].price \in Nat
                                 /\ F[k].remaining \in Nat \ {0}
                                 /\ F[k].id \in Nat
         /\ \A p \in DOMAIN L : \A k \in 1..Len(F) :
              F[k].price = p <=> start[p] < k /\ k <= start[p] + Len(L[p])
<1> USE DEF Walk
<1>1. Len(F) \in Nat /\ DOMAIN F = 1..Len(F)
  OBVIOUS
<1>2. ASSUME NEW p \in DOMAIN L
      PROVE  Len(L[p]) \in Nat /\ DOMAIN L[p] = 1..Len(L[p]) /\ start[p] \in Nat
  OBVIOUS
<1>3. ASSUME NEW k \in 1..Len(F)
      PROVE  /\ F[k] \in Order
             /\ F[k].price \in Prices /\ F[k].price \in Nat
             /\ F[k].remaining \in Nat \ {0}
             /\ F[k].id \in Nat
  <2>1. F[k] \in Order
    OBVIOUS
  <2> QED
    BY <2>1 DEF Order, OrderBookAssumption
<1>4. ASSUME NEW p \in DOMAIN L
      PROVE  p \in Prices /\ p \in Nat
  <2>1. 1 \in 1..Len(L[p]) /\ L[p][1] \in Order
    BY <1>2
  <2>2. L[p][1].price = p /\ L[p][1].price \in Prices
    BY <2>1 DEF Order
  <2> QED
    BY <2>2 DEF OrderBookAssumption
<1>5. ASSUME NEW p \in DOMAIN L, NEW k \in 1..Len(F)
      PROVE  F[k].price = p <=> start[p] < k /\ k <= start[p] + Len(L[p])
  <2>1. ASSUME start[p] < k, k <= start[p] + Len(L[p])
        PROVE  F[k].price = p
    <3>1. k - start[p] \in 1..Len(L[p]) /\ start[p] + (k - start[p]) = k
      BY <1>2, <2>1
    <3>2. F[start[p] + (k - start[p])] = L[p][k - start[p]] /\ L[p][k - start[p]].price = p
      BY <3>1
    <3> QED
      BY <3>1, <3>2
  <2> QED
    BY <2>1
<1> QED
  BY <1>1, <1>2, <1>3, <1>4, <1>5

\* A walk visits no order before a better one.
LEMMA WalkSorted ==
  ASSUME OrderBookAssumption, NEW side, NEW L, NEW F, NEW start, Walk(side, L, F, start),
         NEW i \in 1..Len(F), NEW j \in 1..Len(F), i < j
  PROVE  ~Better(side, F[j].price, F[i].price)
<1> SUFFICES ASSUME Better(side, F[j].price, F[i].price) PROVE FALSE
  OBVIOUS
<1>1. PICK p, q : p = F[i].price /\ q = F[j].price
  OBVIOUS
<1>2. p \in DOMAIN L /\ q \in DOMAIN L /\ start[p] < i /\ j <= start[q] + Len(L[q])
  BY <1>1 DEF Walk
<1>3. start[q] + Len(L[q]) <= start[p]
  BY <1>1, <1>2 DEF Walk
<1>4. start[p] \in Nat /\ start[q] \in Nat /\ Len(L[q]) \in Nat /\ i \in Nat /\ j \in Nat
  BY <1>2, WalkParts
<1> QED
  BY <1>2, <1>3, <1>4

\* The best level of a tree is the first of its walk.
LEMMA BestLevel ==
  ASSUME OrderBookAssumption, NEW side, NEW L, NEW F, NEW start, Walk(side, L, F, start)
  PROVE  /\ DOMAIN L = {} <=> Len(F) = 0
         /\ Len(F) > 0 =>
              LET best == F[1].price
              IN  /\ best \in DOMAIN L /\ start[best] = 0
                  /\ L[best][1] = F[1] /\ Len(L[best]) > 0
                  /\ \A q \in DOMAIN L : ~Better(side, q, best)
                  /\ \A p \in DOMAIN L : (\A q \in DOMAIN L : ~Better(side, q, p)) => p = best
<1>1. DOMAIN L = {} <=> Len(F) = 0
  <2>1. ASSUME NEW p \in DOMAIN L PROVE Len(F) > 0
    <3>1. start[p] \in Nat /\ Len(L[p]) \in Nat /\ Len(F) \in Nat
      BY WalkParts
    <3>2. Len(L[p]) > 0 /\ start[p] + Len(L[p]) <= Len(F)
      BY DEF Walk
    <3> QED
      BY <3>1, <3>2
  <2>2. ASSUME Len(F) # 0 PROVE DOMAIN L # {}
    <3>1. 1 \in 1..Len(F)
      BY <2>2, WalkParts
    <3> QED
      BY <3>1 DEF Walk
  <2>3. ~(0 > 0)
    OBVIOUS
  <2> QED
    BY <2>1, <2>2, <2>3
<1>2. ASSUME Len(F) > 0
      PROVE  LET best == F[1].price
             IN  /\ best \in DOMAIN L /\ start[best] = 0
                 /\ L[best][1] = F[1] /\ Len(L[best]) > 0
                 /\ \A q \in DOMAIN L : ~Better(side, q, best)
                 /\ \A p \in DOMAIN L : (\A q \in DOMAIN L : ~Better(side, q, p)) => p = best
  <2>1. PICK best : best = F[1].price
    OBVIOUS
  <2>2. 1 \in 1..Len(F)
    BY <1>2, WalkParts
  <2>3. best \in DOMAIN L /\ start[best] < 1
    BY <2>1, <2>2 DEF Walk
  <2>4. start[best] = 0
    <3>1. start[best] \in Nat
      BY <2>3, WalkParts
    <3> QED
      BY <2>3, <3>1
  <2>5. Len(L[best]) > 0 /\ Len(L[best]) \in Nat
    BY <2>3, WalkParts DEF Walk
  <2>6. L[best][1] = F[1]
    <3>1. 1 \in 1..Len(L[best])
      BY <2>5
    <3>2. F[start[best] + 1] = L[best][1]
      BY <2>3, <3>1 DEF Walk
    <3> QED
      BY <2>4, <3>2
  <2>7. \A q \in DOMAIN L : ~Better(side, q, best)
    <3> SUFFICES ASSUME NEW q \in DOMAIN L, Better(side, q, best) PROVE FALSE
      OBVIOUS
    <3>1. start[q] + Len(L[q]) <= start[best] /\ Len(L[q]) > 0
      BY <2>3 DEF Walk
    <3>2. start[q] \in Nat /\ Len(L[q]) \in Nat
      BY WalkParts
    <3> QED
      BY <2>4, <3>1, <3>2
  <2>8. ASSUME NEW p \in DOMAIN L, \A q \in DOMAIN L : ~Better(side, q, p)
        PROVE  p = best
    <3>1. p \in Nat /\ best \in Nat
      BY <2>3, WalkParts
    <3> QED
      BY <2>3, <2>7, <2>8, <3>1, BetterOrder
  <2> QED
    BY <2>1, <2>3, <2>4, <2>5, <2>6, <2>7, <2>8
<1> QED
  BY <1>1, <1>2

\* The worst level of a tree is the last of its walk.
LEMMA WorstLevel ==
  ASSUME OrderBookAssumption, NEW side, NEW L, NEW F, NEW start, Walk(side, L, F, start),
         Len(F) > 0
  PROVE  LET worst == F[Len(F)].price
         IN  /\ worst \in DOMAIN L /\ start[worst] + Len(L[worst]) = Len(F)
             /\ \A q \in DOMAIN L : ~Better(side, worst, q)
             /\ \A p \in DOMAIN L : (\A q \in DOMAIN L : ~Better(side, p, q)) => p = worst
             /\ \A q \in DOMAIN L \ {worst} : start[q] + Len(L[q]) <= start[worst]
<1>1. PICK n, worst : n = Len(F) /\ worst = F[n].price
  OBVIOUS
<1>2. n \in 1..Len(F) /\ n \in Nat
  BY <1>1, WalkParts
<1>3. worst \in DOMAIN L /\ n <= start[worst] + Len(L[worst]) /\ start[worst] + Len(L[worst]) <= n
  BY <1>1, <1>2 DEF Walk
<1>4. start[worst] \in Nat /\ Len(L[worst]) \in Nat
  BY <1>3, WalkParts
<1>5. start[worst] + Len(L[worst]) = n
  BY <1>2, <1>3, <1>4
<1>6. \A q \in DOMAIN L : ~Better(side, worst, q)
  <2> SUFFICES ASSUME NEW q \in DOMAIN L, Better(side, worst, q) PROVE FALSE
    OBVIOUS
  <2>1. start[worst] + Len(L[worst]) <= start[q] /\ Len(L[q]) > 0 /\ start[q] + Len(L[q]) <= n
    BY <1>1, <1>3 DEF Walk
  <2>2. start[q] \in Nat /\ Len(L[q]) \in Nat
    BY WalkParts
  <2> QED
    BY <1>2, <1>5, <2>1, <2>2
<1>7. \A p \in DOMAIN L : p \in Nat
  BY WalkParts
<1>8. ASSUME NEW p \in DOMAIN L, \A q \in DOMAIN L : ~Better(side, p, q)
      PROVE  p = worst
  BY <1>3, <1>6, <1>7, <1>8, BetterOrder
<1>9. ASSUME NEW q \in DOMAIN L \ {worst}
      PROVE  start[q] + Len(L[q]) <= start[worst]
  <2>1. Better(side, q, worst)
    BY <1>3, <1>6, <1>7, BetterOrder
  <2> QED
    BY <1>3, <2>1 DEF Walk
<1> QED
  BY <1>1, <1>3, <1>5, <1>6, <1>8, <1>9
-----------------------------------------------------------------------------

\* The tree M is the other one with queue Q on level p, or without the level.
Requeued(M, L, p, Q) ==
  /\ Len(Q) = 0 => DOMAIN M = DOMAIN L \ {p}
  /\ Len(Q) # 0 => DOMAIN M = DOMAIN L
  /\ \A q \in DOMAIN M : q # p => M[q] = L[q]
  /\ p \in DOMAIN M => M[p] = Q

\* What putting a queue back on its level does to the tree.
LEMMA SetQueueParts ==
  ASSUME NEW L, NEW p, p \in DOMAIN L, NEW Q, Q \in Seq(Order)
  PROVE  Requeued(SetQueue(L, p, Q), L, p, Q)
<1> USE DEF Requeued
<1>1. CASE Q = <<>>
  <2>1. Len(Q) = 0
    BY <1>1
  <2>2. SetQueue(L, p, Q) = [x \in DOMAIN L \ {p} |-> L[x]]
    BY <1>1 DEF SetQueue, Drop
  <2> QED
    BY <2>1, <2>2
<1>2. CASE Q # <<>>
  <2>1. Len(Q) # 0
    BY <1>2
  <2>2. SetQueue(L, p, Q) = [x \in DOMAIN L \cup {p} |-> IF x = p THEN Q ELSE L[x]]
    BY <1>2 DEF SetQueue, Put
  <2>3. DOMAIN L \cup {p} = DOMAIN L
    OBVIOUS
  <2> QED
    BY <2>1, <2>2, <2>3
<1> QED
  BY <1>1, <1>2

\* An order taken out of its queue, and the level with it if it was alone there,
\* is taken out of the walk.
LEMMA WalkWithout ==
  ASSUME OrderBookAssumption, NEW side, NEW L, NEW F, NEW start, Walk(side, L, F, start),
         NEW p, p \in DOMAIN L, NEW i, i \in 1..Len(L[p]),
         NEW Q, Q \in Seq(Order), Removed(Q, L[p], i),
         NEW G, G \in Seq(Order), Removed(G, F, start[p] + i)
  PROVE  \E s : Walk(side, SetQueue(L, p, Q), G, s)
<1>1. PICK M : M = SetQueue(L, p, Q)
  OBVIOUS
<1>2. /\ Len(Q) = 0 => DOMAIN M = DOMAIN L \ {p}
      /\ Len(Q) # 0 => DOMAIN M = DOMAIN L
      /\ \A q \in DOMAIN M : q # p => M[q] = L[q]
      /\ p \in DOMAIN M => M[p] = Q
  <2>1. Requeued(M, L, p, Q)
    BY <1>1, SetQueueParts
  <2> QED
    BY <2>1 DEF Requeued
<1>3. PICK at, n, m, a : at = start[p] + i /\ n = Len(F) /\ m = Len(L[p]) /\ a = start[p]
  OBVIOUS
<1>4. /\ n \in Nat /\ m \in Nat /\ a \in Nat /\ at \in Nat /\ i \in Nat
      /\ a + m <= n /\ at = a + i /\ at \in 1..n /\ i \in 1..m
  <2>1. n \in Nat /\ m \in Nat /\ a \in Nat
    BY <1>3, WalkParts
  <2>2. a + m <= n /\ at = a + i /\ i \in 1..m
    BY <1>3 DEF Walk
  <2> QED
    BY <2>1, <2>2
<1>5. /\ Len(Q) = m - 1 /\ DOMAIN Q = 1..(m - 1)
      /\ \A k \in 1..(m - 1) : Q[k] = IF k < i THEN L[p][k] ELSE L[p][k + 1]
      /\ Len(G) = n - 1 /\ DOMAIN G = 1..(n - 1)
      /\ \A k \in 1..(n - 1) : G[k] = IF k < at THEN F[k] ELSE F[k + 1]
  <2>1. /\ Len(Q) = m - 1
        /\ \A k \in 1..(m - 1) : Q[k] = IF k < i THEN L[p][k] ELSE L[p][k + 1]
    BY <1>3, Zenon DEF Removed
  <2>2. /\ Len(G) = n - 1
        /\ \A k \in 1..(n - 1) : G[k] = IF k < at THEN F[k] ELSE F[k + 1]
    BY <1>3, Zenon DEF Removed
  <2>3. DOMAIN Q = 1..Len(Q) /\ DOMAIN G = 1..Len(G)
    OBVIOUS
  <2> QED
    BY <2>1, <2>2, <2>3
<1>6. ASSUME NEW q \in DOMAIN L
      PROVE  /\ q \in Nat
             /\ start[q] \in Nat /\ Len(L[q]) \in Nat /\ Len(L[q]) > 0
             /\ start[q] + Len(L[q]) <= n
  <2>1. q \in Nat /\ start[q] \in Nat /\ Len(L[q]) \in Nat
    BY WalkParts
  <2>2. Len(L[q]) > 0 /\ start[q] + Len(L[q]) <= n
    BY <1>3 DEF Walk
  <2> QED
    BY <2>1, <2>2
<1>7. ASSUME NEW q \in DOMAIN L, q # p
      PROVE  /\ Better(side, p, q) => a + m <= start[q]
             /\ ~Better(side, p, q) => start[q] + Len(L[q]) <= a
  <2>1. Better(side, p, q) \/ Better(side, q, p)
    BY <1>6, <1>7, BetterOrder
  <2> QED
    BY <1>3, <2>1 DEF Walk
<1> DEFINE s == [q \in DOMAIN M |-> IF Better(side, p, q) THEN start[q] - 1 ELSE start[q]]
<1>8. DOMAIN M \subseteq DOMAIN L /\ (p \in DOMAIN M => m > 1) /\ ~Better(side, p, p)
  <2>1. p \in DOMAIN M => Len(Q) # 0
    BY <1>2
  <2> QED
    BY <1>2, <1>4, <1>5, <1>6, <2>1, BetterOrder
<1>9. ASSUME NEW q \in DOMAIN M
      PROVE  /\ s[q] \in Nat
             /\ M[q] \in Seq(Order)
             /\ Len(M[q]) > 0
             /\ s[q] + Len(M[q]) <= Len(G)
             /\ s[q] = IF Better(side, p, q) THEN start[q] - 1 ELSE start[q]
             /\ q = p => s[q] = a /\ Len(M[q]) = m - 1
             /\ q # p => M[q] = L[q]
  <2>1. s[q] = IF Better(side, p, q) THEN start[q] - 1 ELSE start[q]
    OBVIOUS
  <2>2. CASE q = p
    <3>1. M[q] = Q /\ s[q] = a
      BY <1>2, <1>3, <1>8, <2>1, <2>2
    <3> QED
      BY <1>4, <1>5, <1>8, <2>1, <2>2, <3>1
  <2>3. CASE q # p
    <3>1. M[q] = L[q] /\ q \in DOMAIN L
      BY <1>2, <1>8, <2>3
    <3>2. L[q] \in Seq(Order)
      BY <3>1 DEF Walk
    <3>3. PICK b, c : b = start[q] /\ c = Len(L[q])
      OBVIOUS
    <3>4. b \in Nat /\ c \in Nat /\ c > 0 /\ b + c <= n
      BY <1>6, <3>1, <3>3
    <3>5. s[q] = IF Better(side, p, q) THEN b - 1 ELSE b
      BY <2>1, <3>3
    <3>6. (Better(side, p, q) => a + m <= b) /\ (~Better(side, p, q) => b + c <= a)
      BY <1>7, <2>3, <3>1, <3>3
    <3>7. s[q] \in Nat /\ s[q] + c <= n - 1
      BY <1>4, <3>4, <3>5, <3>6
    <3> QED
      BY <1>5, <2>1, <2>3, <3>1, <3>2, <3>3, <3>4, <3>7
  <2> QED
    BY <2>2, <2>3
<1>10. s \in [DOMAIN M -> Nat]
  BY <1>9
<1> HIDE DEF s
<1>11. ASSUME NEW q \in DOMAIN M, NEW j \in 1..Len(M[q])
       PROVE  G[s[q] + j] = M[q][j] /\ M[q][j].price = q
  <2>1. CASE q = p
    <3>1. j \in 1..(m - 1) /\ s[q] = a /\ M[q] = Q
      BY <1>2, <1>9, <2>1
    <3>2. CASE j < i
      <4>1. s[q] + j \in 1..(n - 1) /\ s[q] + j < at /\ j \in 1..m
        BY <1>4, <3>1, <3>2
      <4>2. G[s[q] + j] = F[a + j] /\ M[q][j] = L[p][j]
        BY <1>5, <3>1, <3>2, <4>1
      <4> QED
        BY <1>3, <2>1, <4>1, <4>2 DEF Walk
    <3>3. CASE ~(j < i)
      <4>1. s[q] + j \in 1..(n - 1) /\ ~(s[q] + j < at) /\ j + 1 \in 1..m
        BY <1>4, <3>1, <3>3
      <4>2. G[s[q] + j] = F[a + j + 1] /\ M[q][j] = L[p][j + 1]
        BY <1>5, <3>1, <3>3, <4>1
      <4>3. a + j + 1 = a + (j + 1)
        BY <1>4, <3>1
      <4>4. F[a + (j + 1)] = L[p][j + 1] /\ L[p][j + 1].price = p
        BY <1>3, <4>1 DEF Walk
      <4> QED
        BY <2>1, <4>2, <4>3, <4>4
    <3> QED
      BY <3>2, <3>3
  <2>2. CASE q # p
    <3>1. M[q] = L[q] /\ q \in DOMAIN L /\ j \in 1..Len(L[q]) /\ j \in Nat
      BY <1>8, <1>9, <2>2
    <3>2. PICK b, c : b = start[q] /\ c = Len(L[q])
      OBVIOUS
    <3>5. F[b + j] = L[q][j] /\ L[q][j].price = q
      BY <3>1, <3>2 DEF Walk
    <3>6. b \in Nat /\ c \in Nat /\ b + c <= n /\ j \in 1..c
      BY <1>6, <3>1, <3>2
    <3>3. CASE Better(side, p, q)
      <4>1. s[q] = b - 1 /\ a + m <= b
        BY <1>7, <1>9, <2>2, <3>1, <3>2, <3>3
      <4>2. s[q] + j \in 1..(n - 1) /\ ~(s[q] + j < at) /\ s[q] + j + 1 = b + j
        BY <1>4, <3>6, <4>1
      <4> QED
        BY <1>5, <3>1, <3>5, <4>2
    <3>4. CASE ~Better(side, p, q)
      <4>1. s[q] = b /\ b + c <= a
        BY <1>7, <1>9, <2>2, <3>1, <3>2, <3>4
      <4>2. s[q] + j \in 1..(n - 1) /\ s[q] + j < at
        BY <1>4, <3>6, <4>1
      <4> QED
        BY <1>5, <3>1, <3>5, <4>1, <4>2
    <3> QED
      BY <3>3, <3>4
  <2> QED
    BY <2>1, <2>2
<1>12. ASSUME NEW k \in 1..Len(G)
       PROVE  /\ G[k].price \in DOMAIN M
              /\ s[G[k].price] < k
              /\ k <= s[G[k].price] + Len(M[G[k].price])
  <2>1. PICK l : l = IF k < at THEN k ELSE k + 1
    OBVIOUS
  <2>2. l \in 1..n /\ l # at /\ G[k] = F[l] /\ k \in 1..(n - 1)
    BY <1>4, <1>5, <2>1
  <2>3. PICK q : q = F[l].price
    OBVIOUS
  <2>4. q \in DOMAIN L /\ start[q] < l /\ l <= start[q] + Len(L[q])
    BY <1>3, <2>2, <2>3 DEF Walk
  <2>5. CASE q = p
    <3>1. m > 1
      <4>1. a < l /\ l <= a + m
        BY <1>3, <2>4, <2>5
      <4> QED
        BY <1>4, <2>2, <4>1
    <3>2. p \in DOMAIN M /\ s[p] = a /\ Len(M[p]) = m - 1
      <4>1. Len(Q) # 0
        BY <1>4, <1>5, <3>1
      <4> QED
        BY <1>2, <1>9, <2>5, <4>1
    <3>3. a < k /\ k <= a + (m - 1)
      <4>1. a < l /\ l <= a + m
        BY <1>3, <2>4, <2>5
      <4> QED
        BY <1>4, <2>1, <2>2, <4>1
    <3> QED
      BY <2>2, <2>3, <2>5, <3>2, <3>3
  <2>6. CASE q # p
    <3>1. q \in DOMAIN M /\ M[q] = L[q]
      BY <1>2, <1>9, <2>4, <2>6
    <3>4. PICK b, c : b = start[q] /\ c = Len(L[q])
      OBVIOUS
    <3>5. b \in Nat /\ c \in Nat /\ b < l /\ l <= b + c
      BY <1>6, <2>4, <3>4
    <3>2. CASE Better(side, p, q)
      <4>1. s[q] = b - 1 /\ a + m <= b
        BY <1>7, <1>9, <2>4, <2>6, <3>1, <3>2, <3>4
      <4>2. k \in Nat /\ l \in Nat /\ at \in Nat /\ a \in Nat /\ m \in Nat /\ at <= a + m
        BY <1>4, <2>2
      <4>3. at < l /\ k = l - 1
        BY <2>1, <2>2, <3>5, <4>1, <4>2
      <4>4. s[q] < k /\ k <= s[q] + c
        BY <3>5, <4>1, <4>2, <4>3
      <4> QED
        BY <2>2, <2>3, <3>1, <3>4, <4>4
    <3>3. CASE ~Better(side, p, q)
      <4>1. s[q] = b /\ b + c <= a
        BY <1>7, <1>9, <2>4, <2>6, <3>1, <3>3, <3>4
      <4>2. s[q] < k /\ k <= s[q] + c
        BY <1>4, <2>1, <2>2, <3>5, <4>1
      <4> QED
        BY <2>2, <2>3, <3>1, <3>4, <4>2
    <3> QED
      BY <3>2, <3>3
  <2> QED
    BY <2>5, <2>6
<1>13. ASSUME NEW x \in DOMAIN M, NEW y \in DOMAIN M, Better(side, x, y)
       PROVE  s[x] + Len(M[x]) <= s[y]
  <2>1. x \in DOMAIN L /\ y \in DOMAIN L /\ x # y /\ ~Better(side, y, x)
    BY <1>6, <1>8, <1>13, BetterOrder
  <2>2. start[x] + Len(L[x]) <= start[y]
    BY <1>13, <2>1 DEF Walk
  <2>6. PICK b, c, d : b = start[x] /\ c = Len(L[x]) /\ d = start[y]
    OBVIOUS
  <2>7. b \in Nat /\ c \in Nat /\ c > 0 /\ d \in Nat /\ b + c <= d
    BY <1>6, <2>1, <2>2, <2>6
  <2>8. s[x] = (IF Better(side, p, x) THEN b - 1 ELSE b) /\ s[y] = IF Better(side, p, y) THEN d - 1 ELSE d
    BY <1>9, <2>6
  <2>3. CASE x = p
    <3>1. b = a /\ c = m /\ s[x] = a /\ Len(M[x]) = m - 1
      BY <1>3, <1>9, <2>3, <2>6
    <3> QED
      BY <1>4, <2>7, <2>8, <3>1
  <2>4. CASE y = p
    <3>1. s[y] = d /\ s[x] = b /\ Len(M[x]) = c
      BY <1>3, <1>8, <1>9, <2>1, <2>4, <2>6, <2>8
    <3> QED
      BY <2>7, <3>1
  <2>5. CASE x # p /\ y # p
    <3>1. Len(M[x]) = c
      BY <1>9, <2>5, <2>6
    <3>2. Better(side, p, x) => Better(side, p, y)
      BY <1>6, <1>13, <2>1, BetterOrder
    <3>3. /\ ~Better(side, p, x) => b + c <= a
          /\ Better(side, p, y) => a + m <= d
      BY <1>7, <2>1, <2>5, <2>6
    <3> QED
      BY <1>4, <2>7, <2>8, <3>1, <3>2, <3>3
  <2> QED
    BY <2>3, <2>4, <2>5
<1>14. Walk(side, M, G, s)
  BY <1>9, <1>10, <1>11, <1>12, <1>13, Zenon DEF Walk
<1> QED
  BY <1>1, <1>14
-----------------------------------------------------------------------------

\* The tree M is the other one with order e at the end of level p.
Grown(M, L, p, e) ==
  LET w == IF p \in DOMAIN L THEN Len(L[p]) ELSE 0
  IN  /\ DOMAIN M = DOMAIN L \cup {p}
      /\ \A q \in DOMAIN L : q # p => M[q] = L[q]
      /\ M[p] \in Seq(Order)
      /\ Len(M[p]) = w + 1
      /\ \A i \in 1..w : M[p][i] = L[p][i]
      /\ M[p][w + 1] = e

\* What putting an order at the end of its level does to the tree.
LEMMA PutParts ==
  ASSUME NEW s, NEW e, e \in Order, \A p \in DOMAIN s.levels : s.levels[p] \in Seq(Order)
  PROVE  Grown(Put(s.levels, e.price, Append(Queue(s, e.price), e)), s.levels, e.price, e)
<1>1. PICK L, p, Q, M : L = s.levels /\ p = e.price /\ Q = Queue(s, p) /\ M = Put(L, p, Append(Q, e))
  OBVIOUS
<1>2. Q = IF p \in DOMAIN L THEN L[p] ELSE <<>>
  BY <1>1 DEF Queue
<1>3. Q \in Seq(Order) /\ Len(Q) = IF p \in DOMAIN L THEN Len(L[p]) ELSE 0
  <2>1. CASE p \in DOMAIN L
    BY <1>1, <1>2, <2>1
  <2>2. CASE p \notin DOMAIN L
    <3>1. <<>> \in Seq(Order) /\ Len(<<>>) = 0
      BY EmptySeq
    <3> QED
      BY <1>2, <2>2, <3>1
  <2> QED
    BY <2>1, <2>2
<1>4. M = [x \in DOMAIN L \cup {p} |-> IF x = p THEN Append(Q, e) ELSE L[x]]
  BY <1>1 DEF Put
<1>5. /\ DOMAIN M = DOMAIN L \cup {p}
      /\ M[p] = Append(Q, e)
      /\ \A q \in DOMAIN L : q # p => M[q] = L[q]
  BY <1>4
<1>6. PICK R : R = Append(Q, e)
  OBVIOUS
<1>7. /\ R \in Seq(Order) /\ Len(R) = Len(Q) + 1
      /\ \A i \in 1..Len(Q) : R[i] = Q[i]
      /\ R[Len(Q) + 1] = e
  BY <1>3, <1>6
<1>8. PICK w : w = IF p \in DOMAIN L THEN Len(L[p]) ELSE 0
  OBVIOUS
<1>9. w = Len(Q) /\ w \in Nat
  BY <1>3, <1>8
<1>10. \A i \in 1..w : M[p][i] = L[p][i]
  <2> SUFFICES ASSUME NEW i \in 1..w PROVE M[p][i] = L[p][i]
    OBVIOUS
  <2>1. p \in DOMAIN L
    BY <1>8
  <2>2. Q = L[p] /\ M[p] = R /\ R[i] = Q[i]
    BY <1>2, <1>5, <1>6, <1>7, <1>9, <2>1
  <2> QED
    BY <2>2
<1>11. M[p] \in Seq(Order) /\ Len(M[p]) = w + 1 /\ M[p][w + 1] = e
  BY <1>5, <1>6, <1>7, <1>9
<1>12. Grown(M, L, p, e)
  BY <1>5, <1>8, <1>10, <1>11 DEF Grown
<1> QED
  BY <1>1, <1>12

\* The first c orders of the walk are those at least as good as price p.
Splits(side, L, F, start, p, c) ==
  /\ c \in 0..Len(F)
  /\ \A k \in 1..Len(F) : k <= c <=> ~Better(side, p, F[k].price)
  /\ \A q \in DOMAIN L :
       /\ q = p => start[q] + Len(L[q]) = c
       /\ Better(side, p, q) => c <= start[q]
       /\ Better(side, q, p) => start[q] + Len(L[q]) <= c

\* The orders at least as good as a price come first in a walk: an order goes
\* behind them, at the end of its level.
LEMMA PlaceInWalk ==
  ASSUME OrderBookAssumption, NEW side, NEW L, NEW F, NEW start, Walk(side, L, F, start),
         NEW e, e \in Order
  PROVE  Splits(side, L, F, start, e.price, PlaceOf(side, F, e) - 1)
<1>1. PICK n, p : n = Len(F) /\ p = e.price
  OBVIOUS
<1>2. n \in Nat /\ DOMAIN F = 1..n
  BY <1>1, WalkParts
<1>3. p \in Nat
  BY <1>1 DEF Order, OrderBookAssumption
<1>4. PICK A : A = {i \in DOMAIN F : ~Better(side, e.price, F[i].price)}
  OBVIOUS
<1>5. A \in SUBSET (1..n) /\ \A i \in 1..n : i \in A <=> ~Better(side, p, F[i].price)
  BY <1>1, <1>2, <1>4
<1>6. \A k \in 1..n : F[k].price \in Nat
  BY <1>1, WalkParts
<1>7. ASSUME NEW j \in A, NEW i \in 1..n, i < j
      PROVE  i \in A
  <2>1. ~Better(side, F[j].price, F[i].price)
    BY <1>1, <1>5, <1>7, WalkSorted
  <2>2. ~Better(side, p, F[j].price) /\ F[j].price \in Nat /\ F[i].price \in Nat
    BY <1>5, <1>6
  <2>3. ~Better(side, p, F[i].price)
    BY <1>3, <2>1, <2>2, BetterOrder
  <2> QED
    BY <1>5, <2>3
<1>8. PICK c : c = Cardinality(A)
  OBVIOUS
<1>9. c \in 0..n /\ A = 1..c
  BY <1>2, <1>5, <1>7, <1>8, InitialSegment
<1>10. c = PlaceOf(side, F, e) - 1
  <2>1. PlaceOf(side, F, e) = c + 1
    BY <1>4, <1>8 DEF PlaceOf
  <2> QED
    BY <1>9, <2>1
<1>11. \A k \in 1..n : k <= c <=> ~Better(side, p, F[k].price)
  <2> SUFFICES ASSUME NEW k \in 1..n PROVE k <= c <=> k \in A
    BY <1>5
  <2> QED
    BY <1>9
<1>12. ASSUME NEW q \in DOMAIN L
       PROVE  /\ q = p => start[q] + Len(L[q]) = c
              /\ Better(side, p, q) => c <= start[q]
              /\ Better(side, q, p) => start[q] + Len(L[q]) <= c
  <2>1. PICK a, w : a = start[q] /\ w = Len(L[q])
    OBVIOUS
  <2>2. a \in Nat /\ w \in Nat /\ w > 0 /\ a + w <= n /\ q \in Nat
    <3>1. a \in Nat /\ w \in Nat /\ q \in Nat
      BY <2>1, WalkParts
    <3>2. w > 0 /\ a + w <= n
      BY <1>1, <2>1 DEF Walk
    <3> QED
      BY <3>1, <3>2
  <2>3. \A k \in 1..n : F[k].price = q <=> a < k /\ k <= a + w
    BY <1>1, <2>1, WalkParts
  <2>4. a + 1 \in 1..n /\ a + w \in 1..n /\ F[a + 1].price = q /\ F[a + w].price = q
    <3>1. /\ a + 1 \in 1..n /\ a < a + 1 /\ a + 1 <= a + w
          /\ a + w \in 1..n /\ a < a + w /\ a + w <= a + w
      BY <1>2, <2>2
    <3> QED
      BY <2>3, <3>1
  <2>5. ASSUME Better(side, p, q) PROVE c <= a
    <3>1. ~(a + 1 <= c)
      BY <1>11, <2>4, <2>5
    <3> QED
      BY <1>2, <1>9, <2>2, <3>1
  <2>6. ASSUME ~Better(side, p, q) PROVE a + w <= c
    BY <1>11, <2>4, <2>6
  <2>7. ASSUME Better(side, q, p) PROVE a + w <= c
    BY <1>3, <2>2, <2>6, <2>7, BetterOrder
  <2>8. ASSUME q = p PROVE a + w = c
    <3>1. a + w <= c
      BY <1>3, <2>6, <2>8, BetterOrder
    <3> SUFFICES ASSUME a + w < c PROVE FALSE
      BY <1>2, <1>9, <2>2, <3>1
    <3>2. PICK x : x = a + w + 1
      OBVIOUS
    <3>3. x \in 1..n /\ x <= c /\ ~(x <= a + w)
      BY <1>2, <1>9, <2>2, <3>2
    <3>4. PICK r : r = F[x].price
      OBVIOUS
    <3>5. ~Better(side, p, r) /\ r # q /\ r \in Nat
      BY <1>6, <1>11, <2>3, <3>3, <3>4
    <3>6. Better(side, r, q)
      BY <2>2, <2>8, <3>5, BetterOrder
    <3>7. r \in DOMAIN L /\ x <= start[r] + Len(L[r])
      BY <1>1, <3>3, <3>4 DEF Walk
    <3>8. start[r] + Len(L[r]) <= a /\ start[r] \in Nat /\ Len(L[r]) \in Nat
      BY <2>1, <3>6, <3>7, WalkParts DEF Walk
    <3> QED
      BY <2>2, <3>2, <3>7, <3>8
  <2> QED
    BY <2>1, <2>5, <2>7, <2>8
<1>13. Splits(side, L, F, start, p, c)
  BY <1>1, <1>9, <1>11, <1>12 DEF Splits
<1> QED
  BY <1>1, <1>10, <1>13

\* An order put at the end of its level goes behind all that are at least as good.
LEMMA WalkWith ==
  ASSUME OrderBookAssumption, NEW side, NEW L, NEW F, NEW start, Walk(side, L, F, start),
         NEW e, e \in Order, NEW M, Grown(M, L, e.price, e),
         NEW G, G \in Seq(Order), Inserted(G, F, e, PlaceOf(side, F, e))
  PROVE  \E s : Walk(side, M, G, s)
<1>1. PICK p, c, at, n : p = e.price /\ at = PlaceOf(side, F, e) /\ c = at - 1 /\ n = Len(F)
  OBVIOUS
<1>2. Splits(side, L, F, start, p, c)
  BY <1>1, PlaceInWalk
<1>3. /\ n \in Nat /\ DOMAIN F = 1..n /\ at \in 1..(n + 1) /\ c \in 0..n /\ at = c + 1
      /\ Len(G) = n + 1 /\ DOMAIN G = 1..(n + 1)
      /\ \A k \in 1..(n + 1) : G[k] = IF k < at THEN F[k] ELSE IF k = at THEN e ELSE F[k - 1]
  <2>1. n \in Nat /\ DOMAIN F = 1..n
    BY <1>1, WalkParts
  <2>2. /\ at \in 1..(n + 1) /\ Len(G) = n + 1
        /\ \A k \in 1..(n + 1) : G[k] = IF k < at THEN F[k] ELSE IF k = at THEN e ELSE F[k - 1]
    BY <1>1, Zenon DEF Inserted
  <2>3. DOMAIN G = 1..Len(G)
    OBVIOUS
  <2> QED
    BY <1>1, <2>1, <2>2, <2>3
<1>4. p \in Nat /\ ~Better(side, p, p)
  <2>1. p \in Nat
    BY <1>1 DEF Order, OrderBookAssumption
  <2> QED
    BY <2>1, BetterOrder
<1>5. ASSUME NEW q \in DOMAIN L
      PROVE  /\ q \in Nat /\ L[q] \in Seq(Order)
             /\ start[q] \in Nat /\ Len(L[q]) \in Nat /\ Len(L[q]) > 0
             /\ start[q] + Len(L[q]) <= n
             /\ q = p => start[q] + Len(L[q]) = c
             /\ Better(side, p, q) => c <= start[q]
             /\ q # p /\ ~Better(side, p, q) => start[q] + Len(L[q]) <= c
  <2>1. q \in Nat /\ start[q] \in Nat /\ Len(L[q]) \in Nat
    BY WalkParts
  <2>2. L[q] \in Seq(Order) /\ Len(L[q]) > 0 /\ start[q] + Len(L[q]) <= n
    BY <1>1 DEF Walk
  <2>3. /\ q = p => start[q] + Len(L[q]) = c
        /\ Better(side, p, q) => c <= start[q]
        /\ Better(side, q, p) => start[q] + Len(L[q]) <= c
    BY <1>2 DEF Splits
  <2>4. q = p \/ Better(side, p, q) \/ Better(side, q, p)
    BY <1>4, <2>1, BetterOrder
  <2> QED
    BY <2>1, <2>2, <2>3, <2>4
<1>6. PICK w : w = IF p \in DOMAIN L THEN Len(L[p]) ELSE 0
  OBVIOUS
<1>7. /\ DOMAIN M = DOMAIN L \cup {p}
      /\ \A q \in DOMAIN L : q # p => M[q] = L[q]
      /\ M[p] \in Seq(Order)
      /\ Len(M[p]) = w + 1
      /\ \A i \in 1..w : M[p][i] = L[p][i]
      /\ M[p][w + 1] = e
  BY <1>1, <1>6 DEF Grown
<1>8. PICK a : a = IF p \in DOMAIN L THEN start[p] ELSE c
  OBVIOUS
<1>9. a \in Nat /\ w \in Nat /\ a + w = c
  BY <1>3, <1>5, <1>6, <1>8
<1> DEFINE s == [q \in DOMAIN M |-> IF q = p THEN a
                                    ELSE IF Better(side, p, q) THEN start[q] + 1
                                    ELSE start[q]]
<1>10. /\ s[p] = a
       /\ \A q \in DOMAIN L : q # p => s[q] = IF Better(side, p, q) THEN start[q] + 1 ELSE start[q]
  BY <1>7
<1>11. ASSUME NEW q \in DOMAIN M
       PROVE  /\ s[q] \in Nat
              /\ M[q] \in Seq(Order)
              /\ Len(M[q]) > 0
              /\ s[q] + Len(M[q]) <= Len(G)
  <2>1. CASE q = p
    BY <1>3, <1>7, <1>9, <1>10, <2>1
  <2>2. CASE q # p
    <3>1. M[q] = L[q] /\ q \in DOMAIN L
      BY <1>7, <2>2
    <3>2. PICK b, d : b = start[q] /\ d = Len(L[q])
      OBVIOUS
    <3>3. b \in Nat /\ d \in Nat /\ d > 0 /\ b + d <= n /\ L[q] \in Seq(Order)
      BY <1>5, <3>1, <3>2
    <3>4. s[q] = IF Better(side, p, q) THEN b + 1 ELSE b
      BY <1>10, <2>2, <3>1, <3>2
    <3>5. s[q] \in Nat /\ s[q] + d <= n + 1
      BY <1>3, <3>3, <3>4
    <3> QED
      BY <1>3, <3>1, <3>2, <3>3, <3>5
  <2> QED
    BY <2>1, <2>2
<1>12. s \in [DOMAIN M -> Nat]
  BY <1>11
<1> HIDE DEF s
<1>13. ASSUME NEW q \in DOMAIN M, NEW j \in 1..Len(M[q])
       PROVE  G[s[q] + j] = M[q][j] /\ M[q][j].price = q
  <2>1. CASE q = p
    <3>1. j \in 1..(w + 1) /\ s[q] = a
      BY <1>7, <1>10, <2>1
    <3>2. CASE j = w + 1
      <4>1. a + j = at /\ at \in 1..(n + 1)
        <5>1. at = c + 1 /\ c \in Nat /\ at \in 1..(n + 1)
          BY <1>3
        <5> QED
          BY <1>9, <3>2, <5>1
      <4>2. G[at] = e
        BY <1>3, <4>1
      <4> QED
        BY <1>1, <1>7, <2>1, <3>1, <3>2, <4>1, <4>2
    <3>3. CASE j # w + 1
      <4>1. j \in 1..w /\ p \in DOMAIN L
        BY <1>6, <1>9, <3>1, <3>3
      <4>2. a = start[p] /\ w = Len(L[p])
        BY <1>6, <1>8, <4>1
      <4>3. F[a + j] = L[p][j] /\ L[p][j].price = p
        BY <4>1, <4>2 DEF Walk
      <4>4. a + j < at /\ a + j \in 1..(n + 1)
        BY <1>3, <1>9, <4>1
      <4>5. G[a + j] = F[a + j]
        BY <1>3, <4>4
      <4> QED
        BY <1>7, <2>1, <3>1, <4>1, <4>3, <4>5
    <3> QED
      BY <3>2, <3>3
  <2>2. CASE q # p
    <3>1. M[q] = L[q] /\ q \in DOMAIN L /\ j \in 1..Len(L[q]) /\ j \in Nat
      BY <1>7, <2>2
    <3>2. PICK b, d : b = start[q] /\ d = Len(L[q])
      OBVIOUS
    <3>5. F[b + j] = L[q][j] /\ L[q][j].price = q
      BY <3>1, <3>2 DEF Walk
    <3>6. b \in Nat /\ d \in Nat /\ b + d <= n /\ j \in 1..d
      BY <1>5, <3>1, <3>2
    <3>3. CASE Better(side, p, q)
      <4>1. s[q] = b + 1 /\ c <= b
        BY <1>5, <1>10, <2>2, <3>1, <3>2, <3>3
      <4>2. PICK x : x = s[q] + j
        OBVIOUS
      <4>3. x \in 1..(n + 1) /\ ~(x < at) /\ x # at /\ x - 1 = b + j
        BY <1>3, <3>6, <4>1, <4>2
      <4>4. G[x] = F[x - 1]
        BY <1>3, <4>3
      <4>5. G[x] = L[q][j]
        BY <3>5, <4>3, <4>4
      <4> QED
        BY <3>1, <3>5, <4>2, <4>5
    <3>4. CASE ~Better(side, p, q)
      <4>1. s[q] = b /\ b + d <= c
        BY <1>5, <1>10, <2>2, <3>1, <3>2, <3>4
      <4>2. s[q] + j \in 1..(n + 1) /\ s[q] + j < at
        BY <1>3, <3>6, <4>1
      <4> QED
        BY <1>3, <3>1, <3>5, <4>1, <4>2
    <3> QED
      BY <3>3, <3>4
  <2> QED
    BY <2>1, <2>2
<1>14. ASSUME NEW k \in 1..Len(G)
       PROVE  /\ G[k].price \in DOMAIN M
              /\ s[G[k].price] < k
              /\ k <= s[G[k].price] + Len(M[G[k].price])
  <2>1. CASE k = at
    <3>1. G[k] = e
      BY <1>3, <2>1
    <3> QED
      BY <1>1, <1>3, <1>7, <1>9, <1>10, <2>1, <3>1
  <2>2. CASE k # at
    <3>1. PICK l : l = IF k < at THEN k ELSE k - 1
      OBVIOUS
    <3>2. l \in 1..n /\ G[k] = F[l] /\ k \in 1..(n + 1)
      BY <1>3, <2>2, <3>1
    <3>3. PICK q : q = F[l].price
      OBVIOUS
    <3>4. q \in DOMAIN L /\ start[q] < l /\ l <= start[q] + Len(L[q])
      BY <1>1, <3>2, <3>3 DEF Walk
    <3>5. PICK b, d : b = start[q] /\ d = Len(L[q])
      OBVIOUS
    <3>6. b \in Nat /\ d \in Nat /\ b < l /\ l <= b + d
      BY <1>5, <3>4, <3>5
    <3>7. CASE q = p
      <4>1. s[q] = b /\ Len(M[q]) = d + 1 /\ b + d = c
        BY <1>5, <1>6, <1>7, <1>8, <1>10, <3>4, <3>5, <3>7
      <4>2. s[q] < k /\ k <= s[q] + (d + 1)
        BY <1>3, <3>1, <3>2, <3>6, <4>1
      <4> QED
        BY <1>7, <3>2, <3>3, <3>7, <4>1, <4>2
    <3>8. CASE q # p
      <4>1. q \in DOMAIN M /\ Len(M[q]) = d
        BY <1>7, <3>4, <3>5, <3>8
      <4>2. CASE Better(side, p, q)
        <5>1. s[q] = b + 1 /\ c <= b
          BY <1>5, <1>10, <3>4, <3>5, <3>8, <4>2
        <5>2. s[q] < k /\ k <= s[q] + d
          BY <1>3, <2>2, <3>1, <3>2, <3>6, <5>1
        <5> QED
          BY <3>2, <3>3, <4>1, <5>2
      <4>3. CASE ~Better(side, p, q)
        <5>1. s[q] = b /\ b + d <= c
          BY <1>5, <1>10, <3>4, <3>5, <3>8, <4>3
        <5>2. s[q] < k /\ k <= s[q] + d
          BY <1>3, <2>2, <3>1, <3>2, <3>6, <5>1
        <5> QED
          BY <3>2, <3>3, <4>1, <5>2
      <4> QED
        BY <4>2, <4>3
    <3> QED
      BY <3>7, <3>8
  <2> QED
    BY <2>1, <2>2
<1>15. ASSUME NEW x \in DOMAIN M, NEW y \in DOMAIN M, Better(side, x, y)
       PROVE  s[x] + Len(M[x]) <= s[y]
  <2>1. x \in Nat /\ y \in Nat
    BY <1>4, <1>5, <1>7
  <2>2. x # y
    BY <1>15, <2>1, BetterOrder
  <2>3. CASE x = p
    <3>1. y \in DOMAIN L /\ s[y] = start[y] + 1 /\ c <= start[y] /\ start[y] \in Nat
      BY <1>5, <1>7, <1>10, <1>15, <2>2, <2>3
    <3> QED
      BY <1>3, <1>7, <1>9, <1>10, <2>3, <3>1
  <2>4. CASE y = p
    <3>1. x \in DOMAIN L /\ x # p
      BY <1>7, <2>2, <2>4
    <3>2. ~Better(side, p, x)
      BY <1>15, <2>1, <2>4, BetterOrder
    <3>3. PICK b, d : b = start[x] /\ d = Len(L[x])
      OBVIOUS
    <3>4. s[x] = b /\ Len(M[x]) = d /\ b \in Nat /\ d \in Nat
      BY <1>5, <1>7, <1>10, <3>1, <3>2, <3>3
    <3>5. s[y] = a
      BY <1>10, <2>4
    <3>6. CASE p \in DOMAIN L
      <4>1. b + d <= a
        BY <1>8, <1>15, <2>4, <3>1, <3>3, <3>6 DEF Walk
      <4> QED
        BY <3>4, <3>5, <4>1
    <3>7. CASE p \notin DOMAIN L
      <4>1. b + d <= c /\ a = c
        BY <1>5, <1>8, <3>1, <3>2, <3>3, <3>7
      <4> QED
        BY <3>4, <3>5, <4>1
    <3> QED
      BY <3>6, <3>7
  <2>5. CASE x # p /\ y # p
    <3>1. x \in DOMAIN L /\ y \in DOMAIN L
      BY <1>7, <2>5
    <3>2. PICK b, d, f : b = start[x] /\ d = Len(L[x]) /\ f = start[y]
      OBVIOUS
    <3>3. b \in Nat /\ d \in Nat /\ f \in Nat /\ b + d <= f
      BY <1>5, <1>15, <3>1, <3>2 DEF Walk
    <3>4. /\ s[x] = (IF Better(side, p, x) THEN b + 1 ELSE b)
          /\ s[y] = (IF Better(side, p, y) THEN f + 1 ELSE f)
          /\ Len(M[x]) = d
      BY <1>7, <1>10, <2>5, <3>1, <3>2
    <3>5. Better(side, p, x) => Better(side, p, y)
      BY <1>4, <1>15, <2>1, BetterOrder
    <3> QED
      BY <3>3, <3>4, <3>5
  <2> QED
    BY <2>3, <2>4, <2>5
<1>16. Walk(side, M, G, s)
  BY <1>11, <1>12, <1>13, <1>14, <1>15, Zenon DEF Walk
<1> QED
  BY <1>16

\* The sequence r is the other one with e at its front.
Fronted(r, queue, e) ==
  /\ Len(r) = Len(queue)
  /\ r[1] = e
  /\ \A k \in 2..Len(queue) : r[k] = queue[k]

\* The front order of the best level exchanged for one at the same price.
LEMMA WalkFronted ==
  ASSUME OrderBookAssumption, NEW side, NEW L, NEW F, NEW start, Walk(side, L, F, start),
         NEW p, p \in DOMAIN L, start[p] = 0, NEW e, e.price = p,
         NEW M, DOMAIN M = DOMAIN L, \A q \in DOMAIN L : q # p => M[q] = L[q],
         M[p] \in Seq(Order), Fronted(M[p], L[p], e),
         NEW G, G \in Seq(Order), Fronted(G, F, e)
  PROVE  \E s : Walk(side, M, G, s)
<1>1. PICK n, w : n = Len(F) /\ w = Len(L[p])
  OBVIOUS
<1>2. n \in Nat /\ w \in Nat /\ w > 0 /\ w <= n
  <2>1. n \in Nat /\ w \in Nat
    BY <1>1, WalkParts
  <2>2. w > 0 /\ start[p] + w <= n
    BY <1>1 DEF Walk
  <2> QED
    BY <2>1, <2>2
<1>3. Len(G) = n /\ G[1] = e /\ \A k \in 2..n : G[k] = F[k]
  BY <1>1 DEF Fronted
<1>4. Len(M[p]) = w /\ M[p][1] = e /\ \A k \in 2..w : M[p][k] = L[p][k]
  BY <1>1 DEF Fronted
<1>5. ASSUME NEW q \in DOMAIN L
      PROVE  /\ start[q] \in Nat /\ Len(L[q]) \in Nat
             /\ q # p => start[q] > 0
             /\ Len(M[q]) = Len(L[q])
             /\ M[q] \in Seq(Order)
             /\ Len(L[q]) > 0
             /\ start[q] + Len(L[q]) <= n
  <2>1. start[q] \in Nat /\ Len(L[q]) \in Nat /\ q \in Nat /\ p \in Nat
    BY WalkParts
  <2>2. Len(L[q]) > 0 /\ start[q] + Len(L[q]) <= n /\ L[q] \in Seq(Order)
    BY <1>1 DEF Walk
  <2>3. ASSUME q # p PROVE start[q] > 0
    <3>1. Better(side, p, q) \/ Better(side, q, p)
      BY <2>1, <2>3, BetterOrder
    <3>2. w <= start[q] \/ start[q] + Len(L[q]) <= 0
      <4>1. start[p] + w <= start[q] \/ start[q] + Len(L[q]) <= start[p]
        BY <1>1, <3>1 DEF Walk
      <4> QED
        BY <1>2, <2>1, <4>1
    <3> QED
      BY <1>2, <2>1, <2>2, <3>2
  <2>4. Len(M[q]) = Len(L[q]) /\ M[q] \in Seq(Order)
    BY <1>1, <1>4, <2>2
  <2> QED
    BY <2>1, <2>2, <2>3, <2>4
<1>6. ASSUME NEW q \in DOMAIN L, NEW j \in 1..Len(L[q])
      PROVE  G[start[q] + j] = M[q][j] /\ M[q][j].price = q
  <2>1. F[start[q] + j] = L[q][j] /\ L[q][j].price = q
    BY DEF Walk
  <2>2. CASE q = p
    <3>1. start[q] + j = j /\ j \in 1..w
      BY <1>1, <2>2
    <3>2. CASE j = 1
      BY <1>3, <1>4, <2>2, <3>1, <3>2
    <3>3. CASE j # 1
      <4>1. j \in 2..w /\ j \in 2..n
        BY <1>2, <3>1, <3>3
      <4>2. G[j] = F[j] /\ M[p][j] = L[p][j]
        BY <1>3, <1>4, <4>1
      <4> QED
        BY <2>1, <2>2, <3>1, <4>2
    <3> QED
      BY <3>2, <3>3
  <2>3. CASE q # p
    <3>1. PICK x : x = start[q] + j
      OBVIOUS
    <3>2. PICK b, d : b = start[q] /\ d = Len(L[q])
      OBVIOUS
    <3>3. b \in Nat /\ b > 0 /\ d \in Nat /\ b + d <= n
      BY <1>5, <2>3, <3>2
    <3>4. x \in 2..n
      BY <1>2, <3>1, <3>2, <3>3
    <3>5. G[x] = F[x] /\ M[q] = L[q]
      BY <1>3, <2>3, <3>4
    <3> QED
      BY <2>1, <3>1, <3>5
  <2> QED
    BY <2>2, <2>3
<1>7. ASSUME NEW k \in 1..n
      PROVE  G[k].price = F[k].price
  <2>1. CASE k = 1
    <3>1. 1 \in 1..Len(L[p]) /\ start[p] + 1 = 1
      BY <1>1, <1>2
    <3>2. F[start[p] + 1] = L[p][1] /\ L[p][1].price = p
      BY <3>1 DEF Walk
    <3> QED
      BY <1>3, <2>1, <3>1, <3>2
  <2>2. CASE k # 1
    <3>1. k \in 2..n
      BY <1>2, <2>2
    <3> QED
      BY <1>3, <3>1
  <2> QED
    BY <2>1, <2>2
<1>8. /\ start \in [DOMAIN M -> Nat]
      /\ \A q \in DOMAIN M :
           /\ M[q] \in Seq(Order)
           /\ Len(M[q]) > 0
           /\ start[q] + Len(M[q]) <= Len(G)
  <2>1. start \in [DOMAIN M -> Nat]
    BY DEF Walk
  <2> QED
    BY <1>3, <1>5, <2>1
<1>9. /\ \A q \in DOMAIN M : \A i \in 1..Len(M[q]) : G[start[q] + i] = M[q][i]
      /\ \A q \in DOMAIN M : \A i \in 1..Len(M[q]) : M[q][i].price = q
  BY <1>5, <1>6
<1>10. ASSUME NEW k \in 1..Len(G)
       PROVE  /\ G[k].price \in DOMAIN M
              /\ start[G[k].price] < k
              /\ k <= start[G[k].price] + Len(M[G[k].price])
  <2>1. PICK q : q = F[k].price
    OBVIOUS
  <2>2. q \in DOMAIN L /\ start[q] < k /\ k <= start[q] + Len(L[q])
    BY <1>1, <1>3, <2>1 DEF Walk
  <2>3. G[k].price = q
    BY <1>3, <1>7, <2>1
  <2>4. Len(M[q]) = Len(L[q])
    BY <1>5, <2>2
  <2> QED
    BY <2>2, <2>3, <2>4
<1>11. \A x, y \in DOMAIN M : Better(side, x, y) => start[x] + Len(M[x]) <= start[y]
  <2>1. \A x, y \in DOMAIN L : Better(side, x, y) => start[x] + Len(L[x]) <= start[y]
    BY DEF Walk
  <2> QED
    BY <1>5, <2>1
<1>12. Walk(side, M, G, start)
  BY <1>8, <1>9, <1>10, <1>11, Zenon DEF Walk
<1> QED
  BY <1>12

\* The sequence r is the first n of the other one.
Prefix(r, queue, n) ==
  /\ n \in 0..Len(queue)
  /\ Len(r) = n
  /\ \A k \in 1..n : r[k] = queue[k]

\* What SubSeq does from the first position.
LEMMA SubSeqPrefix ==
  ASSUME NEW S, NEW queue \in Seq(S), NEW n \in 0..Len(queue)
  PROVE  SubSeq(queue, 1, n) \in Seq(S) /\ Prefix(SubSeq(queue, 1, n), queue, n)
<1>1. Len(queue) \in Nat /\ \A k \in 1..n : queue[k] \in S
  OBVIOUS
<1>2. PICK r : r = SubSeq(queue, 1, n)
  OBVIOUS
<1>3. /\ r \in Seq(S)
      /\ Len(r) = IF 1 <= n THEN n - 1 + 1 ELSE 0
      /\ \A i \in 1..(n - 1 + 1) : r[i] = queue[1 + i - 1]
  <2>1. 1 \in Int /\ n \in Int
    BY <1>1
  <2> QED
    BY <1>1, <1>2, <2>1, SubSeqProperties
<1>4. r \in Seq(S) /\ Len(r) = n /\ \A k \in 1..n : r[k] = queue[k]
  BY <1>1, <1>3
<1> QED
  BY <1>2, <1>4 DEF Prefix

\* The worst level dropped from the tree cuts its orders off the walk.
LEMMA WalkDropped ==
  ASSUME OrderBookAssumption, NEW side, NEW L, NEW F, NEW start, Walk(side, L, F, start),
         NEW p, p \in DOMAIN L, \A q \in DOMAIN L \ {p} : start[q] + Len(L[q]) <= start[p],
         NEW G, G \in Seq(Order), Prefix(G, F, start[p]),
         NEW M, DOMAIN M = DOMAIN L \ {p}, \A q \in DOMAIN M : M[q] = L[q]
  PROVE  \E s : Walk(side, M, G, s)
<1>1. PICK a, s : a = start[p] /\ s = [q \in DOMAIN M |-> start[q]]
  OBVIOUS
<1>2. DOMAIN M \subseteq DOMAIN L /\ p \notin DOMAIN M
  OBVIOUS
<1>3. /\ a \in Nat /\ a <= Len(F) /\ Len(F) \in Nat
      /\ Len(G) = a /\ \A k \in 1..a : G[k] = F[k]
  <2>1. a \in Nat /\ Len(F) \in Nat
    BY <1>1, WalkParts
  <2>2. a \in 0..Len(F) /\ Len(G) = a /\ \A k \in 1..a : G[k] = F[k]
    BY <1>1, Zenon DEF Prefix
  <2> QED
    BY <2>1, <2>2
<1>4. ASSUME NEW q \in DOMAIN M
      PROVE  /\ s[q] = start[q] /\ M[q] = L[q] /\ M[q] \in Seq(Order)
             /\ s[q] \in Nat /\ Len(M[q]) \in Nat /\ Len(M[q]) > 0
             /\ s[q] + Len(M[q]) <= a
  <2>1. s[q] = start[q] /\ M[q] = L[q] /\ q \in DOMAIN L
    BY <1>1, <1>2
  <2>2. start[q] \in Nat /\ Len(L[q]) \in Nat
    BY <2>1, WalkParts
  <2>3. Len(L[q]) > 0 /\ L[q] \in Seq(Order)
    BY <2>1 DEF Walk
  <2>4. start[q] + Len(L[q]) <= a
    BY <1>1, <1>2, <2>1
  <2> QED
    BY <2>1, <2>2, <2>3, <2>4
<1>5. ASSUME NEW q \in DOMAIN M, NEW j \in 1..Len(M[q])
      PROVE  G[s[q] + j] = M[q][j] /\ M[q][j].price = q
  <2>1. F[start[q] + j] = L[q][j] /\ L[q][j].price = q
    BY <1>2, <1>4 DEF Walk
  <2>2. PICK b, d : b = s[q] /\ d = Len(M[q])
    OBVIOUS
  <2>3. b + j \in 1..a
    BY <1>3, <1>4, <2>2
  <2>4. G[b + j] = F[b + j]
    BY <1>3, <2>3
  <2> QED
    BY <1>4, <2>1, <2>2, <2>4
<1>6. ASSUME NEW k \in 1..Len(G)
      PROVE  /\ G[k].price \in DOMAIN M
             /\ s[G[k].price] < k
             /\ k <= s[G[k].price] + Len(M[G[k].price])
  <2>1. k \in 1..a /\ k \in 1..Len(F) /\ G[k] = F[k]
    BY <1>3
  <2>2. PICK q : q = F[k].price
    OBVIOUS
  <2>3. q \in DOMAIN L /\ start[q] < k /\ k <= start[q] + Len(L[q])
    BY <2>1, <2>2 DEF Walk
  <2>4. q # p
    BY <1>1, <1>3, <2>1, <2>3
  <2>5. q \in DOMAIN M
    BY <2>3, <2>4
  <2> QED
    BY <1>4, <2>1, <2>2, <2>3, <2>5
<1>7. ASSUME NEW x \in DOMAIN M, NEW y \in DOMAIN M, Better(side, x, y)
      PROVE  s[x] + Len(M[x]) <= s[y]
  <2>1. start[x] + Len(L[x]) <= start[y]
    BY <1>2, <1>7 DEF Walk
  <2> QED
    BY <1>4, <2>1
<1>8. s \in [DOMAIN M -> Nat]
  BY <1>1, <1>4
<1>9. \A q \in DOMAIN M : s[q] + Len(M[q]) <= Len(G)
  BY <1>3, <1>4
<1>10. Walk(side, M, G, s)
  BY <1>4, <1>5, <1>6, <1>7, <1>8, <1>9, Zenon DEF Walk
<1> QED
  BY <1>10
-----------------------------------------------------------------------------

\* The quantities of a list, and their sum.
Amounts(F) == [k \in 1..Len(F) |-> F[k].remaining]
Volume(F) == Total(Amounts(F))

\* The quantities of a list are natural, and so is their sum.
LEMMA VolumeType ==
  ASSUME NEW F, F \in Seq(Order)
  PROVE  /\ Len(F) \in Nat /\ DOMAIN F = 1..Len(F) /\ IsFiniteSet(1..Len(F))
         /\ Amounts(F) \in [1..Len(F) -> Nat]
         /\ Volume(F) \in Nat
<1>1. Len(F) \in Nat /\ DOMAIN F = 1..Len(F)
  OBVIOUS
<1>2. IsFiniteSet(1..Len(F))
  BY <1>1, FS_Interval
<1>3. \A k \in 1..Len(F) : F[k].remaining \in Nat
  <2> SUFFICES ASSUME NEW k \in 1..Len(F) PROVE F[k].remaining \in Nat
    OBVIOUS
  <2>1. F[k] \in Order
    OBVIOUS
  <2> QED
    BY <2>1 DEF Order
<1>4. Amounts(F) \in [1..Len(F) -> Nat]
  BY <1>3 DEF Amounts
<1>5. Volume(F) \in Nat
  BY <1>2, <1>4, UnitsFinite DEF Volume
<1> QED
  BY <1>1, <1>2, <1>4, <1>5

\* An order taken out of a list takes its quantity with it.
LEMMA VolumeRemoved ==
  ASSUME NEW F, F \in Seq(Order), NEW G, G \in Seq(Order), NEW at, Removed(G, F, at)
  PROVE  Volume(F) = Volume(G) + F[at].remaining
<1>1. PICK n : n = Len(F)
  OBVIOUS
<1>2. /\ at \in 1..n /\ Len(G) = n - 1 /\ n \in Nat
      /\ \A k \in 1..(n - 1) : G[k] = IF k < at THEN F[k] ELSE F[k + 1]
  <2>1. /\ at \in 1..n /\ Len(G) = n - 1
        /\ \A k \in 1..(n - 1) : G[k] = IF k < at THEN F[k] ELSE F[k + 1]
    BY <1>1, Zenon DEF Removed
  <2> QED
    BY <1>1, <2>1, VolumeType
<1>3. PICK f, g : f = Amounts(F) /\ g = Amounts(G)
  OBVIOUS
<1>4. /\ f \in [1..n -> Nat] /\ IsFiniteSet(1..n) /\ \A k \in 1..n : f[k] = F[k].remaining
      /\ g \in [1..(n - 1) -> Nat] /\ IsFiniteSet(1..(n - 1))
      /\ \A k \in 1..(n - 1) : g[k] = G[k].remaining
  <2>1. f \in [1..n -> Nat] /\ IsFiniteSet(1..n)
    BY <1>1, <1>3, VolumeType
  <2>2. g \in [1..(n - 1) -> Nat] /\ IsFiniteSet(1..(n - 1))
    <3>1. g \in [1..Len(G) -> Nat] /\ IsFiniteSet(1..Len(G))
      BY <1>3, VolumeType
    <3> QED
      BY <1>2, <3>1
  <2>3. \A k \in 1..n : f[k] = F[k].remaining
    BY <1>1, <1>3 DEF Amounts
  <2>4. \A k \in 1..(n - 1) : g[k] = G[k].remaining
    BY <1>2, <1>3 DEF Amounts
  <2> QED
    BY <2>1, <2>2, <2>3, <2>4
<1>5. PICK h : h = [v \in (1..n) \ {at} |-> f[v]]
  OBVIOUS
<1>6. Total(f) = Total(h) + f[at]
  BY <1>2, <1>4, <1>5, TotalRemove
<1>7. PICK b : b = [k \in 1..(n - 1) |-> IF k < at THEN k ELSE k + 1]
  OBVIOUS
<1>8. b \in Bijection(1..(n - 1), (1..n) \ {at})
  <2>1. b \in [1..(n - 1) -> (1..n) \ {at}]
    BY <1>2, <1>7
  <2>2. \A x, y \in 1..(n - 1) : b[x] = b[y] => x = y
    BY <1>2, <1>7
  <2>3. ASSUME NEW y \in (1..n) \ {at}
        PROVE  \E x \in 1..(n - 1) : b[x] = y
    <3>1. CASE y < at
      <4>1. y \in 1..(n - 1) /\ b[y] = y
        BY <1>2, <1>7, <3>1
      <4> QED
        BY <4>1
    <3>2. CASE ~(y < at)
      <4>1. y - 1 \in 1..(n - 1) /\ b[y - 1] = y
        BY <1>2, <1>7, <3>2
      <4> QED
        BY <4>1
    <3> QED
      BY <3>1, <3>2
  <2> QED
    BY <2>1, <2>2, <2>3 DEF Bijection, Injection, IsInjective, Surjection
<1>9. h \in [(1..n) \ {at} -> Nat]
  BY <1>4, <1>5
<1>10. ASSUME NEW k \in 1..(n - 1) PROVE g[k] = h[b[k]]
  <2>1. b[k] \in (1..n) \ {at} /\ b[k] = IF k < at THEN k ELSE k + 1
    BY <1>2, <1>7
  <2>2. h[b[k]] = F[b[k]].remaining
    BY <1>4, <1>5, <2>1
  <2>3. G[k] = F[b[k]]
    BY <1>2, <2>1
  <2> QED
    BY <1>4, <2>2, <2>3
<1>11. Total(g) = Total(h)
  <2>1. PICK A, B : A = 1..(n - 1) /\ B = (1..n) \ {at}
    OBVIOUS
  <2>2. /\ IsFiniteSet(A) /\ b \in Bijection(A, B) /\ g \in [A -> Nat] /\ h \in [B -> Nat]
        /\ \A k \in A : g[k] = h[b[k]]
    BY <1>4, <1>8, <1>9, <1>10, <2>1
  <2> QED
    BY <2>2, TotalReindex
<1>12. f[at] = F[at].remaining
  BY <1>2, <1>4
<1> QED
  BY <1>3, <1>6, <1>11, <1>12 DEF Volume

\* An order put in a list brings its quantity with it.
LEMMA VolumeInserted ==
  ASSUME NEW F, F \in Seq(Order), NEW G, G \in Seq(Order), NEW e, NEW at, Inserted(G, F, e, at)
  PROVE  Volume(G) = Volume(F) + e.remaining
<1>1. PICK n : n = Len(F)
  OBVIOUS
<1>2. /\ at \in 1..(n + 1) /\ Len(G) = n + 1 /\ n \in Nat
      /\ \A k \in 1..(n + 1) : G[k] = IF k < at THEN F[k] ELSE IF k = at THEN e ELSE F[k - 1]
  <2>1. /\ at \in 1..(n + 1) /\ Len(G) = n + 1
        /\ \A k \in 1..(n + 1) : G[k] = IF k < at THEN F[k] ELSE IF k = at THEN e ELSE F[k - 1]
    BY <1>1, Zenon DEF Inserted
  <2> QED
    BY <1>1, <2>1, VolumeType
<1>3. ASSUME NEW k \in 1..n
      PROVE  F[k] = IF k < at THEN G[k] ELSE G[k + 1]
  <2>1. CASE k < at
    <3>1. k \in 1..(n + 1)
      BY <1>2
    <3> QED
      BY <1>2, <2>1, <3>1
  <2>2. CASE ~(k < at)
    <3>1. k + 1 \in 1..(n + 1) /\ ~(k + 1 < at) /\ k + 1 # at /\ k + 1 - 1 = k
      BY <1>2, <2>2
    <3> QED
      BY <1>2, <2>2, <3>1
  <2> QED
    BY <2>1, <2>2
<1>4. Removed(F, G, at)
  <2>1. Len(G) - 1 = n /\ Len(F) = n /\ at \in 1..Len(G)
    BY <1>1, <1>2
  <2> QED
    BY <1>3, <2>1 DEF Removed
<1>5. G[at] = e
  BY <1>2
<1> QED
  BY <1>4, <1>5, VolumeRemoved

\* The front order exchanged for another.
LEMMA VolumeFronted ==
  ASSUME NEW F, F \in Seq(Order), Len(F) > 0, NEW G, G \in Seq(Order), NEW e, Fronted(G, F, e)
  PROVE  Volume(G) + F[1].remaining = Volume(F) + e.remaining
<1>1. PICK n, f, g : n = Len(F) /\ f = Amounts(F) /\ g = Amounts(G)
  OBVIOUS
<1>2. Len(G) = n /\ G[1] = e /\ (\A k \in 2..n : G[k] = F[k]) /\ n \in Nat /\ 1 \in 1..n
  BY <1>1, VolumeType DEF Fronted
<1>3. f \in [1..n -> Nat] /\ g \in [1..n -> Nat] /\ IsFiniteSet(1..n)
  <2>1. f \in [1..n -> Nat] /\ IsFiniteSet(1..n)
    BY <1>1, VolumeType
  <2>2. g \in [1..Len(G) -> Nat]
    BY <1>1, VolumeType
  <2> QED
    BY <1>2, <2>1, <2>2
<1>4. \A k \in 1..n : f[k] = F[k].remaining /\ g[k] = G[k].remaining
  BY <1>1, <1>2 DEF Amounts
<1>5. \A k \in (1..n) \ {1} : g[k] = f[k]
  <2> SUFFICES ASSUME NEW k \in (1..n) \ {1} PROVE g[k] = f[k]
    OBVIOUS
  <2>1. k \in 2..n /\ k \in 1..n
    OBVIOUS
  <2> QED
    BY <1>2, <1>4, <2>1
<1>6. Total(g) + f[1] = Total(f) + g[1]
  <2>1. PICK S, u : S = 1..n /\ u = 1
    OBVIOUS
  <2>2. /\ IsFiniteSet(S) /\ f \in [S -> Nat] /\ g \in [S -> Nat] /\ u \in S
        /\ \A v \in S \ {u} : g[v] = f[v]
    BY <1>2, <1>3, <1>5, <2>1
  <2>3. Total(g) + f[u] = Total(f) + g[u]
    BY <2>2, TotalUpdate
  <2> QED
    BY <2>1, <2>3
<1> QED
  BY <1>1, <1>2, <1>4, <1>6 DEF Volume

\* The queue r is the other one from behind position n on.
Suffix(r, queue, n) ==
  /\ n \in 0..Len(queue)
  /\ Len(r) = Len(queue) - n
  /\ \A k \in 1..(Len(queue) - n) : r[k] = queue[n + k]

\* A list cut in two.
LEMMA VolumeCut ==
  ASSUME NEW F, F \in Seq(Order), NEW G, G \in Seq(Order), NEW a, Prefix(G, F, a),
         NEW Q, Q \in Seq(Order), Suffix(Q, F, a)
  PROVE  Volume(F) = Volume(G) + Volume(Q)
<1>0. Len(Q) = Len(F) - a /\ \A i \in 1..Len(Q) : Q[i] = F[a + i]
  BY DEF Suffix
<1>1. PICK n, m, f, g, h : /\ n = Len(F) /\ m = Len(Q)
                           /\ f = Amounts(F) /\ g = Amounts(G) /\ h = Amounts(Q)
  OBVIOUS
<1>2. n \in Nat /\ m \in Nat /\ a \in 0..n /\ m = n - a
  BY <1>0, <1>1, VolumeType DEF Prefix
<1>3. Len(G) = a /\ \A k \in 1..a : G[k] = F[k]
  BY DEF Prefix
<1>4. f \in [1..n -> Nat] /\ g \in [1..a -> Nat] /\ h \in [1..m -> Nat] /\ IsFiniteSet(1..n)
  <2>1. f \in [1..n -> Nat] /\ IsFiniteSet(1..n) /\ h \in [1..m -> Nat]
    BY <1>1, VolumeType
  <2>2. g \in [1..Len(G) -> Nat]
    BY <1>1, VolumeType
  <2> QED
    BY <1>3, <2>1, <2>2
<1>5. /\ \A k \in 1..n : f[k] = F[k].remaining
      /\ \A k \in 1..a : g[k] = G[k].remaining
      /\ \A k \in 1..m : h[k] = Q[k].remaining
  BY <1>1, <1>3 DEF Amounts
<1>6. PICK r : r = [u \in (1..n) \ (1..a) |-> f[u]]
  OBVIOUS
<1>7. 1..a \in SUBSET (1..n)
  BY <1>2
<1>8. Total(f) = Total([u \in 1..a |-> f[u]]) + Total(r)
  <2>1. PICK S, A : S = 1..n /\ A = 1..a
    OBVIOUS
  <2>2. IsFiniteSet(S) /\ f \in [S -> Nat] /\ A \in SUBSET S
    BY <1>4, <1>7, <2>1
  <2>3. Total(f) = Total([u \in A |-> f[u]]) + Total([u \in S \ A |-> f[u]])
    BY <2>2, TotalParts
  <2> QED
    BY <1>6, <2>1, <2>3, Zenon
<1>9. [u \in 1..a |-> f[u]] = g
  <2>1. \A u \in 1..a : f[u] = g[u]
    BY <1>3, <1>5, <1>7
  <2> QED
    BY <1>4, <2>1
<1>10. PICK b : b = [k \in 1..m |-> a + k]
  OBVIOUS
<1>11. b \in Bijection(1..m, (1..n) \ (1..a))
  <2>1. b \in [1..m -> (1..n) \ (1..a)]
    BY <1>2, <1>10
  <2>2. \A x, y \in 1..m : b[x] = b[y] => x = y
    BY <1>2, <1>10
  <2>3. ASSUME NEW y \in (1..n) \ (1..a)
        PROVE  \E x \in 1..m : b[x] = y
    <3>1. y - a \in 1..m /\ b[y - a] = y
      BY <1>2, <1>10
    <3> QED
      BY <3>1
  <2> QED
    BY <2>1, <2>2, <2>3 DEF Bijection, Injection, IsInjective, Surjection
<1>12. r \in [(1..n) \ (1..a) -> Nat]
  BY <1>4, <1>6
<1>13. ASSUME NEW k \in 1..m PROVE h[k] = r[b[k]]
  <2>1. b[k] \in (1..n) \ (1..a) /\ b[k] = a + k
    BY <1>2, <1>10
  <2>2. r[b[k]] = F[a + k].remaining
    BY <1>5, <1>6, <2>1
  <2>3. Q[k] = F[a + k]
    BY <1>0, <1>1
  <2> QED
    BY <1>5, <2>2, <2>3
<1>14. IsFiniteSet(1..m)
  BY <1>1, VolumeType
<1>15. Total(h) = Total(r)
  <2>1. PICK A, B : A = 1..m /\ B = (1..n) \ (1..a)
    OBVIOUS
  <2>2. IsFiniteSet(A) /\ b \in Bijection(A, B)
    BY <1>11, <1>14, <2>1
  <2>3. h \in [A -> Nat] /\ r \in [B -> Nat]
    BY <1>4, <1>12, <2>1
  <2>4. h = [k \in A |-> r[b[k]]]
    BY <1>13, <2>1, <2>3
  <2> QED
    BY <2>2, <2>3, <2>4, TotalThrough, SMTT(30)
<1> QED
  BY <1>1, <1>8, <1>9, <1>15 DEF Volume
-----------------------------------------------------------------------------

\* The IDs on a list, and whether no two orders on it have the same.
IdsOf(F) == {F[k].id : k \in 1..Len(F)}
Unique(F) == \A i, j \in 1..Len(F) : F[i].id = F[j].id => i = j

\* What makes a side one list of orders: its tree has them as levels, no two
\* have the same ID, the map has the price of each, and the aggregates are
\* theirs.
Lists(side, s, F) ==
  /\ s = [levels |-> s.levels, orders |-> s.orders, volume |-> s.volume, count |-> s.count]
  /\ \E start : Walk(side, s.levels, F, start)
  /\ Unique(F)
  /\ DOMAIN s.orders = IdsOf(F)
  /\ \A k \in 1..Len(F) : s.orders[F[k].id] = F[k].price
  /\ s.volume = Volume(F)
  /\ s.count = Len(F)

\* A new side lists no orders.
LEMMA ListsNew ==
  ASSUME OrderBookAssumption, NEW side
  PROVE  Lists(side, NewOrderSide, <<>>)
<1>1. PICK s : s = NewOrderSide
  OBVIOUS
<1>2. /\ s = [levels |-> s.levels, orders |-> s.orders, volume |-> s.volume, count |-> s.count]
      /\ s.levels = <<>> /\ s.orders = <<>> /\ s.volume = 0 /\ s.count = 0
  BY <1>1 DEF NewOrderSide
<1>3. <<>> \in Seq(Order) /\ Len(<<>>) = 0 /\ DOMAIN <<>> = {} /\ 1..0 = {}
  BY EmptySeq
<1>4. PICK start : start = [p \in {} |-> 0]
  OBVIOUS
<1>5. Walk(side, <<>>, <<>>, start)
  BY <1>3, <1>4 DEF Walk
<1>6. Volume(<<>>) = 0
  <2>1. DOMAIN Amounts(<<>>) = {}
    BY <1>3 DEF Amounts
  <2> QED
    BY <2>1, TotalEmpty DEF Volume
<1>7. Lists(side, s, <<>>)
  BY <1>2, <1>3, <1>5, <1>6 DEF Lists, Unique, IdsOf
<1> QED
  BY <1>1, <1>7

\* The parts of a list that follow from its type.
LEMMA ListParts ==
  ASSUME OrderBookAssumption, NEW side, NEW s, NEW F, Lists(side, s, F)
  PROVE  /\ F \in Seq(Order) /\ Len(F) \in Nat /\ DOMAIN F = 1..Len(F)
         /\ s.volume \in Nat /\ s.count \in Nat
         /\ DOMAIN s.levels \subseteq Prices
         /\ \A p \in DOMAIN s.levels : s.levels[p] \in Seq(Order)
         /\ \A k \in 1..Len(F) : /\ F[k] \in Order
                                 /\ F[k].price \in DOMAIN s.levels /\ F[k].price \in Nat
                                 /\ F[k].remaining \in Nat \ {0}
                                 /\ F[k].id \in Nat /\ F[k].id \in DOMAIN s.orders
<1>1. PICK start : Walk(side, s.levels, F, start)
  BY DEF Lists
<1>2. F \in Seq(Order) /\ \A p \in DOMAIN s.levels : s.levels[p] \in Seq(Order)
  BY <1>1 DEF Walk
<1>3. Len(F) \in Nat /\ DOMAIN F = 1..Len(F) /\ Volume(F) \in Nat
  BY <1>2, VolumeType
<1>4. s.volume \in Nat /\ s.count \in Nat
  BY <1>3 DEF Lists
<1>5. DOMAIN s.levels \subseteq Prices
  BY <1>1, WalkParts
<1>6. \A k \in 1..Len(F) : F[k].price \in DOMAIN s.levels
  BY <1>1 DEF Walk
<1>7. \A k \in 1..Len(F) : /\ F[k] \in Order
                           /\ F[k].price \in Nat
                           /\ F[k].remaining \in Nat \ {0}
                           /\ F[k].id \in Nat
  BY <1>1, WalkParts
<1>8. \A k \in 1..Len(F) : F[k].id \in DOMAIN s.orders
  BY DEF Lists, IdsOf
<1> QED
  BY <1>2, <1>3, <1>4, <1>5, <1>6, <1>7, <1>8

\* A list without one of its orders has its IDs less one.
LEMMA IdsRemoved ==
  ASSUME NEW F, F \in Seq(Order), Unique(F), NEW G, NEW at, Removed(G, F, at)
  PROVE  /\ Unique(G)
         /\ IdsOf(G) = IdsOf(F) \ {F[at].id}
         /\ \A k \in 1..Len(G) : \E l \in 1..Len(F) : l # at /\ G[k] = F[l]
<1>1. PICK n : n = Len(F)
  OBVIOUS
<1>2. /\ at \in 1..n /\ Len(G) = n - 1 /\ n \in Nat
      /\ \A k \in 1..(n - 1) : G[k] = IF k < at THEN F[k] ELSE F[k + 1]
  <2>1. /\ at \in 1..n /\ Len(G) = n - 1
        /\ \A k \in 1..(n - 1) : G[k] = IF k < at THEN F[k] ELSE F[k + 1]
    BY <1>1, Zenon DEF Removed
  <2> QED
    BY <1>1, <2>1, VolumeType
<1>3. PICK b : b = [k \in 1..(n - 1) |-> IF k < at THEN k ELSE k + 1]
  OBVIOUS
<1>4. /\ \A k \in 1..(n - 1) : b[k] \in (1..n) \ {at} /\ G[k] = F[b[k]]
      /\ \A x, y \in 1..(n - 1) : b[x] = b[y] => x = y
      /\ \A y \in (1..n) \ {at} : \E x \in 1..(n - 1) : b[x] = y
  <2>1. \A k \in 1..(n - 1) : b[k] \in (1..n) \ {at}
    BY <1>2, <1>3
  <2>2. \A k \in 1..(n - 1) : G[k] = F[b[k]]
    BY <1>2, <1>3
  <2>3. \A x, y \in 1..(n - 1) : b[x] = b[y] => x = y
    BY <1>2, <1>3
  <2>4. ASSUME NEW y \in (1..n) \ {at}
        PROVE  \E x \in 1..(n - 1) : b[x] = y
    <3>1. CASE y < at
      <4>1. y \in 1..(n - 1) /\ b[y] = y
        BY <1>2, <1>3, <3>1
      <4> QED
        BY <4>1
    <3>2. CASE ~(y < at)
      <4>1. y - 1 \in 1..(n - 1) /\ b[y - 1] = y
        BY <1>2, <1>3, <3>2
      <4> QED
        BY <4>1
    <3> QED
      BY <3>1, <3>2
  <2> QED
    BY <2>1, <2>2, <2>3, <2>4
<1>5. \A i, j \in 1..n : F[i].id = F[j].id => i = j
  BY <1>1 DEF Unique
<1>6. ASSUME NEW i \in 1..(n - 1), NEW j \in 1..(n - 1), G[i].id = G[j].id
      PROVE  i = j
  <2>1. b[i] \in 1..n /\ b[j] \in 1..n /\ F[b[i]].id = F[b[j]].id
    BY <1>4, <1>6
  <2> QED
    BY <1>4, <1>5, <2>1
<1>7. ASSUME NEW x \in IdsOf(G)
      PROVE  x \in IdsOf(F) \ {F[at].id}
  <2>1. PICK k \in 1..(n - 1) : x = G[k].id
    BY <1>2 DEF IdsOf
  <2>2. b[k] \in 1..n /\ b[k] # at /\ x = F[b[k]].id
    BY <1>4, <2>1
  <2>3. x # F[at].id
    BY <1>2, <1>5, <2>2
  <2> QED
    BY <1>1, <2>2, <2>3 DEF IdsOf
<1>8. ASSUME NEW x \in IdsOf(F) \ {F[at].id}
      PROVE  x \in IdsOf(G)
  <2>1. PICK k \in 1..n : x = F[k].id
    BY <1>1 DEF IdsOf
  <2>2. k \in (1..n) \ {at}
    BY <2>1
  <2>3. PICK l \in 1..(n - 1) : b[l] = k
    BY <1>4, <2>2
  <2>4. x = G[l].id
    BY <1>4, <2>1, <2>3
  <2> QED
    BY <1>2, <2>4 DEF IdsOf
<1>9. \A k \in 1..(n - 1) : \E l \in 1..n : l # at /\ G[k] = F[l]
  BY <1>4
<1>10. IdsOf(G) = IdsOf(F) \ {F[at].id}
  BY <1>7, <1>8, Zenon
<1>11. Unique(G)
  BY <1>2, <1>6 DEF Unique
<1> QED
  BY <1>1, <1>2, <1>9, <1>10, <1>11

\* An order taken out of its level, the map and the aggregates is taken out of
\* the list.
LEMMA ListsWithout ==
  ASSUME OrderBookAssumption, NEW side, NEW s, NEW F, Lists(side, s, F),
         NEW k, k \in 1..Len(F), NEW p, p \in DOMAIN s.levels, NEW i, i \in 1..Len(s.levels[p]),
         s.levels[p][i] = F[k], NEW Q, Q \in Seq(Order), Removed(Q, s.levels[p], i),
         NEW G, G \in Seq(Order), Removed(G, F, k)
  PROVE  Lists(side, [levels |-> SetQueue(s.levels, p, Q),
                      orders |-> Drop(s.orders, {F[k].id}),
                      volume |-> s.volume - F[k].remaining,
                      count  |-> s.count - 1], G)
<1>1. PICK start : Walk(side, s.levels, F, start)
  BY DEF Lists
<1>2. start[p] + i = k
  <2>1. PICK at : at = start[p] + i
    OBVIOUS
  <2>2. at \in 1..Len(F)
    <3>1. start[p] \in Nat /\ Len(s.levels[p]) \in Nat /\ Len(F) \in Nat
      BY <1>1, WalkParts
    <3>2. start[p] + Len(s.levels[p]) <= Len(F)
      BY <1>1 DEF Walk
    <3> QED
      BY <2>1, <3>1, <3>2
  <2>3. F[at] = F[k]
    BY <1>1, <2>1 DEF Walk
  <2> QED
    BY <2>1, <2>2, <2>3 DEF Lists, Unique
<1>3. PICK L, t : /\ L = SetQueue(s.levels, p, Q)
                  /\ t = [levels |-> L,
                          orders |-> Drop(s.orders, {F[k].id}),
                          volume |-> s.volume - F[k].remaining,
                          count  |-> s.count - 1]
  OBVIOUS
<1>4. Removed(G, F, start[p] + i)
  BY <1>2
<1>5. \E x : Walk(side, L, G, x)
  BY <1>1, <1>3, <1>4, WalkWithout
<1>6. /\ Unique(G)
      /\ IdsOf(G) = IdsOf(F) \ {F[k].id}
      /\ \A j \in 1..Len(G) : \E l \in 1..Len(F) : l # k /\ G[j] = F[l]
  <2>1. F \in Seq(Order) /\ Unique(F)
    BY ListParts DEF Lists
  <2> QED
    BY <2>1, IdsRemoved
<1>7. DOMAIN t.orders = IdsOf(G) /\ \A x \in DOMAIN t.orders : t.orders[x] = s.orders[x]
  <2>1. t.orders = [x \in DOMAIN s.orders \ {F[k].id} |-> s.orders[x]]
    BY <1>3 DEF Drop
  <2>2. DOMAIN s.orders = IdsOf(F)
    BY DEF Lists
  <2> QED
    BY <1>6, <2>1, <2>2
<1>8. ASSUME NEW j \in 1..Len(G)
      PROVE  t.orders[G[j].id] = G[j].price
  <2>1. PICK l \in 1..Len(F) : G[j] = F[l]
    BY <1>6
  <2>2. s.orders[F[l].id] = F[l].price
    BY DEF Lists
  <2>3. G[j].id \in DOMAIN t.orders
    BY <1>7 DEF IdsOf
  <2> QED
    BY <1>7, <2>1, <2>2, <2>3
<1>9. t.volume = Volume(G)
  <2>1. F \in Seq(Order) /\ s.volume = Volume(F)
    BY ListParts DEF Lists
  <2>2. Volume(F) = Volume(G) + F[k].remaining /\ Volume(G) \in Nat
    BY <2>1, VolumeRemoved, VolumeType
  <2>3. F[k].remaining \in Nat
    BY ListParts
  <2>4. t.volume = s.volume - F[k].remaining
    BY <1>3
  <2> QED
    BY <2>1, <2>2, <2>3, <2>4
<1>10. t.count = Len(G)
  <2>1. Len(G) = Len(F) - 1
    BY DEF Removed
  <2>2. s.count = Len(F)
    BY DEF Lists
  <2> QED
    BY <1>3, <2>1, <2>2
<1>11. /\ t = [levels |-> t.levels, orders |-> t.orders, volume |-> t.volume, count |-> t.count]
       /\ t.levels = L
  BY <1>3
<1>12. Lists(side, t, G)
  BY <1>5, <1>6, <1>7, <1>8, <1>9, <1>10, <1>11 DEF Lists
<1> QED
  BY <1>3, <1>12

\* Adding an order puts it behind all that are at least as good.
LEMMA ListsWith ==
  ASSUME OrderBookAssumption, NEW side, NEW s, NEW F, Lists(side, s, F),
         NEW e, e \in Order, e.id \notin DOMAIN s.orders
  PROVE  Lists(side, Add(s, e), Rest(side, F, e))
<1>1. PICK start : Walk(side, s.levels, F, start)
  BY DEF Lists
<1>2. PICK G, at, L, t : /\ G = Rest(side, F, e) /\ at = PlaceOf(side, F, e)
                         /\ L = Put(s.levels, e.price, Append(Queue(s, e.price), e))
                         /\ t = Add(s, e)
  OBVIOUS
<1>3. F \in Seq(Order) /\ Len(F) \in Nat
  BY ListParts
<1>4. G \in Seq(Order) /\ Inserted(G, F, e, at)
  BY <1>2, <1>3, RestPlace
<1>5. Grown(L, s.levels, e.price, e)
  <2>1. \A p \in DOMAIN s.levels : s.levels[p] \in Seq(Order)
    BY ListParts
  <2> QED
    BY <1>2, <2>1, PutParts
<1>6. \E x : Walk(side, L, G, x)
  BY <1>1, <1>2, <1>4, <1>5, WalkWith
<1>7. PICK n : n = Len(F)
  OBVIOUS
<1>8. /\ at \in 1..(n + 1) /\ Len(G) = n + 1 /\ n \in Nat
      /\ \A k \in 1..(n + 1) : G[k] = IF k < at THEN F[k] ELSE IF k = at THEN e ELSE F[k - 1]
  <2>1. /\ at \in 1..(n + 1) /\ Len(G) = n + 1
        /\ \A k \in 1..(n + 1) : G[k] = IF k < at THEN F[k] ELSE IF k = at THEN e ELSE F[k - 1]
    BY <1>4, <1>7, Zenon DEF Inserted
  <2> QED
    BY <1>3, <1>7, <2>1
<1>9. PICK b : b = [k \in 1..(n + 1) |-> IF k < at THEN k ELSE k - 1]
  OBVIOUS
<1>10. \A k \in 1..(n + 1) : k # at => b[k] \in 1..n /\ G[k] = F[b[k]]
  BY <1>8, <1>9
<1>11. \A k \in 1..n : \E l \in 1..(n + 1) : l # at /\ G[l] = F[k]
  <2> SUFFICES ASSUME NEW k \in 1..n PROVE \E l \in 1..(n + 1) : l # at /\ G[l] = F[k]
    OBVIOUS
  <2>1. CASE k < at
    <3>1. k \in 1..(n + 1) /\ k # at /\ G[k] = F[k]
      BY <1>8, <2>1
    <3> QED
      BY <3>1
  <2>2. CASE ~(k < at)
    <3>1. k + 1 \in 1..(n + 1) /\ k + 1 # at /\ ~(k + 1 < at) /\ k + 1 - 1 = k
      BY <1>8, <2>2
    <3>2. G[k + 1] = F[k]
      BY <1>8, <3>1
    <3> QED
      BY <3>1, <3>2
  <2> QED
    BY <2>1, <2>2
<1>12. G[at] = e /\ at \in 1..(n + 1)
  BY <1>8
<1>13. IdsOf(G) = IdsOf(F) \cup {e.id}
  <2>1. ASSUME NEW x \in IdsOf(G) PROVE x \in IdsOf(F) \cup {e.id}
    <3>1. PICK k \in 1..(n + 1) : x = G[k].id
      BY <1>8 DEF IdsOf
    <3>2. CASE k = at
      BY <1>12, <3>1, <3>2
    <3>3. CASE k # at
      <4>1. b[k] \in 1..n /\ x = F[b[k]].id
        BY <1>10, <3>1, <3>3
      <4> QED
        BY <1>7, <4>1 DEF IdsOf
    <3> QED
      BY <3>2, <3>3
  <2>2. ASSUME NEW x \in IdsOf(F) PROVE x \in IdsOf(G)
    <3>1. PICK k \in 1..n : x = F[k].id
      BY <1>7 DEF IdsOf
    <3>2. PICK l \in 1..(n + 1) : G[l] = F[k]
      BY <1>11
    <3> QED
      BY <1>8, <3>1, <3>2 DEF IdsOf
  <2>3. e.id \in IdsOf(G)
    BY <1>8, <1>12 DEF IdsOf
  <2> QED
    BY <2>1, <2>2, <2>3
<1>14. Unique(G)
  <2>1. \A i, j \in 1..n : F[i].id = F[j].id => i = j
    BY <1>7 DEF Lists, Unique
  <2>2. \A k \in 1..n : F[k].id # e.id
    BY <1>7 DEF Lists, IdsOf
  <2>3. \A k \in 1..(n + 1) : k # at => G[k].id # e.id
    BY <1>10, <2>2
  <2>4. \A i, j \in 1..(n + 1) : i # at /\ j # at /\ b[i] = b[j] => i = j
    BY <1>8, <1>9
  <2>5. ASSUME NEW i \in 1..(n + 1), NEW j \in 1..(n + 1), G[i].id = G[j].id
        PROVE  i = j
    <3>1. CASE i = at \/ j = at
      BY <1>12, <2>3, <2>5, <3>1
    <3>2. CASE i # at /\ j # at
      <4>1. b[i] = b[j]
        BY <1>10, <2>1, <2>5, <3>2
      <4> QED
        BY <2>4, <3>2, <4>1
    <3> QED
      BY <3>1, <3>2
  <2> QED
    BY <1>8, <2>5 DEF Unique
<1>15. /\ t = [levels |-> t.levels, orders |-> t.orders, volume |-> t.volume, count |-> t.count]
       /\ t.levels = L /\ t.orders = Put(s.orders, e.id, e.price)
       /\ t.volume = s.volume + e.remaining /\ t.count = s.count + 1
  BY <1>2 DEF Add
<1>16. /\ DOMAIN t.orders = IdsOf(G) /\ t.orders[e.id] = e.price
       /\ \A x \in IdsOf(F) : t.orders[x] = s.orders[x]
  <2>1. t.orders = [x \in DOMAIN s.orders \cup {e.id} |-> IF x = e.id THEN e.price ELSE s.orders[x]]
    BY <1>15 DEF Put
  <2>2. DOMAIN s.orders = IdsOf(F)
    BY DEF Lists
  <2> QED
    BY <1>13, <2>1, <2>2
<1>17. ASSUME NEW k \in 1..Len(G)
       PROVE  t.orders[G[k].id] = G[k].price
  <2>1. CASE k = at
    BY <1>12, <1>16, <2>1
  <2>2. CASE k # at
    <3>1. b[k] \in 1..n /\ G[k] = F[b[k]]
      BY <1>8, <1>10, <2>2
    <3>2. s.orders[F[b[k]].id] = F[b[k]].price /\ F[b[k]].id \in IdsOf(F)
      BY <1>7, <3>1 DEF Lists, IdsOf
    <3> QED
      BY <1>16, <3>1, <3>2
  <2> QED
    BY <2>1, <2>2
<1>18. t.volume = Volume(G)
  <2>1. Volume(G) = Volume(F) + e.remaining
    BY <1>3, <1>4, VolumeInserted
  <2> QED
    BY <1>15, <2>1 DEF Lists
<1>19. t.count = Len(G)
  BY <1>7, <1>8, <1>15 DEF Lists
<1>20. Lists(side, t, G)
  BY <1>6, <1>14, <1>15, <1>16, <1>17, <1>18, <1>19 DEF Lists
<1> QED
  BY <1>2, <1>20
-----------------------------------------------------------------------------

\* Head and Tail of a queue that is not empty.
LEMMA TailParts ==
  ASSUME NEW S, NEW queue, queue \in Seq(S), Len(queue) > 0
  PROVE  /\ Tail(queue) \in Seq(S)
         /\ Removed(Tail(queue), queue, 1)
         /\ Head(queue) = queue[1]
<1>1. PICK r : r = Tail(queue)
  OBVIOUS
<1>2. queue # <<>> /\ Len(queue) \in Nat /\ Head(queue) = queue[1]
  OBVIOUS
<1>3. r \in Seq(S) /\ Len(r) = Len(queue) - 1 /\ \A i \in 1..Len(r) : r[i] = queue[i + 1]
  BY <1>1, <1>2, HeadTailProperties
<1>4. 1 \in 1..Len(queue)
  BY <1>2
<1>5. \A k \in 1..(Len(queue) - 1) : r[k] = IF k < 1 THEN queue[k] ELSE queue[k + 1]
  BY <1>2, <1>3
<1> QED
  BY <1>1, <1>2, <1>3, <1>4, <1>5 DEF Removed

\* RemoveOrder takes the order with an ID out of the list; GetOrder returns it.
LEMMA RemoveOrderLists ==
  ASSUME OrderBookAssumption, NEW side, NEW s, NEW F, Lists(side, s, F),
         NEW id, id \in DOMAIN s.orders
  PROVE  \E k \in 1..Len(F) : /\ F[k].id = id
                              /\ GetOrder(s, id) = F[k]
                              /\ Lists(side, RemoveOrder(s, id), RemoveAt(F, k))
                              /\ Removed(RemoveAt(F, k), F, k)
<1>1. PICK start : Walk(side, s.levels, F, start)
  BY DEF Lists
<1>2. PICK k \in 1..Len(F) : F[k].id = id
  BY DEF Lists, IdsOf
<1>3. PICK p, L, i, x : p = F[k].price /\ L = s.levels[p] /\ i = k - start[p] /\ x = Element(s, id)
  OBVIOUS
<1>4. p \in DOMAIN s.levels /\ s.orders[id] = p
  BY <1>2, <1>3, ListParts DEF Lists
<1>5. i \in 1..Len(L) /\ L[i] = F[k] /\ start[p] + i = k /\ L \in Seq(Order)
  <2>1. start[p] \in Nat /\ Len(L) \in Nat /\ k \in Nat
    BY <1>1, <1>3, <1>4, WalkParts
  <2>2. start[p] < k /\ k <= start[p] + Len(L)
    BY <1>1, <1>3 DEF Walk
  <2>3. i \in 1..Len(L) /\ start[p] + i = k
    BY <1>3, <2>1, <2>2
  <2>4. F[start[p] + i] = L[i] /\ L \in Seq(Order)
    BY <1>1, <1>3, <1>4, <2>3 DEF Walk
  <2> QED
    BY <2>3, <2>4
<1>6. x \in 1..Len(L) /\ L[x].id = id
  <2>1. DOMAIN L = 1..Len(L)
    BY <1>5
  <2>2. x = CHOOSE j \in DOMAIN L : L[j].id = id
    BY <1>3, <1>4 DEF Element
  <2>3. \E j \in DOMAIN L : L[j].id = id
    BY <1>2, <1>5, <2>1
  <2> QED
    BY <2>1, <2>2, <2>3
<1>7. L[x] = F[k]
  <2>1. PICK at : at = start[p] + x
    OBVIOUS
  <2>2. at \in 1..Len(F)
    <3>1. start[p] \in Nat /\ Len(L) \in Nat /\ Len(F) \in Nat
      BY <1>1, <1>3, <1>4, WalkParts
    <3>2. start[p] + Len(L) <= Len(F)
      BY <1>1, <1>3, <1>4 DEF Walk
    <3> QED
      BY <1>6, <2>1, <3>1, <3>2
  <2>3. F[at] = L[x]
    BY <1>1, <1>3, <1>4, <1>6, <2>1 DEF Walk
  <2>4. at = k
    BY <1>2, <1>6, <2>2, <2>3 DEF Lists, Unique
  <2> QED
    BY <2>3, <2>4
<1>8. GetOrder(s, id) = F[k]
  BY <1>3, <1>4, <1>7 DEF GetOrder
<1>9. PICK Q, G : Q = RemoveAt(L, x) /\ G = RemoveAt(F, k)
  OBVIOUS
<1>10. Q \in Seq(Order) /\ Removed(Q, L, x)
  BY <1>5, <1>6, <1>9, RemoveAtParts
<1>11. G \in Seq(Order) /\ Removed(G, F, k)
  <2>1. F \in Seq(Order)
    BY ListParts
  <2> QED
    BY <1>2, <1>9, <2>1, RemoveAtParts
<1>12. Lists(side, [levels |-> SetQueue(s.levels, p, Q),
                    orders |-> Drop(s.orders, {F[k].id}),
                    volume |-> s.volume - F[k].remaining,
                    count  |-> s.count - 1], G)
  BY <1>2, <1>3, <1>4, <1>6, <1>7, <1>10, <1>11, ListsWithout
<1>13. RemoveOrder(s, id) = [levels |-> SetQueue(s.levels, p, Q),
                             orders |-> Drop(s.orders, {F[k].id}),
                             volume |-> s.volume - F[k].remaining,
                             count  |-> s.count - 1]
  BY <1>2, <1>3, <1>4, <1>8, <1>9 DEF RemoveOrder
<1>14. Lists(side, RemoveOrder(s, id), RemoveAt(F, k)) /\ Removed(RemoveAt(F, k), F, k)
  BY <1>9, <1>11, <1>12, <1>13
<1> QED
  BY <1>2, <1>8, <1>14

\* The best and the worst price of a side are those of the first and the last
\* of the list.
LEMMA BestAndWorst ==
  ASSUME OrderBookAssumption, NEW side, NEW F, Lists(side, sides[side], F)
  PROVE  /\ DOMAIN sides[side].levels = {} <=> Len(F) = 0
         /\ Len(F) > 0 => /\ BestPrice(side) = F[1].price
                          /\ WorstPrice(side) = F[Len(F)].price
                          /\ Head(sides[side].levels[BestPrice(side)]) = F[1]
<1>1. PICK L : L = sides[side].levels
  OBVIOUS
<1>2. PICK start : Walk(side, L, F, start)
  BY <1>1 DEF Lists
<1>3. DOMAIN L = {} <=> Len(F) = 0
  BY <1>2, BestLevel
<1>4. ASSUME Len(F) > 0
      PROVE  /\ BestPrice(side) = F[1].price
             /\ WorstPrice(side) = F[Len(F)].price
             /\ Head(L[BestPrice(side)]) = F[1]
  <2>1. PICK best, worst : best = F[1].price /\ worst = F[Len(F)].price
    OBVIOUS
  <2>2. /\ best \in DOMAIN L /\ L[best][1] = F[1]
        /\ \A q \in DOMAIN L : ~Better(side, q, best)
        /\ \A p \in DOMAIN L : (\A q \in DOMAIN L : ~Better(side, q, p)) => p = best
    BY <1>2, <1>4, <2>1, BestLevel
  <2>3. /\ worst \in DOMAIN L
        /\ \A q \in DOMAIN L : ~Better(side, worst, q)
        /\ \A p \in DOMAIN L : (\A q \in DOMAIN L : ~Better(side, p, q)) => p = worst
    BY <1>2, <1>4, <2>1, WorstLevel
  <2>4. BestPrice(side) = best
    <3>1. BestPrice(side) = CHOOSE p \in DOMAIN L : \A q \in DOMAIN L : ~Better(side, q, p)
      BY <1>1, Zenon DEF BestPrice
    <3> QED
      BY <2>2, <3>1
  <2>5. WorstPrice(side) = worst
    <3>1. WorstPrice(side) = CHOOSE p \in DOMAIN L : \A q \in DOMAIN L : ~Better(side, p, q)
      BY <1>1, Zenon DEF WorstPrice
    <3> QED
      BY <2>3, <3>1
  <2>6. Head(L[best]) = F[1]
    <3>1. L[best] \in Seq(Order) /\ Len(L[best]) > 0
      BY <1>2, <2>2 DEF Walk
    <3>2. Head(L[best]) = L[best][1]
      BY <3>1, TailParts
    <3> QED
      BY <2>2, <3>2
  <2> QED
    BY <2>1, <2>4, <2>5, <2>6
<1> QED
  BY <1>1, <1>3, <1>4

\* The fill loop takes a filled order off the front of the list.
LEMMA FillFrontFull ==
  ASSUME OrderBookAssumption, NEW side, NEW s, NEW F, Lists(side, s, F), Len(F) > 0,
         NEW qty, qty = F[1].remaining
  PROVE  \E G : Lists(side, FillFront(s, F[1].price, qty), G) /\ Removed(G, F, 1)
<1>1. PICK start : Walk(side, s.levels, F, start)
  BY DEF Lists
<1>2. PICK p, L, G : p = F[1].price /\ L = s.levels[p] /\ G = Tail(F)
  OBVIOUS
<1>3. p \in DOMAIN s.levels /\ L[1] = F[1] /\ Len(L) > 0 /\ L \in Seq(Order)
  <2>1. p \in DOMAIN s.levels /\ L[1] = F[1] /\ Len(L) > 0
    BY <1>1, <1>2, BestLevel
  <2> QED
    BY <1>2, <2>1, ListParts
<1>4. G \in Seq(Order) /\ Removed(G, F, 1)
  <2>1. F \in Seq(Order)
    BY ListParts
  <2> QED
    BY <1>2, <2>1, TailParts
<1>5. PICK Q, one : Q = Tail(L) /\ one = 1
  OBVIOUS
<1>6. Q \in Seq(Order) /\ Removed(Q, L, one) /\ Head(L) = F[1]
  BY <1>3, <1>5, TailParts
<1>7. one \in 1..Len(L) /\ one \in 1..Len(F)
  BY <1>3, <1>5, ListParts
<1>8. Lists(side, [levels |-> SetQueue(s.levels, p, Q),
                   orders |-> Drop(s.orders, {F[one].id}),
                   volume |-> s.volume - F[one].remaining,
                   count  |-> s.count - 1], G)
  <2>1. s.levels[p][one] = F[one] /\ Removed(Q, s.levels[p], one) /\ Removed(G, F, one)
        /\ one \in 1..Len(s.levels[p])
    BY <1>2, <1>3, <1>4, <1>5, <1>6, <1>7
  <2> QED
    BY <1>3, <1>4, <1>6, <1>7, <2>1, ListsWithout
<1>9. FillFront(s, p, qty) = [levels |-> SetQueue(s.levels, p, Q),
                              orders |-> Drop(s.orders, {F[one].id}),
                              volume |-> s.volume - F[one].remaining,
                              count  |-> s.count - 1]
  BY <1>2, <1>5, <1>6 DEF FillFront
<1>10. Lists(side, FillFront(s, F[1].price, qty), G)
  BY <1>2, <1>8, <1>9
<1> QED
  BY <1>4, <1>10

\* The fill loop takes part of the front order of the list.
LEMMA FillFrontPart ==
  ASSUME OrderBookAssumption, NEW side, NEW s, NEW F, Lists(side, s, F), Len(F) > 0,
         NEW qty, qty \in Nat, qty < F[1].remaining
  PROVE  \E G : /\ Lists(side, FillFront(s, F[1].price, qty), G)
                /\ Fronted(G, F, [F[1] EXCEPT !.remaining = @ - qty])
<1>1. PICK start : Walk(side, s.levels, F, start)
  BY DEF Lists
<1>2. PICK p, L, e : p = F[1].price /\ L = s.levels[p] /\ e = [F[1] EXCEPT !.remaining = @ - qty]
  OBVIOUS
<1>3. p \in DOMAIN s.levels /\ L[1] = F[1] /\ Len(L) > 0 /\ L \in Seq(Order) /\ start[p] = 0
  <2>1. p \in DOMAIN s.levels /\ L[1] = F[1] /\ Len(L) > 0 /\ start[p] = 0
    BY <1>1, <1>2, BestLevel
  <2> QED
    BY <1>2, <2>1, ListParts
<1>4. F \in Seq(Order) /\ Len(F) \in Nat /\ F[1] \in Order
  BY ListParts
<1>5. /\ e \in Order /\ e.price = p /\ e.id = F[1].id
      /\ e.remaining = F[1].remaining - qty
  <2>1. /\ F[1].id \in Nat /\ F[1].owner \in Owners /\ F[1].price \in Prices
        /\ F[1].remaining \in Nat \ {0}
        /\ F[1] = [id |-> F[1].id, owner |-> F[1].owner, price |-> F[1].price,
                   remaining |-> F[1].remaining]
    BY <1>4 DEF Order
  <2>2. e = [id |-> F[1].id, owner |-> F[1].owner, price |-> F[1].price,
             remaining |-> F[1].remaining - qty]
    BY <1>2, <2>1
  <2>3. F[1].remaining - qty \in Nat \ {0}
    BY <2>1
  <2> QED
    BY <1>2, <2>1, <2>2, <2>3 DEF Order
<1>6. PICK G : G = [F EXCEPT ![1] = e]
  OBVIOUS
<1>7. G \in Seq(Order) /\ Fronted(G, F, e)
  BY <1>4, <1>5, <1>6 DEF Fronted
<1>8. PICK Q : Q = [L EXCEPT ![1] = e]
  OBVIOUS
<1>9. Q \in Seq(Order) /\ Fronted(Q, L, e)
  BY <1>3, <1>5, <1>8 DEF Fronted
<1>10. PICK M, t : /\ M = [s.levels EXCEPT ![p] = Q]
                   /\ t = [levels |-> M, orders |-> s.orders, volume |-> s.volume - qty,
                           count |-> s.count]
  OBVIOUS
<1>11. \E x : Walk(side, M, G, x)
  <2>1. /\ DOMAIN M = DOMAIN s.levels /\ M[p] = Q
        /\ \A q \in DOMAIN s.levels : q # p => M[q] = s.levels[q]
    BY <1>3, <1>10
  <2>2. M[p] \in Seq(Order) /\ Fronted(M[p], s.levels[p], e)
    BY <1>2, <1>9, <2>1
  <2>3. p \in DOMAIN s.levels /\ start[p] = 0 /\ e.price = p
    BY <1>3, <1>5
  <2> QED
    BY <1>1, <1>7, <2>1, <2>2, <2>3, WalkFronted
<1>12. FillFront(s, p, qty) = t
  <2>1. Head(L) = F[1]
    BY <1>3, TailParts
  <2>2. F[1].remaining # qty
    BY <1>4 DEF Order
  <2>3. FillFront(s, p, qty) = [s EXCEPT !.levels[p][1].remaining = @ - qty, !.volume = @ - qty]
    BY <1>2, <2>1, <2>2 DEF FillFront
  <2>4. s = [levels |-> s.levels, orders |-> s.orders, volume |-> s.volume, count |-> s.count]
    BY DEF Lists
  <2>5. [L EXCEPT ![1].remaining = @ - qty] = Q
    BY <1>2, <1>3, <1>8
  <2>6. [s EXCEPT !.levels[p][1].remaining = @ - qty, !.volume = @ - qty]
          = [levels |-> [s.levels EXCEPT ![p][1].remaining = @ - qty], orders |-> s.orders,
             volume |-> s.volume - qty, count |-> s.count]
    <3>1. PICK lv, od, vo, co : lv = s.levels /\ od = s.orders /\ vo = s.volume /\ co = s.count
      OBVIOUS
    <3>2. PICK x, y : x = lv[p][1].remaining - qty /\ y = vo - qty
      OBVIOUS
    <3>3. s = [levels |-> lv, orders |-> od, volume |-> vo, count |-> co]
      BY <2>4, <3>1
    <3>4. [s EXCEPT !.levels[p][1].remaining = x, !.volume = y]
            = [levels |-> [lv EXCEPT ![p][1].remaining = x], orders |-> od, volume |-> y, count |-> co]
      <4>1. PICK N : N = [lv EXCEPT ![p][1].remaining = x]
        OBVIOUS
      <4>2. [s EXCEPT !.levels[p][1].remaining = x] = [s EXCEPT !.levels = N]
        BY <3>1, <3>3, <4>1
      <4>3. [s EXCEPT !.levels[p][1].remaining = x, !.volume = y]
              = [[s EXCEPT !.levels[p][1].remaining = x] EXCEPT !.volume = y]
        BY <3>3
      <4>4. [[s EXCEPT !.levels = N] EXCEPT !.volume = y]
              = [levels |-> N, orders |-> od, volume |-> y, count |-> co]
        <5>1. PICK r : r = [s EXCEPT !.levels = N]
          OBVIOUS
        <5>2. r = [levels |-> N, orders |-> od, volume |-> vo, count |-> co]
          BY <3>3, <5>1
        <5>3. [r EXCEPT !.volume = y] = [levels |-> N, orders |-> od, volume |-> y, count |-> co]
          BY <5>2
        <5> QED
          BY <5>1, <5>3
      <4> QED
        BY <4>1, <4>2, <4>3, <4>4
    <3> QED
      BY <3>1, <3>2, <3>4
  <2>7. [s.levels EXCEPT ![p][1].remaining = @ - qty] = M
    BY <1>2, <1>10, <2>5
  <2> QED
    BY <1>10, <2>3, <2>6, <2>7
<1>13. Len(G) = Len(F) /\ \A k \in 1..Len(F) : G[k].id = F[k].id /\ G[k].price = F[k].price
  <2>1. Len(G) = Len(F) /\ G[1] = e /\ \A k \in 2..Len(F) : G[k] = F[k]
    BY <1>7 DEF Fronted
  <2>2. \A k \in 1..Len(F) : k = 1 \/ k \in 2..Len(F)
    BY <1>4
  <2> QED
    BY <1>2, <1>5, <2>1, <2>2
<1>14. Unique(G) /\ IdsOf(G) = IdsOf(F)
  BY <1>13 DEF Lists, Unique, IdsOf
<1>15. t.volume = Volume(G)
  <2>1. Volume(G) + F[1].remaining = Volume(F) + e.remaining /\ Volume(G) \in Nat /\ Volume(F) \in Nat
    BY <1>4, <1>7, VolumeFronted, VolumeType
  <2>2. F[1].remaining \in Nat /\ s.volume = Volume(F)
    BY <1>4 DEF Order, Lists
  <2> QED
    BY <1>5, <1>10, <2>1, <2>2
<1>16. \A k \in 1..Len(G) : t.orders[G[k].id] = G[k].price
  <2>1. \A k \in 1..Len(F) : s.orders[F[k].id] = F[k].price
    BY DEF Lists
  <2> QED
    BY <1>10, <1>13, <2>1
<1>17. DOMAIN t.orders = IdsOf(G) /\ t.count = Len(G)
  BY <1>10, <1>13, <1>14 DEF Lists
<1>18. /\ t = [levels |-> t.levels, orders |-> t.orders, volume |-> t.volume, count |-> t.count]
       /\ t.levels = M
  BY <1>10
<1>19. Lists(side, t, G)
  BY <1>11, <1>14, <1>15, <1>16, <1>17, <1>18 DEF Lists
<1> QED
  BY <1>2, <1>7, <1>12, <1>19

\* EvictLevel of the worst level cuts the list before the level's first order.
LEMMA EvictLevelLists ==
  ASSUME OrderBookAssumption, NEW side, NEW s, NEW F, Lists(side, s, F), Len(F) > 0,
         NEW w, w = F[Len(F)].price
  PROVE  \E a, G : /\ Lists(side, EvictLevel(s, w), G)
                   /\ Prefix(G, F, a) /\ a < Len(F)
                   /\ \A k \in 1..Len(F) : F[k].price = w <=> a < k
                   /\ s.levels[w] \in Seq(Order) /\ Suffix(s.levels[w], F, a)
<1>1. PICK start : Walk(side, s.levels, F, start)
  BY DEF Lists
<1>2. PICK L, Q, a : L = s.levels /\ Q = L[w] /\ a = start[w]
  OBVIOUS
<1>3. /\ w \in DOMAIN L /\ a + Len(Q) = Len(F)
      /\ \A q \in DOMAIN L \ {w} : start[q] + Len(L[q]) <= start[w]
  BY <1>1, <1>2, WorstLevel
<1>4. /\ F \in Seq(Order) /\ Q \in Seq(Order) /\ Len(Q) > 0 /\ a \in Nat
      /\ \A i \in 1..Len(Q) : F[a + i] = Q[i]
  BY <1>1, <1>2, <1>3 DEF Walk
<1>5. Len(F) \in Nat /\ Len(Q) \in Nat /\ DOMAIN Q = 1..Len(Q) /\ a \in 0..Len(F) /\ a < Len(F)
  BY <1>3, <1>4
<1>6. PICK G : G = SubSeq(F, 1, a)
  OBVIOUS
<1>7. G \in Seq(Order) /\ Prefix(G, F, a)
  BY <1>4, <1>5, <1>6, SubSeqPrefix
<1>8. Len(G) = a /\ \A k \in 1..a : G[k] = F[k]
  BY <1>7 DEF Prefix
<1>9. \A k \in 1..Len(F) : F[k].price = w <=> a < k
  <2>1. \A k \in 1..Len(F) : F[k].price = w <=> start[w] < k /\ k <= start[w] + Len(L[w])
    BY <1>1, <1>2, <1>3, WalkParts
  <2>2. \A k \in 1..Len(F) : F[k].price = w <=> a < k /\ k <= Len(F)
    BY <1>2, <1>3, <2>1
  <2> QED
    BY <1>5, <2>2
<1>10. PICK M : M = Drop(L, {w})
  OBVIOUS
<1>11. \E x : Walk(side, M, G, x)
  <2>1. DOMAIN M = DOMAIN L \ {w} /\ \A q \in DOMAIN M : M[q] = L[q]
    BY <1>10 DEF Drop
  <2>2. Prefix(G, F, start[w])
    BY <1>2, <1>7
  <2>3. Walk(side, L, F, start)
    BY <1>1, <1>2
  <2> QED
    BY <1>3, <1>7, <2>1, <2>2, <2>3, WalkDropped
<1>12. PICK t : t = [levels |-> M, orders |-> Drop(s.orders, Ids(Q)),
                     volume |-> s.volume - Volume(Q), count |-> s.count - Len(Q)]
  OBVIOUS
<1>13. EvictLevel(s, w) = t
  <2>1. [i \in DOMAIN Q |-> Q[i].remaining] = Amounts(Q)
    BY <1>5 DEF Amounts
  <2> QED
    BY <1>2, <1>10, <1>12, <2>1 DEF EvictLevel, Volume
<1>14. Unique(F) /\ DOMAIN s.orders = IdsOf(F) /\ s.volume = Volume(F) /\ s.count = Len(F)
       /\ \A k \in 1..Len(F) : s.orders[F[k].id] = F[k].price
  BY DEF Lists
<1>15. Unique(G)
  <2>1. \A k \in 1..a : k \in 1..Len(F)
    BY <1>5
  <2> QED
    BY <1>8, <1>14, <2>1 DEF Unique
<1>16. IdsOf(G) = IdsOf(F) \ Ids(Q)
  <2>1. \A k \in 1..a : k \in 1..Len(F)
    BY <1>5
  <2>2. Ids(Q) = {Q[i].id : i \in 1..Len(Q)}
    BY <1>5 DEF Ids
  <2>3. \A i \in 1..Len(Q) : a + i \in 1..Len(F) /\ a < a + i
    BY <1>3, <1>5
  <2>4. \A k \in 1..Len(F) : k \in 1..a \/ (k - a \in 1..Len(Q) /\ a + (k - a) = k)
    BY <1>3, <1>5
  <2>5. \A k \in 1..a : \A i \in 1..Len(Q) : k # a + i
    BY <1>5
  <2>6. IdsOf(G) = {F[k].id : k \in 1..a}
    BY <1>8 DEF IdsOf
  <2>7. ASSUME NEW x, x \in IdsOf(G) PROVE x \in IdsOf(F) /\ x \notin Ids(Q)
    <3>1. PICK k \in 1..a : x = F[k].id
      BY <2>6, <2>7
    <3>2. k \in 1..Len(F) /\ x \in IdsOf(F)
      BY <2>1, <3>1 DEF IdsOf
    <3>3. ASSUME NEW i, i \in 1..Len(Q), Q[i].id = x PROVE FALSE
      <4>1. F[a + i].id = F[k].id /\ a + i \in 1..Len(F)
        BY <1>4, <2>3, <3>1, <3>3
      <4>2. a + i = k
        BY <1>14, <3>2, <4>1 DEF Unique
      <4> QED
        BY <2>5, <3>1, <3>3, <4>2
    <3> QED
      BY <2>2, <3>2, <3>3
  <2>8. ASSUME NEW x, x \in IdsOf(F) PROVE x \in IdsOf(G) \/ x \in Ids(Q)
    <3>1. PICK k \in 1..Len(F) : x = F[k].id
      BY <2>8 DEF IdsOf
    <3>2. CASE k \in 1..a
      BY <2>6, <3>1, <3>2
    <3>3. CASE k \notin 1..a
      <4>1. PICK i : i = k - a
        OBVIOUS
      <4>2. i \in 1..Len(Q) /\ a + i = k
        BY <2>4, <3>3, <4>1
      <4>3. Q[i] = F[k]
        BY <1>4, <4>2
      <4> QED
        BY <2>2, <3>1, <4>2, <4>3
    <3> QED
      BY <3>2, <3>3
  <2> QED
    BY <2>7, <2>8
<1>17. DOMAIN t.orders = IdsOf(G) /\ \A k \in 1..Len(G) : t.orders[G[k].id] = G[k].price
  <2>1. t.orders = Drop(s.orders, Ids(Q))
    BY <1>12
  <2>2. DOMAIN t.orders = IdsOf(G)
    BY <1>14, <1>16, <2>1 DEF Drop
  <2>3. \A k \in 1..Len(G) : G[k].id \in DOMAIN t.orders
    BY <2>2 DEF IdsOf
  <2>4. \A k \in 1..Len(G) : t.orders[G[k].id] = s.orders[G[k].id]
    BY <2>1, <2>3 DEF Drop
  <2>5. \A k \in 1..a : k \in 1..Len(F)
    BY <1>5
  <2> QED
    BY <1>8, <1>14, <2>2, <2>4, <2>5
<1>21. Suffix(Q, F, a)
  <2>1. Len(Q) = Len(F) - a
    BY <1>3, <1>5
  <2>2. \A i \in 1..Len(Q) : Q[i] = F[a + i]
    BY <1>4
  <2> QED
    BY <1>5, <2>1, <2>2 DEF Suffix
<1>18. t.volume = Volume(G) /\ t.count = Len(G)
  <2>1. Suffix(Q, F, a)
    BY <1>21
  <2>2. Volume(F) = Volume(G) + Volume(Q)
    BY <1>4, <1>7, <2>1, VolumeCut
  <2>3. Volume(G) \in Nat /\ Volume(Q) \in Nat /\ Volume(F) \in Nat
    BY <1>4, <1>7, VolumeType
  <2>4. t.volume = Volume(F) - Volume(Q) /\ t.count = Len(F) - Len(Q)
    BY <1>12, <1>14
  <2> QED
    BY <1>3, <1>5, <1>8, <2>2, <2>3, <2>4
<1>19. /\ t = [levels |-> t.levels, orders |-> t.orders, volume |-> t.volume, count |-> t.count]
       /\ t.levels = M
  BY <1>12
<1>20. Lists(side, t, G)
  BY <1>11, <1>15, <1>17, <1>18, <1>19 DEF Lists
<1> QED
  BY <1>2, <1>4, <1>5, <1>7, <1>9, <1>13, <1>20, <1>21

\* The numbering b of a side's slots is its walk: the slot at position k holds
\* the order F[k], and a slot comes before another when its number is smaller.
Numbered(side, s, F, b) ==
  /\ b \in [Slots(s) -> 1..Len(F)]
  /\ \A x, y \in Slots(s) : b[x] = b[y] => x = y
  /\ \A k \in 1..Len(F) : \E x \in Slots(s) : b[x] = k
  /\ \A x \in Slots(s) : EntryAt(s, x) = F[b[x]] /\ x[1] = F[b[x]].price
                         /\ x[1] \in DOMAIN s.levels
  /\ \A x, y \in Slots(s) : y \in Before(side, s, x) <=> b[y] < b[x]

\* A slot is its level and its position.
LEMMA SlotParts ==
  ASSUME OrderBookAssumption, NEW side, NEW s, NEW F, NEW start, Walk(side, s.levels, F, start)
  PROVE  /\ \A x \in Slots(s) : /\ x = <<x[1], x[2]>>
                                /\ x[1] \in DOMAIN s.levels /\ x[2] \in 1..Len(s.levels[x[1]])
         /\ \A p \in DOMAIN s.levels : \A i \in 1..Len(s.levels[p]) : <<p, i>> \in Slots(s)
<1>1. \A p \in DOMAIN s.levels : DOMAIN s.levels[p] = 1..Len(s.levels[p])
  BY WalkParts
<1>2. ASSUME NEW x, x \in Slots(s)
      PROVE  /\ x = <<x[1], x[2]>>
             /\ x[1] \in DOMAIN s.levels /\ x[2] \in 1..Len(s.levels[x[1]])
  <2>1. PICK p \in DOMAIN s.levels : x \in {p} \X DOMAIN s.levels[p]
    BY <1>2 DEF Slots
  <2>2. x = <<x[1], x[2]>> /\ x[1] = p /\ x[2] \in DOMAIN s.levels[p]
    BY <2>1
  <2> QED
    BY <1>1, <2>1, <2>2
<1>3. ASSUME NEW p, p \in DOMAIN s.levels, NEW i, i \in 1..Len(s.levels[p])
      PROVE  <<p, i>> \in Slots(s)
  <2>1. <<p, i>> \in {p} \X DOMAIN s.levels[p]
    BY <1>1, <1>3
  <2> QED
    BY <1>3, <2>1 DEF Slots
<1> QED
  BY <1>2, <1>3

\* The numbering: the orders of the levels before the slot's, and its position.
LEMMA WalkNumbers ==
  ASSUME OrderBookAssumption, NEW side, NEW s, NEW F, NEW start, Walk(side, s.levels, F, start)
  PROVE  \E b : Numbered(side, s, F, b)
<1>1. PICK L, S, n : L = s.levels /\ S = Slots(s) /\ n = Len(F)
  OBVIOUS
<1>2. PICK b : b = [x \in S |-> start[x[1]] + x[2]]
  OBVIOUS
<1>3. ASSUME NEW x, x \in S
      PROVE  /\ x = <<x[1], x[2]>> /\ x[1] \in DOMAIN L /\ x[1] \in Nat
             /\ x[2] \in 1..Len(L[x[1]]) /\ x[2] \in Nat /\ Len(L[x[1]]) \in Nat
             /\ start[x[1]] \in Nat
             /\ b[x] = start[x[1]] + x[2]
             /\ b[x] \in 1..n /\ F[b[x]] = L[x[1]][x[2]] /\ F[b[x]].price = x[1]
  <2>1. x = <<x[1], x[2]>> /\ x[1] \in DOMAIN L /\ x[2] \in 1..Len(L[x[1]])
    BY <1>1, <1>3, SlotParts
  <2>2. PICK p, i, d, a : p = x[1] /\ i = x[2] /\ d = Len(L[p]) /\ a = start[p]
    OBVIOUS
  <2>3. n \in Nat /\ d \in Nat /\ a \in Nat /\ p \in Nat
    BY <1>1, <2>1, <2>2, WalkParts
  <2>4. i \in 1..d /\ a + d <= n
    BY <1>1, <2>1, <2>2 DEF Walk
  <2>5. i \in Nat /\ a + i \in 1..n
    BY <2>3, <2>4
  <2>6. F[a + i] = L[p][i] /\ L[p][i].price = p
    BY <1>1, <2>1, <2>2, <2>4 DEF Walk
  <2>7. b[x] = a + i
    BY <1>2, <1>3, <2>2
  <2> QED
    BY <2>1, <2>2, <2>3, <2>4, <2>5, <2>6, <2>7
<1>4. b \in [S -> 1..n]
  BY <1>2, <1>3
<1>5. ASSUME NEW x, x \in S, NEW y, y \in S, b[x] = b[y]
      PROVE  x = y
  <2>1. x[1] = y[1]
    BY <1>3, <1>5
  <2>2. x[2] = y[2]
    BY <1>3, <1>5, <2>1
  <2> QED
    BY <1>3, <1>5, <2>1, <2>2
<1>6. ASSUME NEW k, k \in 1..n PROVE \E x \in S : b[x] = k
  <2>1. PICK p, a, d : p = F[k].price /\ a = start[p] /\ d = Len(L[p])
    OBVIOUS
  <2>2. p \in DOMAIN L /\ a < k /\ k <= a + d
    BY <1>1, <1>6, <2>1 DEF Walk
  <2>3. a \in Nat /\ d \in Nat /\ k \in Nat
    BY <1>1, <1>6, <2>1, <2>2, WalkParts
  <2>4. PICK i : i = k - a
    OBVIOUS
  <2>5. i \in 1..d /\ a + i = k
    BY <2>2, <2>3, <2>4
  <2>6. <<p, i>> \in S
    BY <1>1, <2>1, <2>2, <2>5, SlotParts
  <2>7. b[<<p, i>>] = k
    BY <1>2, <2>1, <2>5, <2>6
  <2> QED
    BY <2>6, <2>7
<1>7. ASSUME NEW x, x \in S, NEW y, y \in S
      PROVE  y \in Before(side, s, x) <=> b[y] < b[x]
  <2>1. PICK p, i, q, j : p = x[1] /\ i = x[2] /\ q = y[1] /\ j = y[2]
    OBVIOUS
  <2>2. PICK a, d, c, e : a = start[p] /\ d = Len(L[p]) /\ c = start[q] /\ e = Len(L[q])
    OBVIOUS
  <2>3. /\ p \in DOMAIN L /\ p \in Nat /\ i \in 1..d /\ d \in Nat /\ a \in Nat /\ b[x] = a + i
        /\ q \in DOMAIN L /\ q \in Nat /\ j \in 1..e /\ e \in Nat /\ c \in Nat /\ b[y] = c + j
    BY <1>3, <1>7, <2>1, <2>2
  <2>4. y \in Before(side, s, x) <=> Better(side, q, p) \/ (q = p /\ j < i)
    BY <1>1, <1>7, <2>1 DEF Before
  <2>5. CASE q = p
    <3>1. ~Better(side, q, p) /\ c = a
      BY <2>2, <2>3, <2>5, BetterOrder
    <3> QED
      BY <2>3, <2>4, <2>5, <3>1
  <2>6. CASE Better(side, q, p)
    <3>1. c + e <= a
      BY <1>1, <2>2, <2>3, <2>6 DEF Walk
    <3> QED
      BY <2>3, <2>4, <2>6, <3>1
  <2>7. CASE Better(side, p, q)
    <3>1. a + d <= c
      BY <1>1, <2>2, <2>3, <2>7 DEF Walk
    <3>2. ~Better(side, q, p) /\ q # p
      BY <2>3, <2>7, BetterOrder
    <3> QED
      BY <2>3, <2>4, <3>1, <3>2
  <2> QED
    BY <2>3, <2>5, <2>6, <2>7, BetterOrder
<1>8. \A x \in S : EntryAt(s, x) = F[b[x]] /\ x[1] = F[b[x]].price /\ x[1] \in DOMAIN s.levels
  BY <1>1, <1>3 DEF EntryAt
<1> QED
  BY <1>1, <1>4, <1>5, <1>6, <1>7, <1>8 DEF Numbered

OneToOne(f, S, n) ==
  /\ f \in [S -> 1..n]
  /\ \A x, y \in S : f[x] = f[y] => x = y
  /\ \A k \in 1..n : \E x \in S : f[x] = k

\* A set numbered from 1 to n has n members.
LEMMA NumberedSize ==
  ASSUME NEW S, NEW n, n \in Nat, NEW f, OneToOne(f, S, n)
  PROVE  IsFiniteSet(S) /\ Cardinality(S) = n
<1>1. PICK T : T = 1..n
  OBVIOUS
<1>2. f \in Bijection(S, T)
  BY <1>1 DEF OneToOne, Bijection, Injection, IsInjective, Surjection
<1>3. ExistsBijection(S, T)
  BY <1>2 DEF ExistsBijection
<1>4. ExistsBijection(T, S)
  BY <1>3, Fun_ExistsBijSymmetric
<1>5. IsFiniteSet(T) /\ Cardinality(T) = n
  <2>1. 1 \in Int /\ n \in Int
    OBVIOUS
  <2>2. IsFiniteSet(1..n) /\ Cardinality(1..n) = IF 1 > n THEN 0 ELSE n - 1 + 1
    BY <2>1, FS_Interval
  <2> QED
    BY <1>1, <2>2
<1>6. IsFiniteSet(S) /\ Cardinality(S) = Cardinality(T)
  BY <1>4, <1>5, FS_Bijection
<1> QED
  BY <1>5, <1>6

\* What an in-order walk of the tree visits is the side's list.
LEMMA NumberedFlatten ==
  ASSUME NEW side, NEW s, NEW F, F \in Seq(Order), NEW b, Numbered(side, s, F, b)
  PROVE  /\ IsFiniteSet(Slots(s)) /\ Cardinality(Slots(s)) = Len(F)
         /\ Flatten(side, s) = F
<1>1. PICK S, n : S = Slots(s) /\ n = Len(F)
  OBVIOUS
<1>2. n \in Nat /\ DOMAIN F = 1..n /\ F = [k \in 1..n |-> F[k]]
  BY <1>1
<1>3. /\ b \in [S -> 1..n]
      /\ \A x, y \in S : b[x] = b[y] => x = y
      /\ \A k \in 1..n : \E x \in S : b[x] = k
      /\ \A x \in S : EntryAt(s, x) = F[b[x]]
      /\ \A x, y \in S : y \in Before(side, s, x) <=> b[y] < b[x]
  BY <1>1 DEF Numbered
<1>4. IsFiniteSet(S) /\ Cardinality(S) = n
  <2>1. OneToOne(b, S, n)
    BY <1>3 DEF OneToOne
  <2> QED
    BY <1>2, <2>1, NumberedSize
<1>5. ASSUME NEW x, x \in S
      PROVE  Cardinality(Before(side, s, x)) = b[x] - 1
  <2>1. PICK B, m : B = Before(side, s, x) /\ m = b[x] - 1
    OBVIOUS
  <2>2. b[x] \in 1..n /\ m \in Nat /\ m < n
    BY <1>2, <1>3, <1>5, <2>1
  <2>3. \A y \in B : y \in S /\ b[y] < b[x]
    BY <1>1, <1>3, <1>5, <2>1 DEF Before
  <2>4. PICK f : f = [y \in B |-> b[y]]
    OBVIOUS
  <2>5. f \in [B -> 1..m]
    <3>1. ASSUME NEW y, y \in B PROVE b[y] \in 1..m
      <4>1. b[y] \in 1..n /\ b[y] < b[x]
        BY <1>3, <2>3, <3>1
      <4> QED
        BY <1>2, <2>1, <2>2, <4>1
    <3> QED
      BY <2>4, <3>1
  <2>6. \A y, z \in B : f[y] = f[z] => y = z
    BY <1>3, <2>3, <2>4
  <2>7. ASSUME NEW k, k \in 1..m PROVE \E y \in B : f[y] = k
    <3>1. k \in 1..n /\ k < b[x]
      BY <1>2, <2>1, <2>2, <2>7
    <3>2. PICK y \in S : b[y] = k
      BY <1>3, <3>1
    <3>3. y \in B
      BY <1>3, <1>5, <2>1, <3>1, <3>2
    <3> QED
      BY <2>4, <3>2, <3>3
  <2>8. Cardinality(B) = m
    <3>1. OneToOne(f, B, m)
      BY <2>5, <2>6, <2>7 DEF OneToOne
    <3> QED
      BY <2>2, <3>1, NumberedSize
  <2> QED
    BY <2>1, <2>8
<1>6. ASSUME NEW k, k \in 1..n
      PROVE  EntryAt(s, CHOOSE x \in S : Cardinality(Before(side, s, x)) = k - 1) = F[k]
  <2>1. PICK x \in S : b[x] = k
    BY <1>3, <1>6
  <2>2. Cardinality(Before(side, s, x)) = k - 1
    BY <1>5, <2>1
  <2>3. PICK y : y = CHOOSE z \in S : Cardinality(Before(side, s, z)) = k - 1
    OBVIOUS
  <2>4. y \in S /\ Cardinality(Before(side, s, y)) = k - 1
    BY <2>1, <2>2, <2>3
  <2>5. b[y] \in 1..n /\ b[y] - 1 = k - 1
    BY <1>3, <1>5, <2>4
  <2>6. b[y] = k
    BY <1>2, <1>6, <2>5
  <2> QED
    BY <1>3, <2>3, <2>4, <2>6
<1>7. Flatten(side, s) = [k \in 1..n |-> F[k]]
  <2>1. PICK D : D = 1..n
    OBVIOUS
  <2>2. Flatten(side, s)
          = [k \in D |-> EntryAt(s, CHOOSE x \in S : Cardinality(Before(side, s, x)) = k - 1)]
    BY <1>1, <1>4, <2>1 DEF Flatten
  <2>3. \A k \in D :
          EntryAt(s, CHOOSE x \in S : Cardinality(Before(side, s, x)) = k - 1) = F[k]
    BY <1>6, <2>1
  <2>4. Flatten(side, s) = [k \in D |-> F[k]]
    BY <2>2, <2>3, Zenon
  <2> QED
    BY <2>1, <2>4
<1> QED
  BY <1>1, <1>2, <1>4, <1>7

\* A list without repeated IDs has as many IDs as orders.
LEMMA IdsSize ==
  ASSUME NEW F, F \in Seq(Order), Unique(F)
  PROVE  Cardinality(IdsOf(F)) = Len(F)
<1>1. PICK n, S : n = Len(F) /\ S = IdsOf(F)
  OBVIOUS
<1>2. n \in Nat /\ S = {F[k].id : k \in 1..n} /\ \A i, j \in 1..n : F[i].id = F[j].id => i = j
  BY <1>1 DEF IdsOf, Unique
<1>3. PICK f : f = [x \in S |-> CHOOSE k \in 1..n : F[k].id = x]
  OBVIOUS
<1>4. ASSUME NEW x, x \in S PROVE f[x] \in 1..n /\ F[f[x]].id = x
  <2>1. \E k \in 1..n : F[k].id = x
    BY <1>2, <1>4
  <2>2. f[x] = CHOOSE k \in 1..n : F[k].id = x
    BY <1>3, <1>4
  <2> QED
    BY <2>1, <2>2
<1>5. f \in [S -> 1..n]
  BY <1>3, <1>4
<1>6. \A x, y \in S : f[x] = f[y] => x = y
  BY <1>4
<1>7. ASSUME NEW k, k \in 1..n PROVE \E x \in S : f[x] = k
  <2>1. F[k].id \in S
    BY <1>2, <1>7
  <2>2. f[F[k].id] = k
    BY <1>2, <1>4, <1>7, <2>1
  <2> QED
    BY <2>1, <2>2
<1>8. OneToOne(f, S, n)
  BY <1>5, <1>6, <1>7 DEF OneToOne
<1> QED
  BY <1>1, <1>2, <1>8, NumberedSize

\* A side that lists some orders is consistent, and Flatten is its list.
LEMMA ListsConsistent ==
  ASSUME OrderBookAssumption, NEW side, NEW s, NEW F, Lists(side, s, F)
  PROVE  SideConsistent(s) /\ Flatten(side, s) = F
<1>1. PICK start : Walk(side, s.levels, F, start)
  BY DEF Lists
<1>2. PICK b : Numbered(side, s, F, b)
  BY <1>1, WalkNumbers
<1>3. PICK S, n : S = Slots(s) /\ n = Len(F)
  OBVIOUS
<1>4. F \in Seq(Order) /\ n \in Nat /\ Unique(F)
  BY <1>1, <1>3 DEF Lists, Walk
<1>5. IsFiniteSet(S) /\ Cardinality(S) = n /\ Flatten(side, s) = F
  BY <1>2, <1>3, <1>4, NumberedFlatten
<1>6. /\ b \in [S -> 1..n]
      /\ \A x, y \in S : b[x] = b[y] => x = y
      /\ \A k \in 1..n : \E x \in S : b[x] = k
      /\ \A x \in S : EntryAt(s, x) = F[b[x]] /\ x[1] = F[b[x]].price
  BY <1>2, <1>3 DEF Numbered
<1>7. /\ DOMAIN s.orders = IdsOf(F) /\ s.volume = Volume(F) /\ s.count = n
      /\ \A k \in 1..n : s.orders[F[k].id] = F[k].price /\ F[k].id \in DOMAIN s.orders
  BY <1>3 DEF Lists, IdsOf
<1>8. \A k \in 1..n : F[k].remaining \in Nat \ {0}
  BY <1>1, <1>3, WalkParts
<1>9. \A p \in DOMAIN s.levels : s.levels[p] # <<>>
  <2>1. \A p \in DOMAIN s.levels : s.levels[p] \in Seq(Order) /\ Len(s.levels[p]) > 0
    BY <1>1 DEF Walk
  <2> QED
    BY <2>1
<1>10. ASSUME NEW x, x \in S
       PROVE  /\ EntryAt(s, x).price = x[1]
              /\ EntryAt(s, x).remaining > 0
              /\ EntryAt(s, x).id \in DOMAIN s.orders
              /\ s.orders[EntryAt(s, x).id] = x[1]
  <2>1. b[x] \in 1..n /\ EntryAt(s, x) = F[b[x]] /\ x[1] = F[b[x]].price
    BY <1>6, <1>10
  <2>2. F[b[x]].remaining \in Nat \ {0}
    BY <1>8, <2>1
  <2> QED
    BY <1>7, <2>1, <2>2
<1>11. Cardinality(S) = Cardinality(DOMAIN s.orders)
  BY <1>3, <1>4, <1>5, <1>7, IdsSize
<1>12. ASSUME NEW x, x \in S, NEW y, y \in S, EntryAt(s, x).id = EntryAt(s, y).id
       PROVE  x = y
  <2>1. b[x] \in 1..n /\ b[y] \in 1..n /\ F[b[x]].id = F[b[y]].id
    BY <1>6, <1>12
  <2>2. b[x] = b[y]
    BY <1>3, <1>4, <2>1 DEF Unique
  <2> QED
    BY <1>6, <1>12, <2>2
<1>13. s.volume = Total([x \in S |-> EntryAt(s, x).remaining])
  <2>1. PICK T, f : T = 1..n /\ f = Amounts(F)
    OBVIOUS
  <2>2. f \in [T -> Nat] /\ \A k \in T : f[k] = F[k].remaining
    BY <1>3, <1>4, <2>1, VolumeType DEF Amounts
  <2>3. b \in Bijection(S, T)
    BY <1>6, <2>1 DEF Bijection, Injection, IsInjective, Surjection
  <2>4. Total([x \in S |-> f[b[x]]]) = Total(f)
    BY <1>5, <2>2, <2>3, TotalThrough
  <2>5. \A x \in S : f[b[x]] = EntryAt(s, x).remaining
    BY <1>6, <2>1, <2>2
  <2>6. [x \in S |-> f[b[x]]] = [x \in S |-> EntryAt(s, x).remaining]
    BY <2>5, Zenon
  <2> QED
    BY <1>7, <2>1, <2>4, <2>6 DEF Volume
<1>14. SideConsistent(s)
  <2>1. Slots(s) = S
    BY <1>3
  <2>2. s.count = Cardinality(S)
    BY <1>5, <1>7
  <2> QED
    BY <1>9, <1>10, <1>11, <1>12, <1>13, <2>1, <2>2 DEF SideConsistent
<1> QED
  BY <1>5, <1>14

-----------------------------------------------------------------------------

Consecutive(P, n, a) ==
  Cardinality(P) = n /\ \A k \in 1..n : Nth(P, k) = a + k

Skipping(P, n, m) ==
  Cardinality(P) = n - 1 /\ \A k \in 1..(n - 1) : Nth(P, k) = IF k < m THEN k ELSE k + 1

\* How many positions an interval of them has.
LEMMA IntervalSize ==
  ASSUME NEW a, a \in Nat, NEW c, c \in Nat, a <= c
  PROVE  IsFiniteSet((a + 1)..c) /\ Cardinality((a + 1)..c) = c - a
<1>1. PICK b : b = a + 1
  OBVIOUS
<1>2. b \in Int /\ c \in Int
  BY <1>1
<1>3. IsFiniteSet(b..c) /\ Cardinality(b..c) = IF b > c THEN 0 ELSE c - b + 1
  BY <1>2, FS_Interval
<1>4. Cardinality(b..c) = c - a
  <2>1. CASE b > c
    BY <1>1, <1>2, <1>3, <2>1
  <2>2. CASE ~(b > c)
    BY <1>1, <1>2, <1>3, <2>2
  <2> QED
    BY <2>1, <2>2
<1> QED
  BY <1>1, <1>3, <1>4

\* The k-th position of an interval.
LEMMA NthInterval ==
  ASSUME NEW a, a \in Nat, NEW c, c \in Nat, a <= c
  PROVE  Consecutive((a + 1)..c, c - a, a)
<1>1. PICK P : P = (a + 1)..c
  OBVIOUS
<1>2. P \subseteq Nat /\ IsFiniteSet(P) /\ Cardinality(P) = c - a
  <2>1. P \subseteq Nat
    BY <1>1
  <2>2. IsFiniteSet((a + 1)..c) /\ Cardinality((a + 1)..c) = c - a
    BY IntervalSize
  <2> QED
    BY <1>1, <2>1, <2>2, Zenon
<1>3. ASSUME NEW k, k \in 1..(c - a)
      PROVE  Nth(P, k) = a + k
  <2>1. k \in 1..Cardinality(P) /\ k \in Nat
    BY <1>2, <1>3
  <2>2. PICK x : x = Nth(P, k)
    OBVIOUS
  <2>3. x \in P /\ Cardinality({j \in P : j <= x}) = k
    BY <1>2, <2>1, <2>2, NthIsPosition
  <2>4. x \in Nat /\ a <= x /\ x <= c
    BY <1>1, <2>3
  <2>5. {j \in P : j <= x} = (a + 1)..x
    BY <1>1, <2>4
  <2>6. Cardinality((a + 1)..x) = x - a
    BY <2>4, IntervalSize
  <2>7. k = x - a
    BY <2>3, <2>5, <2>6, Zenon
  <2> QED
    BY <2>1, <2>2, <2>4, <2>7
<1> QED
  BY <1>1, <1>2, <1>3 DEF Consecutive

\* The k-th position but one.
LEMMA NthBut ==
  ASSUME NEW n, n \in Nat, NEW m, m \in 1..n
  PROVE  Skipping((1..n) \ {m}, n, m)
<1>1. ASSUME NEW c, c \in Nat
      PROVE  IsFiniteSet(1..c) /\ Cardinality(1..c) = c
  <2>1. 0 \in Nat /\ 0 <= c
    BY <1>1
  <2>2. IsFiniteSet((0 + 1)..c) /\ Cardinality((0 + 1)..c) = c - 0
    BY <1>1, <2>1, IntervalSize
  <2>3. 0 + 1 = 1 /\ c - 0 = c
    BY <1>1
  <2> QED
    BY <2>2, <2>3
<1>2. ASSUME NEW c, c \in Nat, m <= c
      PROVE  IsFiniteSet((1..c) \ {m}) /\ Cardinality((1..c) \ {m}) = c - 1
  <2>1. PICK S : S = 1..c
    OBVIOUS
  <2>2. IsFiniteSet(S) /\ Cardinality(S) = c /\ m \in S
    BY <1>1, <1>2, <2>1
  <2>3. IsFiniteSet(S \ {m}) /\ Cardinality(S \ {m}) = Cardinality(S) - 1
    BY <2>2, FS_RemoveElement
  <2> QED
    BY <2>1, <2>2, <2>3
<1>3. PICK P : P = (1..n) \ {m}
  OBVIOUS
<1>4. P \subseteq Nat /\ IsFiniteSet(P) /\ Cardinality(P) = n - 1
  <2>1. P \subseteq Nat /\ m <= n
    BY <1>3
  <2> QED
    BY <1>2, <1>3, <2>1
<1>5. ASSUME NEW k, k \in 1..(n - 1)
      PROVE  Nth(P, k) = IF k < m THEN k ELSE k + 1
  <2>1. k \in 1..Cardinality(P) /\ k \in Nat
    BY <1>4, <1>5
  <2>2. PICK x : x = Nth(P, k)
    OBVIOUS
  <2>3. x \in P /\ Cardinality({j \in P : j <= x}) = k
    BY <1>4, <2>1, <2>2, NthIsPosition
  <2>4. x \in Nat /\ 1 <= x /\ x <= n /\ x # m
    BY <1>3, <2>3
  <2>5. CASE x < m
    <3>1. {j \in P : j <= x} = 1..x
      BY <1>3, <2>4, <2>5
    <3>2. Cardinality(1..x) = x
      BY <1>1, <2>4
    <3>3. k = x
      BY <2>3, <3>1, <3>2, Zenon
    <3> QED
      BY <2>2, <2>5, <3>3
  <2>6. CASE m < x
    <3>1. {j \in P : j <= x} = (1..x) \ {m}
      BY <1>3, <2>4, <2>6
    <3>2. Cardinality((1..x) \ {m}) = x - 1
      <4>1. m <= x
        BY <2>4, <2>6
      <4> QED
        BY <1>2, <2>4, <4>1
    <3>3. k = x - 1
      BY <2>3, <3>1, <3>2, Zenon
    <3>4. x = k + 1 /\ ~(k < m)
      BY <2>4, <2>6, <3>3
    <3> QED
      BY <2>2, <3>4
  <2> QED
    BY <2>4, <2>5, <2>6
<1> QED
  BY <1>3, <1>4, <1>5 DEF Skipping

\* The parts of a queue at its first positions, at its last, and at all but one.
LEMMA SubCut ==
  ASSUME NEW S, NEW queue, queue \in Seq(S), NEW n, n \in 0..Len(queue)
  PROVE  /\ Sub(queue, 1..n) \in Seq(S) /\ Prefix(Sub(queue, 1..n), queue, n)
         /\ Sub(queue, (n + 1)..Len(queue)) \in Seq(S)
         /\ Suffix(Sub(queue, (n + 1)..Len(queue)), queue, n)
<1>1. PICK l : l = Len(queue)
  OBVIOUS
<1>2. l \in Nat /\ DOMAIN queue = 1..l /\ n \in Nat /\ n <= l
  BY <1>1
<1>3. /\ Cardinality(1..n) = n /\ \A k \in 1..n : Nth(1..n, k) = k
      /\ Cardinality((n + 1)..l) = l - n /\ \A k \in 1..(l - n) : Nth((n + 1)..l, k) = n + k
  <2>1. 0 \in Nat /\ 0 <= n
    BY <1>2
  <2>2. Consecutive((0 + 1)..n, n - 0, 0) /\ Consecutive((n + 1)..l, l - n, n)
    BY <1>2, <2>1, NthInterval
  <2>3. 0 + 1 = 1 /\ n - 0 = n /\ \A k \in 1..n : 0 + k = k
    BY <1>2
  <2> QED
    BY <2>2, <2>3 DEF Consecutive
<1>4. 1..n \in SUBSET (DOMAIN queue) /\ (n + 1)..l \in SUBSET (DOMAIN queue)
  BY <1>2
<1>5. PICK A, B : A = 1..n /\ B = (n + 1)..l
  OBVIOUS
<1>6. Sub(queue, A) \in Seq(S) /\ Sub(queue, B) \in Seq(S)
  BY <1>4, <1>5, SubType
<1>7. PICK r, t : r = Sub(queue, A) /\ t = Sub(queue, B)
  OBVIOUS
<1>8. r = [k \in 1..n |-> queue[Nth(A, k)]] /\ t = [k \in 1..(l - n) |-> queue[Nth(B, k)]]
  BY <1>3, <1>5, <1>7 DEF Sub
<1>9. Len(r) = n /\ \A k \in 1..n : r[k] = queue[k]
  <2>1. \A k \in 1..n : r[k] = queue[k]
    BY <1>3, <1>5, <1>8
  <2>2. DOMAIN r = 1..n /\ r \in Seq(S)
    BY <1>6, <1>7, <1>8
  <2> QED
    BY <1>2, <2>1, <2>2
<1>10. Len(t) = l - n /\ \A k \in 1..(l - n) : t[k] = queue[n + k]
  <2>1. \A k \in 1..(l - n) : t[k] = queue[n + k]
    BY <1>3, <1>5, <1>8
  <2>2. DOMAIN t = 1..(l - n) /\ t \in Seq(S) /\ l - n \in Nat
    BY <1>2, <1>6, <1>7, <1>8
  <2> QED
    BY <2>1, <2>2
<1>11. Prefix(r, queue, n) /\ Suffix(t, queue, n)
  BY <1>1, <1>9, <1>10 DEF Prefix, Suffix
<1> QED
  BY <1>1, <1>5, <1>6, <1>7, <1>11

\* Selecting every position but one removes that one.
LEMMA SubBut ==
  ASSUME NEW S, NEW queue, queue \in Seq(S), NEW m, m \in 1..Len(queue)
  PROVE  /\ Sub(queue, DOMAIN queue \ {m}) \in Seq(S)
         /\ Removed(Sub(queue, DOMAIN queue \ {m}), queue, m)
<1>1. PICK l, A : l = Len(queue) /\ A = (1..l) \ {m}
  OBVIOUS
<1>2. l \in Nat /\ DOMAIN queue = 1..l /\ m \in 1..l /\ l - 1 \in Nat
  BY <1>1
<1>3. Cardinality(A) = l - 1 /\ \A k \in 1..(l - 1) : Nth(A, k) = IF k < m THEN k ELSE k + 1
  <2>1. Skipping(A, l, m)
    BY <1>1, <1>2, NthBut
  <2> QED
    BY <2>1 DEF Skipping
<1>4. A \in SUBSET (DOMAIN queue)
  BY <1>1, <1>2
<1>5. PICK r : r = Sub(queue, A)
  OBVIOUS
<1>6. r \in Seq(S)
  BY <1>4, <1>5, SubType
<1>7. r = [k \in 1..(l - 1) |-> queue[Nth(A, k)]]
  BY <1>3, <1>5 DEF Sub
<1>8. Len(r) = l - 1
  BY <1>2, <1>6, <1>7
<1>9. \A k \in 1..(l - 1) : r[k] = IF k < m THEN queue[k] ELSE queue[k + 1]
  BY <1>3, <1>7
<1> QED
  BY <1>1, <1>2, <1>5, <1>6, <1>8, <1>9 DEF Removed

\* Each of these descriptions is of one sequence.
LEMMA SamePrefix ==
  ASSUME NEW S, NEW r, r \in Seq(S), NEW t, t \in Seq(S), NEW queue, NEW n,
         Prefix(r, queue, n), Prefix(t, queue, n)
  PROVE  r = t
BY DEF Prefix

\* Two queues that are the same rest of a third are one.
LEMMA SameSuffix ==
  ASSUME NEW S, NEW r, r \in Seq(S), NEW t, t \in Seq(S), NEW queue, NEW n,
         Suffix(r, queue, n), Suffix(t, queue, n)
  PROVE  r = t
<1>1. PICK m : m = Len(queue) - n
  OBVIOUS
<1>2. /\ Len(r) = m /\ \A k \in 1..m : r[k] = queue[n + k]
      /\ Len(t) = m /\ \A k \in 1..m : t[k] = queue[n + k]
  BY <1>1 DEF Suffix
<1> QED
  BY <1>2

\* Two queues that lack the same position of a third are one.
LEMMA SameRemoved ==
  ASSUME NEW S, NEW r, r \in Seq(S), NEW t, t \in Seq(S), NEW queue, NEW n,
         Removed(r, queue, n), Removed(t, queue, n)
  PROVE  r = t
<1>1. PICK m : m = Len(queue) - 1
  OBVIOUS
<1>2. /\ Len(r) = m /\ \A k \in 1..m : r[k] = IF k < n THEN queue[k] ELSE queue[k + 1]
      /\ Len(t) = m /\ \A k \in 1..m : t[k] = IF k < n THEN queue[k] ELSE queue[k + 1]
  BY <1>1 DEF Removed
<1> QED
  BY <1>2

-----------------------------------------------------------------------------

\* A list of orders is a queue as the lemmas of price-time priority know it.
LEMMA OrdersAreEntries ==
  ASSUME OrderBookAssumption, NEW F, F \in Seq(Order)
  PROVE  /\ F \in Seq(EntrySet(Nat, Owners))
         /\ Len(F) \in Nat /\ DOMAIN F = 1..Len(F)
         /\ \A i \in 1..Len(F) : F[i] \in Order /\ F[i].remaining \in Nat \ {0}
                                 /\ F[i].price \in Nat
<1>1. Order \subseteq EntrySet(Nat, Owners)
  BY DEF OrderBookAssumption, Order, EntrySet
<1>2. F \in Seq(EntrySet(Nat, Owners))
  BY <1>1
<1>3. \A i \in 1..Len(F) : F[i] \in Order
  OBVIOUS
<1>4. \A e \in Order : e.remaining \in Nat \ {0} /\ e.price \in Nat
  BY DEF OrderBookAssumption, Order
<1> QED
  BY <1>2, <1>3, <1>4

\* The quantities at some positions of a list.
At(F, S) == [j \in S |-> F[j].remaining]

\* They are a table of quantities.
LEMMA AtType ==
  ASSUME OrderBookAssumption, NEW F, F \in Seq(Order), NEW S, S \in SUBSET (1..Len(F))
  PROVE  IsFiniteSet(S) /\ At(F, S) \in [S -> Nat] /\ Total(At(F, S)) \in Nat
<1>1. PICK n : n = Len(F)
  OBVIOUS
<1>2. n \in Nat /\ \A i \in 1..n : F[i].remaining \in Nat
  BY <1>1, OrdersAreEntries
<1>3. IsFiniteSet(1..n)
  <2>1. 1 \in Int /\ n \in Int
    BY <1>2
  <2> QED
    BY <2>1, FS_Interval
<1>4. IsFiniteSet(S)
  BY <1>1, <1>3, FS_Subset
<1>5. At(F, S) \in [S -> Nat]
  BY <1>1, <1>2 DEF At
<1> QED
  BY <1>4, <1>5, UnitsFinite

\* Ahead is a running sum.
RunningSum(F) ==
  /\ Ahead(F, 1) = 0
  /\ \A i \in 1..(Len(F) + 1) : Ahead(F, i) \in Nat
  /\ \A i \in 1..Len(F) : Ahead(F, i + 1) = Ahead(F, i) + F[i].remaining
  /\ \A i, j \in 1..(Len(F) + 1) : i <= j => Ahead(F, i) <= Ahead(F, j)

\* What rests before a position is the running sum.
LEMMA AheadSums ==
  ASSUME OrderBookAssumption, NEW F, F \in Seq(Order)
  PROVE  RunningSum(F)
<1>1. PICK n : n = Len(F)
  OBVIOUS
<1>2. n \in Nat
  BY <1>1
<1>3. \A i : Ahead(F, i) = Total(At(F, 1..(i - 1)))
  BY DEF Ahead, At
<1>4. ASSUME NEW i, i \in 1..(n + 1)
      PROVE  1..(i - 1) \in SUBSET (1..n)
  BY <1>2, <1>4
<1>5. Ahead(F, 1) = 0
  <2>1. PICK g : g = At(F, 1..(1 - 1))
    OBVIOUS
  <2>2. DOMAIN g = {}
    BY <2>1 DEF At
  <2>3. Total(g) = 0
    BY <2>2, TotalEmpty
  <2> QED
    BY <1>3, <2>1, <2>3
<1>6. ASSUME NEW i, i \in 1..(n + 1) PROVE Ahead(F, i) \in Nat
  <2>1. PICK S : S = 1..(i - 1)
    OBVIOUS
  <2>2. S \in SUBSET (1..Len(F))
    BY <1>1, <1>4, <1>6, <2>1
  <2>3. Total(At(F, S)) \in Nat
    BY <2>2, AtType
  <2> QED
    BY <1>3, <2>1, <2>3
<1>7. ASSUME NEW i, i \in 1..n
      PROVE  Ahead(F, i + 1) = Ahead(F, i) + F[i].remaining
  <2>1. PICK S, g : S = 1..i /\ g = At(F, S)
    OBVIOUS
  <2>2. S \in SUBSET (1..Len(F)) /\ i \in S
    BY <1>1, <1>2, <1>7, <2>1
  <2>3. IsFiniteSet(S) /\ g \in [S -> Nat]
    BY <2>1, <2>2, AtType
  <2>4. Total(g) = Total([v \in S \ {i} |-> g[v]]) + g[i]
    BY <2>2, <2>3, TotalRemove
  <2>5. [v \in S \ {i} |-> g[v]] = At(F, 1..(i - 1))
    <3>1. S \ {i} = 1..(i - 1)
      BY <1>2, <1>7, <2>1
    <3>2. \A v \in S \ {i} : g[v] = F[v].remaining
      BY <2>1 DEF At
    <3>3. [v \in S \ {i} |-> g[v]] = At(F, S \ {i})
      BY <3>2 DEF At
    <3> QED
      BY <3>1, <3>3
  <2>6. g[i] = F[i].remaining
    BY <2>1, <2>2 DEF At
  <2>7. Ahead(F, i) = Total([v \in S \ {i} |-> g[v]])
    BY <1>3, <2>5
  <2>8. Ahead(F, i + 1) = Total(g)
    <3>1. 1..((i + 1) - 1) = S
      BY <1>2, <1>7, <2>1
    <3> QED
      BY <1>3, <2>1, <3>1
  <2> QED
    BY <2>4, <2>6, <2>7, <2>8
<1>8. ASSUME NEW i, i \in 1..(n + 1), NEW j, j \in 1..(n + 1), i <= j
      PROVE  Ahead(F, i) <= Ahead(F, j)
  <2>1. PICK S, A, g : S = 1..(j - 1) /\ A = 1..(i - 1) /\ g = At(F, S)
    OBVIOUS
  <2>2. A \in SUBSET S
    BY <1>2, <1>8, <2>1
  <2>3. S \in SUBSET (1..Len(F))
    BY <1>1, <1>4, <1>8, <2>1
  <2>4. IsFiniteSet(S) /\ g \in [S -> Nat]
    BY <2>1, <2>3, AtType
  <2>5. Total(g) = Total(Part(g, A)) + Total(Part(g, S \ A))
    BY <2>2, <2>4, TotalOfParts
  <2>6. Part(g, A) = At(F, A) /\ Part(g, S \ A) = At(F, S \ A)
    BY <2>1, <2>2 DEF At, Part
  <2>7. PICK R : R = S \ A
    OBVIOUS
  <2>8. A \in SUBSET (1..Len(F)) /\ R \in SUBSET (1..Len(F))
    BY <2>2, <2>3, <2>7
  <2>9. Total(At(F, A)) \in Nat /\ Total(At(F, R)) \in Nat
    BY <2>8, AtType
  <2>10. Ahead(F, j) = Total(g) /\ Ahead(F, i) = Total(At(F, A))
    BY <1>3, <2>1
  <2>11. Ahead(F, j) = Ahead(F, i) + Total(At(F, R))
    BY <2>5, <2>6, <2>7, <2>10
  <2> QED
    BY <2>9, <2>10, <2>11
<1> QED
  BY <1>1, <1>5, <1>6, <1>7, <1>8 DEF RunningSum

-----------------------------------------------------------------------------

\* What the fill loop has done to the list q of the other side when it has taken
\* its first k orders whole and a of the next one, for an order t.
Swept(t, q, k, a, left) ==
  /\ k \in 0..Len(q) /\ a \in Nat /\ left \in Nat
  /\ left + a + Ahead(q, k + 1) = t.quantity
  /\ \A i \in 1..k : Crosses(t, q[i].price)
  /\ a > 0 => /\ left = 0 /\ k < Len(q)
              /\ a < q[k + 1].remaining /\ Crosses(t, q[k + 1].price)

\* The loop has stopped: the order is filled, or the best of the rest, if any, is
\* beyond its limit.
Stopped(t, q, k, left) == left = 0 \/ \A i \in 1..Len(q) : k < i => ~Crosses(t, q[i].price)

TakenBySweep(t, q, k, a) ==
  \A i \in 1..Len(q) :
    Taken(t, q)[i] = IF i <= k THEN q[i].remaining ELSE IF i = k + 1 THEN a ELSE 0

\* A loop that has stopped has taken of every order what price-time priority does.
LEMMA SweepTakes ==
  ASSUME OrderBookAssumption, NEW q, q \in Seq(Order), NEW t, t.quantity \in Nat,
         NEW k, NEW a, NEW left, Swept(t, q, k, a, left), Stopped(t, q, k, left)
  PROVE  TakenBySweep(t, q, k, a)
<1>1. PICK n : n = Len(q)
  OBVIOUS
<1>2. /\ n \in Nat /\ k \in 0..n /\ k \in Nat /\ a \in Nat /\ left \in Nat
      /\ left + a + Ahead(q, k + 1) = t.quantity
      /\ \A i \in 1..k : Crosses(t, q[i].price)
      /\ a > 0 => /\ left = 0 /\ k < n
                  /\ a < q[k + 1].remaining /\ Crosses(t, q[k + 1].price)
  BY <1>1 DEF Swept
<1>3. RunningSum(q)
  BY AheadSums
<1>4. SUFFICES ASSUME NEW i, i \in 1..n
               PROVE  Taken(t, q)[i] = IF i <= k THEN q[i].remaining
                                       ELSE IF i = k + 1 THEN a ELSE 0
  BY <1>1 DEF TakenBySweep
<1>5. PICK rem, x, z, Q : rem = q[i].remaining /\ x = Ahead(q, i) /\ z = Ahead(q, k + 1) /\ Q = t.quantity
  OBVIOUS
<1>6. i \in Nat /\ 1 <= i /\ i <= n /\ rem \in Nat \ {0} /\ x \in Nat /\ z \in Nat /\ Q \in Nat
      /\ left + a + z = Q
  <2>1. rem \in Nat \ {0}
    BY <1>1, <1>4, <1>5, OrdersAreEntries
  <2>2. i \in 1..(n + 1) /\ k + 1 \in 1..(n + 1)
    BY <1>2, <1>4
  <2>3. x \in Nat /\ z \in Nat
    BY <1>1, <1>3, <1>5, <2>2 DEF RunningSum
  <2> QED
    BY <1>2, <1>4, <1>5, <2>1, <2>3
<1>7. Taken(t, q)[i] = IF Crosses(t, q[i].price) /\ x < Q THEN Min64(Q - x, rem) ELSE 0
  <2>1. i \in DOMAIN q
    BY <1>1, <1>4
  <2> QED
    BY <1>5, <2>1 DEF Taken
<1>8. Ahead(q, i + 1) = x + rem
  BY <1>1, <1>3, <1>4, <1>5 DEF RunningSum
<1>9. CASE i <= k
  <2>1. i + 1 \in 1..(n + 1) /\ k + 1 \in 1..(n + 1) /\ i + 1 <= k + 1 /\ i \in 1..k
    BY <1>2, <1>6, <1>9
  <2>2. x + rem <= z
    BY <1>1, <1>3, <1>5, <1>8, <2>1 DEF RunningSum
  <2>3. Crosses(t, q[i].price) /\ x < Q /\ rem <= Q - x
    BY <1>2, <1>6, <2>1, <2>2
  <2>4. Min64(Q - x, rem) = rem
    BY <1>6, <2>3 DEF Min64
  <2> QED
    BY <1>5, <1>7, <1>9, <2>3, <2>4
<1>10. CASE i = k + 1
  <2>1. x = z
    BY <1>5, <1>10
  <2>2. CASE a > 0
    <3>1. Crosses(t, q[i].price) /\ a < rem /\ left = 0
      BY <1>2, <1>5, <1>10, <2>2
    <3>2. x < Q /\ Q - x = a
      BY <1>2, <1>6, <2>1, <2>2, <3>1
    <3>3. Min64(Q - x, rem) = a
      BY <3>1, <3>2 DEF Min64
    <3> QED
      BY <1>2, <1>7, <1>10, <3>1, <3>2, <3>3
  <2>3. CASE a = 0 /\ left = 0
    <3>1. ~(x < Q)
      BY <1>6, <2>1, <2>3
    <3> QED
      BY <1>2, <1>7, <1>10, <2>3, <3>1
  <2>4. CASE a = 0 /\ left # 0
    <3>1. ~Crosses(t, q[i].price)
      BY <1>1, <1>2, <1>4, <1>10, <2>4 DEF Stopped
    <3> QED
      BY <1>2, <1>7, <1>10, <2>4, <3>1
  <2> QED
    BY <1>2, <2>2, <2>3, <2>4
<1>11. CASE i > k + 1
  <2>1. CASE left = 0
    <3>1. k + 1 \in 1..n /\ (k + 1) + 1 \in 1..(n + 1) /\ i \in 1..(n + 1) /\ (k + 1) + 1 <= i
      BY <1>2, <1>6, <1>11
    <3>2. PICK y, w : y = q[k + 1].remaining /\ w = Ahead(q, (k + 1) + 1)
      OBVIOUS
    <3>3. y \in Nat \ {0}
      BY <1>1, <3>1, <3>2, OrdersAreEntries
    <3>4. w = z + y /\ w <= x
      BY <1>1, <1>3, <1>5, <3>1, <3>2 DEF RunningSum
    <3>5. a < y
      BY <1>2, <3>2, <3>3
    <3>6. ~(x < Q)
      BY <1>2, <1>6, <2>1, <3>3, <3>4, <3>5
    <3> QED
      BY <1>2, <1>6, <1>7, <1>11, <3>6
  <2>2. CASE left # 0
    <3>1. ~Crosses(t, q[i].price)
      BY <1>1, <1>2, <1>4, <1>6, <1>11, <2>2 DEF Stopped
    <3> QED
      BY <1>2, <1>6, <1>7, <1>11, <3>1
  <2> QED
    BY <2>1, <2>2
<1> QED
  BY <1>2, <1>6, <1>9, <1>10, <1>11

\* And so the rest of the order is what it leaves over.
LEMMA SweepUnfilled ==
  ASSUME OrderBookAssumption, NEW q, q \in Seq(Order), NEW t, t.quantity \in Nat,
         NEW k, NEW a, NEW left, Swept(t, q, k, a, left), TakenBySweep(t, q, k, a)
  PROVE  Unfilled(t, q) = left
<1>1. PICK n, S, A, f : n = Len(q) /\ S = 1..n /\ A = 1..k /\ f = Taken(t, q)
  OBVIOUS
<1>2. /\ n \in Nat /\ k \in 0..n /\ k \in Nat /\ a \in Nat /\ left \in Nat
      /\ left + a + Ahead(q, k + 1) = t.quantity
      /\ a > 0 => k < n
  BY <1>1 DEF Swept
<1>3. DOMAIN q = S /\ \A i \in S : q[i].remaining \in Nat
  BY <1>1, OrdersAreEntries
<1>4. /\ \A i \in S : f[i] = IF i <= k THEN q[i].remaining ELSE IF i = k + 1 THEN a ELSE 0
      /\ DOMAIN f = S
  BY <1>1, <1>3 DEF TakenBySweep, Taken
<1>5. f \in [S -> Nat] /\ IsFiniteSet(S) /\ A \in SUBSET S /\ A \in SUBSET (1..Len(q))
  <2>1. \A i \in S : f[i] \in Nat
    BY <1>2, <1>3, <1>4
  <2>2. f = [i \in S |-> f[i]]
    BY <1>1, <1>3, <1>4 DEF Taken
  <2>3. S \in SUBSET (1..Len(q)) /\ A \in SUBSET S
    BY <1>1, <1>2
  <2> QED
    BY <2>1, <2>2, <2>3, AtType
<1>6. Total(f) = Total(Part(f, A)) + Total(Part(f, S \ A))
  BY <1>5, TotalOfParts
<1>7. Total(Part(f, A)) = Ahead(q, k + 1)
  <2>1. \A i \in A : f[i] = q[i].remaining
    BY <1>1, <1>2, <1>4, <1>5
  <2>2. Part(f, A) = [i \in A |-> q[i].remaining]
    BY <2>1 DEF Part
  <2>3. 1..((k + 1) - 1) = A
    BY <1>1, <1>2
  <2> QED
    BY <2>2, <2>3 DEF Ahead
<1>8. Total(Part(f, S \ A)) = a
  <2>1. PICK R, g : R = S \ A /\ g = Part(f, R)
    OBVIOUS
  <2>2. IsFiniteSet(R) /\ g \in [R -> Nat]
    BY <1>5, <2>1, FS_Subset DEF Part
  <2>3. \A i \in R : g[i] = IF i = k + 1 THEN a ELSE 0
    BY <1>1, <1>2, <1>4, <2>1 DEF Part
  <2>4. CASE k = n
    <3>1. R = {} /\ a = 0
      BY <1>1, <1>2, <2>1, <2>4
    <3>2. DOMAIN g = {}
      BY <2>2, <3>1
    <3> QED
      BY <2>1, <3>1, <3>2, TotalEmpty
  <2>5. CASE k # n
    <3>1. PICK u : u = k + 1
      OBVIOUS
    <3>2. u \in R /\ g[u] = a
      <4>1. k < n /\ u \in S /\ u \notin A
        BY <1>1, <1>2, <2>5, <3>1
      <4>2. u \in R
        BY <2>1, <4>1
      <4> QED
        BY <2>3, <3>1, <4>2
    <3>3. PICK T, h : T = R \ {u} /\ h = [v \in R \ {u} |-> g[v]]
      OBVIOUS
    <3>4. Total(g) = Total(h) + g[u]
      BY <2>2, <3>2, <3>3, TotalRemove
    <3>5. h \in [T -> Nat] /\ \A v \in T : h[v] = 0
      BY <2>2, <2>3, <3>1, <3>3
    <3>6. Total(h) = 0
      BY <3>5, TotalZero
    <3> QED
      BY <1>2, <2>1, <3>2, <3>4, <3>6
  <2> QED
    BY <2>4, <2>5
<1>9. Ahead(q, k + 1) \in Nat
  <2>1. k + 1 \in 1..(n + 1)
    BY <1>2
  <2> QED
    BY <1>1, <2>1, AheadSums DEF RunningSum
<1>10. Unfilled(t, q) = t.quantity - Total(f)
  BY <1>1 DEF Unfilled
<1> QED
  BY <1>2, <1>6, <1>7, <1>8, <1>9, <1>10

FillOf(e, qty) ==
  [maker |-> e.id, owner |-> e.owner, price |-> e.price, quantity |-> qty]

\* The fills of such a loop, and what it leaves of the list.
FillsOfSweep(fills, q, k, a) ==
  /\ Len(fills) = IF a = 0 THEN k ELSE k + 1
  /\ \A i \in 1..k : fills[i] = FillOf(q[i], q[i].remaining)
  /\ a > 0 => fills[k + 1] = FillOf(q[k + 1], a)

LeftBySweep(r, q, k, a) ==
  /\ Len(r) = Len(q) - k
  /\ \A i \in 1..(Len(q) - k) :
       r[i] = IF i = 1 /\ a > 0 THEN [q[k + 1] EXCEPT !.remaining = @ - a] ELSE q[k + i]

\* They are those of price-time priority.
LEMMA SweepFills ==
  ASSUME OrderBookAssumption, NEW q, q \in Seq(Order), NEW t, t.quantity \in Nat,
         NEW k, NEW a, NEW left, Swept(t, q, k, a, left), TakenBySweep(t, q, k, a),
         NEW fills, fills \in Seq(FillSet(Nat, Owners)), FillsOfSweep(fills, q, k, a)
  PROVE  Fills(t, q) = fills
<1>1. PICK n, m, f, H : /\ n = Len(q) /\ m = IF a = 0 THEN k ELSE k + 1
                        /\ f = AllFills(t, q) /\ H = Hit(t, q)
  OBVIOUS
<1>2. n \in Nat /\ k \in 0..n /\ k \in Nat /\ a \in Nat /\ (a > 0 => k < n)
  BY <1>1 DEF Swept
<1>3. m \in 0..n /\ m \in Nat /\ \A i \in 1..n : i <= m <=> (i <= k \/ (i = k + 1 /\ a > 0))
  BY <1>1, <1>2
<1>4. \A i \in 1..n : Taken(t, q)[i] = IF i <= k THEN q[i].remaining ELSE IF i = k + 1 THEN a ELSE 0
  BY <1>1 DEF TakenBySweep
<1>5. q \in Seq(EntrySet(Nat, Owners)) /\ DOMAIN q = 1..n /\ \A i \in 1..n : q[i].remaining \in Nat \ {0}
  BY <1>1, OrdersAreEntries
<1>6. /\ f \in Seq(FillSet(Nat, Owners)) /\ DOMAIN f = DOMAIN q
      /\ Fills(t, q) = Sub(f, H)
  BY <1>1, <1>5, FillsParts
<1>7. H = 1..m
  <2>1. H = {i \in 1..n : Taken(t, q)[i] > 0}
    BY <1>1, <1>5 DEF Hit
  <2>2. ASSUME NEW i, i \in 1..n PROVE Taken(t, q)[i] > 0 <=> i <= m
    <3>1. PICK x, y : x = q[i].remaining /\ y = Taken(t, q)[i]
      OBVIOUS
    <3>2. x \in Nat \ {0} /\ y = IF i <= k THEN x ELSE IF i = k + 1 THEN a ELSE 0
      BY <1>4, <1>5, <2>2, <3>1
    <3>3. i <= m <=> (i <= k \/ (i = k + 1 /\ a > 0))
      BY <1>3, <2>2
    <3> QED
      BY <1>2, <3>1, <3>2, <3>3
  <2>3. H = {i \in 1..n : i <= m}
    BY <2>1, <2>2
  <2> QED
    BY <1>2, <1>3, <2>3
<1>8. Len(f) = n
  BY <1>2, <1>5, <1>6
<1>9. Prefix(Sub(f, 1..m), f, m) /\ Sub(f, 1..m) \in Seq(FillSet(Nat, Owners))
  <2>1. m \in 0..Len(f)
    BY <1>3, <1>8
  <2> QED
    BY <1>6, <2>1, SubCut
<1>10. Prefix(fills, f, m)
  <2>1. Len(fills) = m
    BY <1>1 DEF FillsOfSweep
  <2>2. ASSUME NEW i, i \in 1..m PROVE fills[i] = f[i]
    <3>1. i \in 1..n /\ i \in Nat /\ 1 <= i
      BY <1>2, <1>3, <2>2
    <3>2. f[i] = FillOf(q[i], Taken(t, q)[i])
      BY <1>1, <1>5, <3>1 DEF AllFills, FillAt, FillOf
    <3>3. CASE i <= k
      <4>1. i \in 1..k
        BY <1>2, <3>1, <3>3
      <4>2. fills[i] = FillOf(q[i], q[i].remaining)
        BY <4>1 DEF FillsOfSweep
      <4> QED
        BY <1>4, <3>1, <3>2, <3>3, <4>2
    <3>4. CASE ~(i <= k)
      <4>1. i = k + 1 /\ a > 0
        BY <1>3, <2>2, <3>1, <3>4
      <4>2. fills[i] = FillOf(q[i], a)
        BY <4>1 DEF FillsOfSweep
      <4>3. Taken(t, q)[i] = a
        BY <1>4, <3>1, <3>4, <4>1
      <4> QED
        BY <3>2, <4>2, <4>3
    <3> QED
      BY <3>3, <3>4
  <2> QED
    BY <1>3, <1>8, <2>1, <2>2 DEF Prefix
<1> QED
  BY <1>6, <1>7, <1>9, <1>10, SamePrefix

\* What it leaves is what price-time priority leaves.
LEMMA SweepLeaves ==
  ASSUME OrderBookAssumption, NEW q, q \in Seq(Order), NEW t, t.quantity \in Nat,
         NEW k, NEW a, NEW left, Swept(t, q, k, a, left), TakenBySweep(t, q, k, a),
         NEW r, r \in Seq(Order), LeftBySweep(r, q, k, a)
  PROVE  AfterFills(t, q) = r
<1>1. PICK n, f, R : n = Len(q) /\ f = AllLeft(t, q) /\ R = Remains(t, q)
  OBVIOUS
<1>2. n \in Nat /\ k \in 0..n /\ k \in Nat /\ a \in Nat
      /\ (a > 0 => k < n /\ a < q[k + 1].remaining)
  BY <1>1 DEF Swept
<1>3. \A i \in 1..n : Taken(t, q)[i] = IF i <= k THEN q[i].remaining ELSE IF i = k + 1 THEN a ELSE 0
  BY <1>1 DEF TakenBySweep
<1>4. q \in Seq(EntrySet(Nat, Owners)) /\ DOMAIN q = 1..n
      /\ \A i \in 1..n : q[i].remaining \in Nat \ {0} /\ q[i] \in Order
  BY <1>1, OrdersAreEntries
<1>5. /\ f \in Seq(EntrySet(Nat, Owners)) /\ DOMAIN f = DOMAIN q
      /\ AfterFills(t, q) = Sub(f, R)
  BY <1>1, <1>4, FillsParts
<1>6. ASSUME NEW i, i \in 1..n
      PROVE  /\ LeftAt(t, q, i) = [q[i] EXCEPT !.remaining = @ - Taken(t, q)[i]]
             /\ LeftAt(t, q, i).remaining = q[i].remaining - Taken(t, q)[i]
  <2>1. LeftAt(t, q, i) = [q[i] EXCEPT !.remaining = @ - Taken(t, q)[i]]
    BY DEF LeftAt
  <2>2. q[i] \in Order
    BY <1>4, <1>6
  <2> QED
    BY <2>1, <2>2 DEF Order
<1>7. R = (k + 1)..n
  <2>1. R = {i \in 1..n : LeftAt(t, q, i).remaining > 0}
    BY <1>1, <1>4 DEF Remains
  <2>2. ASSUME NEW i, i \in 1..n
        PROVE  LeftAt(t, q, i).remaining > 0 <=> k < i
    <3>1. PICK x, y : x = q[i].remaining /\ y = Taken(t, q)[i]
      OBVIOUS
    <3>2. x \in Nat \ {0} /\ i \in Nat /\ LeftAt(t, q, i).remaining = x - y
      BY <1>2, <1>4, <1>6, <2>2, <3>1
    <3>3. y = IF i <= k THEN x ELSE IF i = k + 1 THEN a ELSE 0
      BY <1>3, <2>2, <3>1
    <3>4. i = k + 1 => a < x
      BY <1>2, <3>1, <3>2
    <3> QED
      BY <1>2, <3>2, <3>3, <3>4
  <2>3. R = {i \in 1..n : k < i}
    BY <2>1, <2>2
  <2> QED
    BY <1>2, <2>3
<1>8. Len(f) = n
  BY <1>2, <1>4, <1>5
<1>9. Suffix(Sub(f, (k + 1)..n), f, k) /\ Sub(f, (k + 1)..n) \in Seq(EntrySet(Nat, Owners))
  <2>1. k \in 0..Len(f)
    BY <1>2, <1>8
  <2> QED
    BY <1>5, <1>8, <2>1, SubCut
<1>10. Suffix(r, f, k)
  <2>1. Len(r) = n - k
    BY <1>1 DEF LeftBySweep
  <2>2. ASSUME NEW i, i \in 1..(n - k) PROVE r[i] = f[k + i]
    <3>1. k + i \in 1..n /\ i \in Nat /\ 1 <= i /\ ~(k + i <= k) /\ (k + i = k + 1 <=> i = 1)
      BY <1>2, <2>2
    <3>2. PICK l : l = k + i
      OBVIOUS
    <3>3. f[l] = [q[l] EXCEPT !.remaining = @ - Taken(t, q)[l]]
      BY <1>1, <1>4, <1>6, <3>1, <3>2 DEF AllLeft
    <3>4. r[i] = IF i = 1 /\ a > 0 THEN [q[k + 1] EXCEPT !.remaining = @ - a] ELSE q[l]
      BY <1>1, <2>2, <3>2 DEF LeftBySweep
    <3>5. Taken(t, q)[l] = IF i = 1 THEN a ELSE 0
      BY <1>3, <3>1, <3>2
    <3>6. CASE i = 1 /\ a > 0
      BY <3>2, <3>3, <3>4, <3>5, <3>6
    <3>7. CASE ~(i = 1 /\ a > 0)
      <4>1. PICK e : e = q[l]
        OBVIOUS
      <4>2. e \in Order /\ e.remaining \in Nat
        BY <1>4, <3>1, <3>2, <4>1
      <4>3. f[l] = [e EXCEPT !.remaining = e.remaining - 0]
        BY <1>2, <3>3, <3>5, <3>7, <4>1
      <4>4. e.remaining - 0 = e.remaining
        BY <4>2
      <4>5. [e EXCEPT !.remaining = e.remaining] = e
        BY <4>2 DEF Order
      <4>6. f[l] = e
        BY <4>3, <4>4, <4>5
      <4> QED
        BY <3>2, <3>4, <3>7, <4>1, <4>6
    <3> QED
      BY <3>2, <3>6, <3>7
  <2> QED
    BY <1>2, <1>8, <2>1, <2>2 DEF Suffix
<1>11. r \in Seq(EntrySet(Nat, Owners))
  BY OrdersAreEntries
<1> QED
  BY <1>5, <1>7, <1>9, <1>10, <1>11, SameSuffix

\* The loop may go on only when it has taken the last of its orders whole.
SweepGoes(t, q, k, left, r) ==
  /\ Len(q) \in Nat /\ k \in 0..Len(q) /\ k \in Nat /\ k < Len(q) /\ k + 1 \in 1..Len(q)
  /\ left \in Nat /\ Ahead(q, k + 1) \in Nat /\ left + Ahead(q, k + 1) = t.quantity
  /\ \A i \in 1..k : Crosses(t, q[i].price)
  /\ Len(r) = Len(q) - k /\ \A i \in 1..(Len(q) - k) : r[i] = q[k + i]
  /\ r[1] = q[k + 1] /\ r[1].remaining \in Nat \ {0}

\* It has something left to fill and something left to take.
LEMMA SweepGoesOn ==
  ASSUME OrderBookAssumption, NEW q, q \in Seq(Order), NEW t, t.quantity \in Nat,
         NEW k, NEW a, NEW left, Swept(t, q, k, a, left), left > 0,
         NEW r, r \in Seq(Order), LeftBySweep(r, q, k, a), Len(r) > 0
  PROVE  a = 0 /\ SweepGoes(t, q, k, left, r)
<1>1. PICK n, z : n = Len(q) /\ z = Ahead(q, k + 1)
  OBVIOUS
<1>2. n \in Nat
  BY <1>1
<1>3. /\ k \in 0..n /\ a \in Nat /\ left \in Nat /\ left + a + z = t.quantity
      /\ \A i \in 1..k : Crosses(t, q[i].price)
      /\ a > 0 => left = 0
  BY <1>1 DEF Swept
<1>4. k \in Nat /\ a = 0
  BY <1>2, <1>3
<1>5. z \in Nat
  <2>1. k + 1 \in 1..(n + 1)
    BY <1>2, <1>3
  <2> QED
    BY <1>1, <2>1, AheadSums DEF RunningSum
<1>6. left + z = t.quantity
  <2>1. PICK x : x = t.quantity
    OBVIOUS
  <2>2. left + a + z = x
    BY <1>3, <2>1
  <2>3. left + z = x
    BY <1>3, <1>4, <1>5, <2>2
  <2> QED
    BY <2>1, <2>3
<1>7. Len(r) = n - k /\ \A i \in 1..(n - k) : r[i] = q[k + i]
  BY <1>1, <1>4 DEF LeftBySweep
<1>8. k < n /\ k + 1 \in 1..n /\ 1 \in 1..(n - k)
  BY <1>2, <1>3, <1>4, <1>7
<1>9. r[1] = q[k + 1]
  BY <1>7, <1>8
<1>10. q[k + 1].remaining \in Nat \ {0}
  BY <1>1, <1>8, OrdersAreEntries
<1> QED
  BY <1>1, <1>2, <1>3, <1>4, <1>5, <1>6, <1>7, <1>8, <1>9, <1>10 DEF SweepGoes

\* One more turn of the loop, that takes a whole order,
LEMMA SweepWhole ==
  ASSUME OrderBookAssumption, NEW q, q \in Seq(Order), NEW t, t.quantity \in Nat,
         NEW k, NEW a, NEW left, Swept(t, q, k, a, left), left > 0,
         NEW r, r \in Seq(Order), LeftBySweep(r, q, k, a), Len(r) > 0,
         NEW fills, fills \in Seq(FillSet(Nat, Owners)), FillsOfSweep(fills, q, k, a),
         Crosses(t, r[1].price), r[1].remaining <= left,
         NEW s, s \in Seq(Order), Removed(s, r, 1)
  PROVE  /\ Swept(t, q, k + 1, 0, left - r[1].remaining)
         /\ LeftBySweep(s, q, k + 1, 0)
         /\ FillsOfSweep(Append(fills, FillOf(r[1], r[1].remaining)), q, k + 1, 0)
<1>1. PICK n, x, z : n = Len(q) /\ x = q[k + 1].remaining /\ z = Ahead(q, k + 1)
  OBVIOUS
<1>0. a = 0 /\ SweepGoes(t, q, k, left, r)
  BY SweepGoesOn
<1>2. /\ n \in Nat /\ k \in 0..n /\ k \in Nat /\ a = 0 /\ left \in Nat /\ z \in Nat
      /\ left + z = t.quantity
      /\ \A i \in 1..k : Crosses(t, q[i].price)
  BY <1>0, <1>1 DEF SweepGoes
<1>3. Len(r) = n - k /\ \A i \in 1..(n - k) : r[i] = q[k + i]
  BY <1>0, <1>1 DEF SweepGoes
<1>4. k + 1 \in 1..n /\ r[1] = q[k + 1] /\ r[1].remaining = x /\ k < n
  BY <1>0, <1>1 DEF SweepGoes
<1>5. x \in Nat \ {0} /\ z \in Nat /\ Ahead(q, (k + 1) + 1) = z + x
  <2>1. x \in Nat \ {0}
    BY <1>1, <1>4, OrdersAreEntries
  <2>2. k + 1 \in 1..(n + 1)
    BY <1>2
  <2> QED
    BY <1>1, <1>4, <2>1, <2>2, AheadSums DEF RunningSum
<1>6. Swept(t, q, k + 1, 0, left - x)
  <2>1. \A i \in 1..(k + 1) : Crosses(t, q[i].price)
    <3>1. \A i \in 1..(k + 1) : i \in 1..k \/ i = k + 1
      BY <1>2
    <3> QED
      BY <1>2, <1>4, <3>1
  <2>2. left - x \in Nat /\ (left - x) + 0 + (z + x) = t.quantity /\ k + 1 \in 0..n
    BY <1>2, <1>4, <1>5
  <2> QED
    BY <1>1, <1>5, <2>1, <2>2 DEF Swept
<1>7. LeftBySweep(s, q, k + 1, 0)
  <2>1. Len(s) = n - (k + 1)
    BY <1>2, <1>3 DEF Removed
  <2>2. ASSUME NEW i, i \in 1..(n - (k + 1)) PROVE s[i] = q[(k + 1) + i]
    <3>1. i \in 1..(Len(r) - 1) /\ ~(i < 1) /\ i + 1 \in 1..(n - k) /\ k + (i + 1) = (k + 1) + i
      BY <1>2, <1>3, <2>2
    <3>2. s[i] = r[i + 1]
      BY <3>1 DEF Removed
    <3> QED
      BY <1>3, <3>1, <3>2
  <2> QED
    BY <1>1, <2>1, <2>2 DEF LeftBySweep
<1>8. PICK e, f : e = FillOf(q[k + 1], x) /\ f = Append(fills, e)
  OBVIOUS
<1>9. Len(fills) = k /\ \A i \in 1..k : fills[i] = FillOf(q[i], q[i].remaining)
  BY <1>2 DEF FillsOfSweep
<1>10. Len(f) = k + 1 /\ f[k + 1] = e /\ \A i \in 1..k : f[i] = fills[i]
  BY <1>2, <1>8, <1>9
<1>11. FillsOfSweep(f, q, k + 1, 0)
  <2>1. \A i \in 1..(k + 1) : i \in 1..k \/ i = k + 1
    BY <1>2
  <2>2. \A i \in 1..(k + 1) : f[i] = FillOf(q[i], q[i].remaining)
    BY <1>1, <1>8, <1>9, <1>10, <2>1
  <2> QED
    BY <1>10, <2>2 DEF FillsOfSweep
<1> QED
  BY <1>4, <1>6, <1>7, <1>8, <1>11

\* and that takes a part of one.
LEMMA SweepPart ==
  ASSUME OrderBookAssumption, NEW q, q \in Seq(Order), NEW t, t.quantity \in Nat,
         NEW k, NEW a, NEW left, Swept(t, q, k, a, left), left > 0,
         NEW r, r \in Seq(Order), LeftBySweep(r, q, k, a), Len(r) > 0,
         NEW fills, fills \in Seq(FillSet(Nat, Owners)), FillsOfSweep(fills, q, k, a),
         Crosses(t, r[1].price), left < r[1].remaining,
         NEW s, s \in Seq(Order), Fronted(s, r, [r[1] EXCEPT !.remaining = @ - left])
  PROVE  /\ Swept(t, q, k, left, 0)
         /\ LeftBySweep(s, q, k, left)
         /\ FillsOfSweep(Append(fills, FillOf(r[1], left)), q, k, left)
<1>1. PICK n, x, z : n = Len(q) /\ x = q[k + 1].remaining /\ z = Ahead(q, k + 1)
  OBVIOUS
<1>0. a = 0 /\ SweepGoes(t, q, k, left, r)
  BY SweepGoesOn
<1>2. /\ n \in Nat /\ k \in 0..n /\ k \in Nat /\ a = 0 /\ left \in Nat /\ z \in Nat
      /\ left + z = t.quantity
      /\ \A i \in 1..k : Crosses(t, q[i].price)
  BY <1>0, <1>1 DEF SweepGoes
<1>3. Len(r) = n - k /\ \A i \in 1..(n - k) : r[i] = q[k + i]
  BY <1>0, <1>1 DEF SweepGoes
<1>4. k + 1 \in 1..n /\ r[1] = q[k + 1] /\ r[1].remaining = x /\ k < n
  BY <1>0, <1>1 DEF SweepGoes
<1>5. Swept(t, q, k, left, 0)
  <2>1. 0 + left + z = t.quantity
    BY <1>2
  <2> QED
    BY <1>1, <1>2, <1>4, <2>1 DEF Swept
<1>6. LeftBySweep(s, q, k, left)
  <2>1. /\ Len(s) = n - k /\ s[1] = [q[k + 1] EXCEPT !.remaining = @ - left]
        /\ \A i \in 2..(n - k) : s[i] = r[i]
    BY <1>3, <1>4 DEF Fronted
  <2>2. \A i \in 1..(n - k) : i = 1 \/ i \in 2..(n - k)
    BY <1>2
  <2> QED
    BY <1>1, <1>3, <2>1, <2>2 DEF LeftBySweep
<1>7. PICK e, f : e = FillOf(q[k + 1], left) /\ f = Append(fills, e)
  OBVIOUS
<1>8. Len(fills) = k /\ \A i \in 1..k : fills[i] = FillOf(q[i], q[i].remaining)
  BY <1>2 DEF FillsOfSweep
<1>9. Len(f) = k + 1 /\ f[k + 1] = e /\ \A i \in 1..k : f[i] = fills[i]
  BY <1>2, <1>7, <1>8
<1>10. FillsOfSweep(f, q, k, left)
  BY <1>2, <1>7, <1>8, <1>9 DEF FillsOfSweep
<1> QED
  BY <1>4, <1>5, <1>6, <1>7, <1>10

\* Best first.
Sorted(side, q) ==
  \A i, j \in 1..Len(q) : i < j => ~Better(side, q[j].price, q[i].price)

\* When the order does not cross the front of what is left, or nothing is left of
\* either, the loop has stopped.
LEMMA SweepStops ==
  ASSUME OrderBookAssumption, NEW q, q \in Seq(Order), NEW t, t.price \in Nat,
         Sorted(Opposite(t.side), q),
         NEW k, NEW a, NEW left, Swept(t, q, k, a, left),
         NEW r, r \in Seq(Order), LeftBySweep(r, q, k, a),
         left = 0 \/ Len(r) = 0 \/ ~Crosses(t, r[1].price)
  PROVE  Stopped(t, q, k, left)
<1>1. PICK n, side : n = Len(q) /\ side = Opposite(t.side)
  OBVIOUS
<1>2. n \in Nat /\ k \in 0..n /\ k \in Nat /\ a \in Nat
  BY <1>1 DEF Swept
<1>3. Len(r) = n - k
  BY <1>1 DEF LeftBySweep
<1>4. CASE left = 0
  BY <1>4 DEF Stopped
<1>5. CASE Len(r) = 0
  BY <1>1, <1>2, <1>3, <1>5 DEF Stopped
<1>6. CASE Len(r) # 0 /\ ~Crosses(t, r[1].price)
  <2>1. k + 1 \in 1..n /\ 1 \in 1..(n - k)
    BY <1>2, <1>3, <1>6
  <2>2. q[k + 1] \in Order /\ q[k + 1].price \in Nat
    BY <1>1, <2>1, OrdersAreEntries
  <2>3. r[1].price = q[k + 1].price
    <3>1. r[1] = IF a > 0 THEN [q[k + 1] EXCEPT !.remaining = @ - a] ELSE q[k + 1]
      BY <1>1, <2>1 DEF LeftBySweep
    <3> QED
      BY <2>2, <3>1 DEF Order
  <2>4. ASSUME NEW i, i \in 1..n, k < i, Crosses(t, q[i].price) PROVE FALSE
    <3>1. q[i].price \in Nat
      BY <1>1, <2>4, OrdersAreEntries
    <3>2. ~Better(side, q[i].price, q[k + 1].price)
      <4>1. CASE i = k + 1
        BY <2>2, <4>1, BetterOrder
      <4>2. CASE i # k + 1
        <5>1. k + 1 < i
          BY <1>2, <2>4, <4>2
        <5> QED
          BY <1>1, <2>1, <2>4, <5>1 DEF Sorted
      <4> QED
        BY <4>1, <4>2
    <3>3. t.type # "market" /\ q[k + 1].price # t.price /\ ~Better(side, q[k + 1].price, t.price)
      BY <1>1, <1>6, <2>3 DEF Crosses
    <3>4. Better(side, t.price, q[k + 1].price)
      BY <2>2, <3>3, BetterOrder
    <3>5. q[i].price = t.price \/ Better(side, q[i].price, t.price)
      BY <1>1, <2>4, <3>3 DEF Crosses
    <3> QED
      BY <2>2, <3>1, <3>2, <3>4, <3>5 DEF Better
  <2> QED
    BY <1>1, <2>4 DEF Stopped
<1> QED
  BY <1>4, <1>5, <1>6

-----------------------------------------------------------------------------

\* The levels of a list are the levels of the tree, and they are finite.
LEMMA LevelsFinite ==
  ASSUME NEW q, q \in Seq(Order)
  PROVE  /\ IsFiniteSet(Levels(q)) /\ Cardinality(Levels(q)) \in Nat
         /\ Levels(q) = {q[i].price : i \in 1..Len(q)}
<1>1. PICK S : S = 1..Len(q)
  OBVIOUS
<1>2. IsFiniteSet(S)
  <2>1. 1 \in Int /\ Len(q) \in Int
    OBVIOUS
  <2> QED
    BY <1>1, <2>1, FS_Interval
<1>3. Levels(q) = {q[i].price : i \in S}
  <2>1. DOMAIN q = S
    BY <1>1
  <2> QED
    BY <2>1 DEF Levels
<1>4. IsFiniteSet({q[i].price : i \in S})
  <2>1. PICK f : f = [i \in S |-> q[i].price]
    OBVIOUS
  <2>2. {q[i].price : i \in S} = {f[i] : i \in S}
    BY <2>1
  <2>3. PICK T : T = {f[i] : i \in S}
    OBVIOUS
  <2>4. f \in Surjection(S, T)
    BY <2>1, <2>3 DEF Surjection
  <2>5. IsFiniteSet(T)
    BY <1>2, <2>4, FS_Surjection
  <2> QED
    BY <2>2, <2>3, <2>5
<1> QED
  BY <1>1, <1>3, <1>4, FS_CardinalityType

\* The keys of the tree are the prices on the list.
LEMMA ListsLevels ==
  ASSUME OrderBookAssumption, NEW side, NEW s, NEW F, Lists(side, s, F)
  PROVE  DOMAIN s.levels = Levels(F)
<1>1. PICK start : Walk(side, s.levels, F, start)
  BY DEF Lists
<1>2. F \in Seq(Order) /\ Levels(F) = {F[k].price : k \in 1..Len(F)}
  BY <1>1, LevelsFinite DEF Walk
<1>3. ASSUME NEW p, p \in DOMAIN s.levels PROVE p \in Levels(F)
  <2>1. PICK a, d : a = start[p] /\ d = Len(s.levels[p])
    OBVIOUS
  <2>2. a \in Nat /\ d \in Nat
    BY <1>1, <1>3, <2>1, WalkParts
  <2>3. d > 0 /\ a + d <= Len(F) /\ Len(F) \in Nat
    BY <1>1, <1>2, <1>3, <2>1 DEF Walk
  <2>6. PICK k : k = a + 1
    OBVIOUS
  <2>4. k \in 1..Len(F) /\ a < k /\ k <= a + d
    BY <2>2, <2>3, <2>6
  <2>5. F[k].price = p
    BY <1>1, <1>3, <2>1, <2>4, WalkParts
  <2> QED
    BY <1>2, <2>4, <2>5
<1>4. ASSUME NEW p, p \in Levels(F) PROVE p \in DOMAIN s.levels
  <2>1. PICK k \in 1..Len(F) : p = F[k].price
    BY <1>2, <1>4
  <2> QED
    BY <1>1, <2>1 DEF Walk
<1> QED
  BY <1>3, <1>4

\* The eviction loop has cut the list q into r, what is left, and o, what it has
\* evicted, between two levels, and never went below max levels.
CutAt(q, r, o, c, max) ==
  /\ Prefix(r, q, c) /\ Suffix(o, q, c)
  /\ \A i \in 1..c : \A j \in 1..Len(q) : c < j => q[i].price # q[j].price
  /\ c < Len(q) => Cardinality(Levels(r)) >= max

\* When no more than max levels are left, the cut is the one the ranks make.
LEMMA CutKeeps ==
  ASSUME OrderBookAssumption, NEW side, NEW q, q \in Seq(Order), Sorted(side, q),
         NEW r, r \in Seq(Order), NEW o, o \in Seq(Order), NEW c, NEW max, max \in Nat,
         CutAt(q, r, o, c, max), Cardinality(Levels(r)) <= max
  PROVE  Kept(side, q, max) = r /\ Evicted(side, q, max) = o
<1>1. PICK n, R, Q : n = Len(q) /\ R = Levels(r) /\ Q = Levels(q)
  OBVIOUS
<1>2. /\ n \in Nat /\ c \in 0..n /\ c \in Nat /\ Len(r) = c /\ \A i \in 1..c : r[i] = q[i]
      /\ \A i \in 1..c : \A j \in 1..n : c < j => q[i].price # q[j].price
      /\ c < n => Cardinality(R) >= max
  BY <1>1 DEF CutAt, Prefix
<1>3. /\ IsFiniteSet(R) /\ Cardinality(R) \in Nat /\ IsFiniteSet(Q)
      /\ R = {q[i].price : i \in 1..c} /\ Q = {q[i].price : i \in 1..n}
      /\ Cardinality(R) <= max
  <2>1. IsFiniteSet(R) /\ Cardinality(R) \in Nat /\ IsFiniteSet(Q)
    BY <1>1, LevelsFinite
  <2>2. R = {r[i].price : i \in 1..Len(r)} /\ Q = {q[i].price : i \in 1..n}
    BY <1>1, LevelsFinite
  <2>3. R = {q[i].price : i \in 1..c}
    BY <1>2, <2>2
  <2> QED
    BY <1>1, <2>1, <2>2, <2>3
<1>4. \A i \in 1..n : q[i].price \in Nat
  BY <1>1, OrdersAreEntries
<1>5. ASSUME NEW i, i \in 1..n
      PROVE  Rank(side, q, i) < max <=> i <= c
  <2>1. PICK x, W : x = q[i].price /\ W = {p \in Q : Better(side, p, x)}
    OBVIOUS
  <2>2. Rank(side, q, i) = Cardinality(W)
    BY <1>1, <2>1 DEF Rank
  <2>3. IsFiniteSet(W) /\ Cardinality(W) \in Nat
    <3>1. W \in SUBSET Q
      BY <2>1
    <3> QED
      BY <1>3, <3>1, FS_Subset, FS_CardinalityType
  <2>4. CASE i <= c
    <3>1. x \in R
      <4>1. i \in 1..c
        BY <1>2, <1>5, <2>4
      <4> QED
        BY <1>3, <2>1, <4>1
    <3>2. ASSUME NEW p, p \in W PROVE p \in R \ {x}
      <4>1. PICK j \in 1..n : p = q[j].price
        BY <1>3, <2>1, <3>2
      <4>2. Better(side, p, x)
        BY <2>1, <3>2
      <4>3. ~(i < j)
        BY <1>1, <1>5, <2>1, <4>1, <4>2 DEF Sorted
      <4>4. j \in 1..c
        BY <1>2, <1>5, <2>4, <4>1, <4>3
      <4>5. p # x
        BY <1>4, <1>5, <2>1, <4>2, BetterOrder
      <4> QED
        BY <1>3, <4>1, <4>4, <4>5
    <3>3. IsFiniteSet(R \ {x}) /\ Cardinality(R \ {x}) = Cardinality(R) - 1
      BY <1>3, <3>1, FS_RemoveElement
    <3>4. Cardinality(W) <= Cardinality(R \ {x})
      <4>1. W \in SUBSET (R \ {x})
        BY <3>2
      <4> QED
        BY <3>3, <4>1, FS_Subset
    <3> QED
      BY <1>3, <2>2, <2>3, <2>4, <3>3, <3>4
  <2>5. CASE ~(i <= c)
    <3>1. ASSUME NEW p, p \in R PROVE p \in W
      <4>1. PICK j \in 1..c : p = q[j].price
        BY <1>3, <3>1
      <4>2. j \in 1..n /\ j < i /\ c < i
        BY <1>2, <1>5, <2>5, <4>1
      <4>3. p # x /\ ~Better(side, x, p)
        BY <1>1, <1>2, <1>5, <2>1, <4>1, <4>2 DEF Sorted
      <4>4. Better(side, p, x)
        BY <1>4, <1>5, <2>1, <4>1, <4>2, <4>3, BetterOrder
      <4> QED
        BY <1>3, <2>1, <4>1, <4>2, <4>4
    <3>2. Cardinality(R) <= Cardinality(W)
      <4>1. R \in SUBSET W
        BY <3>1
      <4> QED
        BY <2>3, <4>1, FS_Subset
    <3>3. c < n
      BY <1>2, <1>5, <2>5
    <3> QED
      BY <1>2, <1>3, <2>2, <2>3, <2>5, <3>2, <3>3
  <2> QED
    BY <2>4, <2>5
<1>6. DOMAIN q = 1..n /\ \A i \in 1..n : Rank(side, q, i) \in Nat
  <2>1. ASSUME NEW i, i \in 1..n PROVE Rank(side, q, i) \in Nat
    <3>1. PICK W : W = {p \in Levels(q) : Better(side, p, q[i].price)}
      OBVIOUS
    <3>2. W \in SUBSET Q
      BY <1>1, <3>1
    <3>3. IsFiniteSet(W)
      BY <1>3, <3>2, FS_Subset
    <3> QED
      BY <3>1, <3>3, FS_CardinalityType DEF Rank
  <2> QED
    BY <1>1, <2>1
<1>7. {i \in DOMAIN q : Rank(side, q, i) < max} = 1..c
  <2>1. {i \in DOMAIN q : Rank(side, q, i) < max} = {i \in 1..n : i <= c}
    BY <1>5, <1>6
  <2> QED
    BY <1>2, <2>1
<1>8. {i \in DOMAIN q : Rank(side, q, i) >= max} = (c + 1)..n
  <2>1. \A i \in 1..n : Rank(side, q, i) >= max <=> ~(i <= c)
    BY <1>5, <1>6
  <2>2. {i \in DOMAIN q : Rank(side, q, i) >= max} = {i \in 1..n : ~(i <= c)}
    BY <1>6, <2>1
  <2> QED
    BY <1>2, <2>2
<1>9. /\ Sub(q, 1..c) \in Seq(Order) /\ Prefix(Sub(q, 1..c), q, c)
      /\ Sub(q, (c + 1)..n) \in Seq(Order) /\ Suffix(Sub(q, (c + 1)..n), q, c)
  BY <1>1, <1>2, SubCut
<1>10. Prefix(r, q, c) /\ Suffix(o, q, c)
  BY DEF CutAt
<1>11. Sub(q, 1..c) = r /\ Sub(q, (c + 1)..n) = o
  BY <1>9, <1>10, SamePrefix, SameSuffix
<1> QED
  BY <1>7, <1>8, <1>11 DEF Kept, Evicted

\* One more turn of the eviction loop.
LEMMA CutMore ==
  ASSUME OrderBookAssumption, NEW q, q \in Seq(Order), NEW r, r \in Seq(Order),
         NEW o, o \in Seq(Order), NEW c, NEW max, max \in Nat, CutAt(q, r, o, c, max),
         NEW g, g \in Seq(Order), NEW a, Prefix(g, r, a), a < Len(r),
         NEW w, \A k \in 1..Len(r) : r[k].price = w <=> a < k,
         NEW last, last \in Seq(Order), Suffix(last, r, a), Cardinality(Levels(r)) > max
  PROVE  CutAt(q, g, last \o o, a, max)
<1>1. PICK n, R, G : n = Len(q) /\ R = Levels(r) /\ G = Levels(g)
  OBVIOUS
<1>2. /\ n \in Nat /\ c \in 0..n /\ c \in Nat /\ Len(r) = c /\ \A i \in 1..c : r[i] = q[i]
      /\ \A i \in 1..c : \A j \in 1..n : c < j => q[i].price # q[j].price
  BY <1>1 DEF CutAt, Prefix
<1>3. Len(o) = n - c /\ \A i \in 1..(n - c) : o[i] = q[c + i]
  BY <1>1 DEF CutAt, Suffix
<1>4. a \in 0..c /\ a \in Nat /\ a < c /\ Len(g) = a /\ \A i \in 1..a : g[i] = r[i]
  BY <1>2 DEF Prefix
<1>5. Len(last) = c - a /\ \A i \in 1..(c - a) : last[i] = r[a + i]
  BY <1>2 DEF Suffix
<1>6. Prefix(g, q, a)
  <2>1. \A i \in 1..a : i \in 1..c
    BY <1>2, <1>4
  <2>2. a \in 0..n
    BY <1>2, <1>4
  <2> QED
    BY <1>1, <1>2, <1>4, <2>1, <2>2 DEF Prefix
<1>7. PICK e : e = last \o o
  OBVIOUS
<1>8. Suffix(e, q, a)
  <2>1. Len(e) = n - a
    <3>1. PICK x, y : x = Len(last) /\ y = Len(o)
      OBVIOUS
    <3>2. Len(e) = x + y
      BY <1>7, <3>1
    <3>3. x = c - a /\ y = n - c
      BY <1>3, <1>5, <3>1
    <3> QED
      BY <1>2, <1>4, <3>2, <3>3
  <2>2. ASSUME NEW i, i \in 1..(n - a) PROVE e[i] = q[a + i]
    <3>1. CASE i <= c - a
      <4>1. i \in 1..(c - a) /\ a + i \in 1..c
        BY <1>2, <1>4, <2>2, <3>1
      <4>2. e[i] = last[i]
        BY <1>5, <1>7, <4>1
      <4> QED
        BY <1>2, <1>5, <4>1, <4>2
    <3>2. CASE ~(i <= c - a)
      <4>1. PICK j : j = i - (c - a)
        OBVIOUS
      <4>2. j \in 1..(n - c) /\ i = (c - a) + j /\ c + j = a + i
        BY <1>2, <1>4, <2>2, <3>2, <4>1
      <4>3. e[i] = o[j]
        <5>1. PICK x, y : x = Len(last) /\ y = Len(o)
          OBVIOUS
        <5>2. x = c - a /\ y = n - c
          BY <1>3, <1>5, <5>1
        <5>3. i \in 1..(x + y) /\ ~(i <= x) /\ j = i - x
          BY <1>2, <1>4, <2>2, <3>2, <4>1, <5>2
        <5> QED
          BY <1>7, <5>1, <5>3
      <4> QED
        BY <1>3, <4>2, <4>3
    <3> QED
      BY <3>1, <3>2
  <2>3. a \in 0..n
    BY <1>2, <1>4
  <2> QED
    BY <1>1, <2>1, <2>2, <2>3 DEF Suffix
<1>9. ASSUME NEW i, i \in 1..a, NEW j, j \in 1..n, a < j
      PROVE  q[i].price # q[j].price
  <2>1. i \in 1..c
    BY <1>2, <1>4, <1>9
  <2>2. CASE c < j
    BY <1>2, <1>9, <2>1, <2>2
  <2>3. CASE ~(c < j)
    <3>1. j \in 1..c /\ ~(a < i)
      BY <1>2, <1>4, <1>9, <2>3
    <3>2. r[i].price # w /\ r[j].price = w
      BY <1>2, <1>9, <2>1, <3>1
    <3> QED
      BY <1>2, <2>1, <3>1, <3>2
  <2> QED
    BY <2>2, <2>3
<1>10. Cardinality(G) >= max
  <2>1. IsFiniteSet(R) /\ Cardinality(R) \in Nat /\ Cardinality(R) > max
    BY <1>1, LevelsFinite
  <2>2. R = {r[i].price : i \in 1..c} /\ G = {g[i].price : i \in 1..a}
    <3>1. Levels(r) = {r[i].price : i \in 1..Len(r)}
      BY LevelsFinite
    <3>2. Levels(g) = {g[i].price : i \in 1..Len(g)}
      BY LevelsFinite
    <3>3. Len(r) = c /\ Len(g) = a /\ R = Levels(r) /\ G = Levels(g)
      BY <1>1, <1>2, <1>4
    <3> QED
      BY <3>1, <3>2, <3>3
  <2>3. w \in R
    <3>1. c \in 1..c /\ a < c /\ c \in 1..Len(r)
      BY <1>2, <1>4
    <3>2. r[c].price = w
      BY <3>1
    <3> QED
      BY <2>2, <3>1, <3>2
  <2>4. G = R \ {w}
    <3>1. ASSUME NEW p, p \in G PROVE p \in R \ {w}
      <4>1. PICK i \in 1..a : p = g[i].price
        BY <2>2, <3>1
      <4>2. i \in 1..c /\ ~(a < i)
        BY <1>2, <1>4, <4>1
      <4>3. p = r[i].price /\ r[i].price # w
        BY <1>2, <1>4, <4>1, <4>2
      <4> QED
        BY <2>2, <4>2, <4>3
    <3>2. ASSUME NEW p, p \in R, p # w PROVE p \in G
      <4>1. PICK i \in 1..c : p = r[i].price
        BY <2>2, <3>2
      <4>2. ~(a < i)
        BY <1>2, <3>2, <4>1
      <4>3. i \in 1..a
        BY <1>2, <1>4, <4>1, <4>2
      <4> QED
        BY <1>4, <2>2, <4>1, <4>3
    <3> QED
      BY <3>1, <3>2
  <2>5. Cardinality(R \ {w}) = Cardinality(R) - 1
    BY <2>1, <2>3, FS_RemoveElement
  <2> QED
    BY <2>1, <2>4, <2>5
<1> QED
  BY <1>1, <1>6, <1>7, <1>8, <1>9, <1>10 DEF CutAt

\* Nothing is cut yet.
LEMMA CutNothing ==
  ASSUME NEW q, q \in Seq(Order), NEW max
  PROVE  CutAt(q, q, <<>>, Len(q), max)
<1>1. Len(q) \in Nat /\ Len(q) \in 0..Len(q)
  OBVIOUS
<1>2. Prefix(q, q, Len(q))
  BY <1>1 DEF Prefix
<1>3. Suffix(<<>>, q, Len(q))
  <2>1. Len(<<>>) = Len(q) - Len(q) /\ 1..(Len(q) - Len(q)) = {}
    BY <1>1
  <2> QED
    BY <1>1, <2>1 DEF Suffix
<1> QED
  BY <1>1, <1>2, <1>3 DEF CutAt

\* A list without the order of an ID.
LEMMA SubWithout ==
  ASSUME NEW F, F \in Seq(Order), Unique(F)
  PROVE  /\ \A k \in 1..Len(F) : \A G \in Seq(Order) :
              Removed(G, F, k) => Sub(F, {i \in DOMAIN F : F[i].id # F[k].id}) = G
         /\ \A id : id \notin IdsOf(F) => Sub(F, {i \in DOMAIN F : F[i].id # id}) = F
<1>1. PICK n : n = Len(F)
  OBVIOUS
<1>2. n \in Nat /\ DOMAIN F = 1..n
  BY <1>1
<1>3. ASSUME NEW k, k \in 1..n, NEW G, G \in Seq(Order), Removed(G, F, k)
      PROVE  Sub(F, {i \in DOMAIN F : F[i].id # F[k].id}) = G
  <2>1. {i \in DOMAIN F : F[i].id # F[k].id} = DOMAIN F \ {k}
    BY <1>1, <1>2, <1>3 DEF Unique
  <2>2. /\ Sub(F, DOMAIN F \ {k}) \in Seq(Order)
        /\ Removed(Sub(F, DOMAIN F \ {k}), F, k)
    BY <1>1, <1>3, SubBut
  <2>3. Sub(F, DOMAIN F \ {k}) = G
    BY <1>3, <2>2, SameRemoved
  <2> QED
    BY <2>1, <2>3
<1>4. ASSUME NEW id, id \notin IdsOf(F)
      PROVE  Sub(F, {i \in DOMAIN F : F[i].id # id}) = F
  <2>1. {i \in DOMAIN F : F[i].id # id} = 1..n
    BY <1>1, <1>2, <1>4 DEF IdsOf
  <2>2. n \in 0..Len(F)
    BY <1>1, <1>2
  <2>3. Sub(F, 1..n) \in Seq(Order) /\ Prefix(Sub(F, 1..n), F, n)
    BY <2>2, SubCut
  <2>4. Prefix(F, F, n)
    BY <1>1, <2>2 DEF Prefix
  <2>5. Sub(F, 1..n) = F
    BY <2>3, <2>4, SamePrefix
  <2> QED
    BY <2>1, <2>5
<1> QED
  BY <1>1, <1>3, <1>4

-----------------------------------------------------------------------------

\* The operators of the abstract specification are those of PriceTime.
LEMMA AbstractParts ==
  ASSUME NEW order, NEW queue, NEW side, NEW max, NEW e, NEW qty
  PROVE  /\ Abstract!Opposite(side) = Opposite(side)
         /\ Abstract!Entry(order, qty) = Entry(order, qty)
         /\ Abstract!Taken(order, queue) = Taken(order, queue)
         /\ Abstract!Fills(order, queue) = Fills(order, queue)
         /\ Abstract!Unfilled(order, queue) = Unfilled(order, queue)
         /\ Abstract!AfterFills(order, queue) = AfterFills(order, queue)
         /\ Abstract!Rest(side, queue, e) = Rest(side, queue, e)
         /\ Abstract!Kept(side, queue, max) = Kept(side, queue, max)
         /\ Abstract!Evicted(side, queue, max) = Evicted(side, queue, max)
<1>1. Abstract!Opposite(side) = Opposite(side)
  BY DEF Abstract!Opposite, Opposite
<1>2. Abstract!Entry(order, qty) = Entry(order, qty)
  BY DEF Abstract!Entry, Entry
<1>3. Abstract!Taken(order, queue) = Taken(order, queue)
  BY DEF Abstract!Taken, Taken, Abstract!Crosses, Crosses, Abstract!Better, Better,
         Abstract!Opposite, Opposite, Abstract!Ahead, Ahead, Abstract!Total, Total,
         Abstract!Units, Units, Abstract!UnitsOf, UnitsOf, Abstract!Min64, Min64,
         Abstract!Cardinality, Cardinality
<1>4. \A q, P : Abstract!Sub(q, P) = Sub(q, P)
  BY DEF Abstract!Sub, Sub, Abstract!Nth, Nth, Abstract!Cardinality, Cardinality
<1>5. Abstract!Fills(order, queue) = Fills(order, queue)
  BY <1>3, <1>4 DEF Abstract!Fills, Fills
<1>6. Abstract!Unfilled(order, queue) = Unfilled(order, queue)
  BY <1>3 DEF Abstract!Unfilled, Unfilled, Abstract!Total, Total, Abstract!Units, Units,
         Abstract!UnitsOf, UnitsOf, Abstract!Cardinality, Cardinality
<1>7. Abstract!AfterFills(order, queue) = AfterFills(order, queue)
  BY <1>3, <1>4 DEF Abstract!AfterFills, AfterFills
<1>8. Abstract!Rest(side, queue, e) = Rest(side, queue, e)
  BY DEF Abstract!InsertAt, InsertAt, Abstract!Rest, Rest, Abstract!Better, Better,
         Abstract!Cardinality, Cardinality
<1>9. \A i : Abstract!Rank(side, queue, i) = Rank(side, queue, i)
  BY DEF Abstract!Rank, Rank, Abstract!Levels, Levels, Abstract!Better, Better,
         Abstract!Cardinality, Cardinality
<1>10. Abstract!Kept(side, queue, max) = Kept(side, queue, max)
  BY <1>4, <1>9 DEF Abstract!Kept, Kept
<1>11. Abstract!Evicted(side, queue, max) = Evicted(side, queue, max)
  BY <1>4, <1>9 DEF Abstract!Evicted, Evicted
<1> QED
  BY <1>1, <1>2, <1>3, <1>5, <1>6, <1>7, <1>8, <1>10, <1>11

\* So are those of a whole book.
LEMMA AbstractOperators ==
  ASSUME NEW order, NEW book, NEW id, NEW max
  PROVE  /\ Abstract!AfterPlace(order, book) = AfterPlace(order, book)
         /\ Abstract!Without(id, book) = Without(id, book)
         /\ Abstract!AfterEvict(book, max) = AfterEvict(book, max)
<1>1. Abstract!AfterPlace(order, book) = AfterPlace(order, book)
  <2>1. \A s : Abstract!Opposite(s) = Opposite(s)
    BY AbstractParts
  <2>2. \A q : Abstract!Unfilled(order, q) = Unfilled(order, q)
    BY AbstractParts
  <2>3. \A q : Abstract!AfterFills(order, q) = AfterFills(order, q)
    BY AbstractParts
  <2>4. \A s, q, x : Abstract!Rest(s, q, x) = Rest(s, q, x)
    BY AbstractParts
  <2>5. \A x : Abstract!Entry(order, x) = Entry(order, x)
    BY AbstractParts
  <2>6. PICK opp : opp = Opposite(order.side)
    OBVIOUS
  <2>7. PICK left : left = Unfilled(order, book[opp])
    OBVIOUS
  <2>8. PICK rest : rest = AfterFills(order, book[opp])
    OBVIOUS
  <2>9. PICK own : own = Rest(order.side, book[order.side], Entry(order, left))
    OBVIOUS
  <2>10. AfterPlace(order, book) =
           [book EXCEPT ![opp] = rest,
                        ![order.side] = IF order.type = "limit" /\ left > 0
                                        THEN own ELSE book[order.side]]
    BY <2>6, <2>7, <2>8, <2>9 DEF AfterPlace
  <2>11. Abstract!AfterPlace(order, book) =
           [book EXCEPT ![opp] = rest,
                        ![order.side] = IF order.type = "limit" /\ left > 0
                                        THEN own ELSE book[order.side]]
    BY <2>1, <2>2, <2>3, <2>4, <2>5, <2>6, <2>7, <2>8, <2>9 DEF Abstract!AfterPlace
  <2> QED
    BY <2>10, <2>11
<1>2. Abstract!Without(id, book) = Without(id, book)
  BY DEF Abstract!Without, Without, Abstract!Sides, Sides, Abstract!Sub, Sub, Abstract!Nth,
         Nth, Abstract!Cardinality, Cardinality
<1>3. Abstract!AfterEvict(book, max) = AfterEvict(book, max)
  <2>1. \A s, q : Abstract!Kept(s, q, max) = Kept(s, q, max)
    BY AbstractParts
  <2> QED
    BY <2>1 DEF Abstract!AfterEvict, AfterEvict, Abstract!Sides, Sides
<1> QED
  BY <1>1, <1>2, <1>3
-----------------------------------------------------------------------------

\* The sides S hold the lists B: no order is on both, the IDs go up to n, and every
\* bid is below every ask.
Book(S, B, n) ==
  /\ S = [side \in Sides |-> S[side]]
  /\ B = [side \in Sides |-> B[side]]
  /\ \A side \in Sides : Lists(side, S[side], B[side]) /\ IdsOf(B[side]) \subseteq 1..n
  /\ IdsOf(B["buy"]) \cap IdsOf(B["sell"]) = {}
  /\ \A bid \in Levels(B["buy"]), ask \in Levels(B["sell"]) : bid < ask

\* The two sides are each other's opposite.
LEMMA TwoSides ==
  /\ \A side \in Sides : /\ Opposite(side) \in Sides /\ Opposite(side) # side
                         /\ \A s \in Sides : s = side \/ s = Opposite(side)
  /\ "buy" \in Sides /\ "sell" \in Sides
  BY DEF Sides, Opposite

\* A new book.
LEMMA BookNew ==
  ASSUME OrderBookAssumption
  PROVE  Book([side \in Sides |-> NewOrderSide], [side \in Sides |-> <<>>], 0)
<1>1. PICK S, B : S = [side \in Sides |-> NewOrderSide] /\ B = [side \in Sides |-> <<>>]
  OBVIOUS
<1>2. S = [side \in Sides |-> S[side]] /\ B = [side \in Sides |-> B[side]]
  BY <1>1
<1>3. IdsOf(<<>>) = {} /\ Levels(<<>>) = {}
  BY DEF IdsOf, Levels
<1>4. \A side \in Sides : S[side] = NewOrderSide /\ B[side] = <<>>
  BY <1>1
<1>5. \A side \in Sides : Lists(side, NewOrderSide, <<>>)
  BY ListsNew
<1>6. B["buy"] = <<>> /\ B["sell"] = <<>>
  BY <1>4, TwoSides
<1>7. Book(S, B, 0)
  BY <1>2, <1>3, <1>4, <1>5, <1>6 DEF Book
<1> QED
  BY <1>1, <1>7

\* What the sides then are: consistent, of their types, and the lists are what a
\* walk of their trees gives.
LEMMA BookParts ==
  ASSUME OrderBookAssumption, NEW S, NEW B, NEW n \in Nat, Book(S, B, n)
  PROVE  /\ [side \in Sides |-> Flatten(side, S[side])] = B
         /\ \A side \in Sides :
              /\ SideConsistent(S[side])
              /\ DOMAIN S[side].levels = Levels(B[side])
              /\ DOMAIN S[side].levels \subseteq Prices
              /\ DOMAIN S[side].orders = IdsOf(B[side])
              /\ DOMAIN S[side].orders \subseteq 1..n
              /\ S[side].volume \in Nat /\ S[side].count \in Nat
              /\ B[side] \in Seq(Order) /\ Unique(B[side]) /\ Sorted(side, B[side])
<1>1. \A side \in Sides : Lists(side, S[side], B[side]) /\ IdsOf(B[side]) \subseteq 1..n
  BY DEF Book
<1>2. ASSUME NEW side \in Sides
      PROVE  /\ SideConsistent(S[side]) /\ Flatten(side, S[side]) = B[side]
             /\ DOMAIN S[side].levels = Levels(B[side])
             /\ DOMAIN S[side].levels \subseteq Prices
             /\ DOMAIN S[side].orders = IdsOf(B[side])
             /\ DOMAIN S[side].orders \subseteq 1..n
             /\ S[side].volume \in Nat /\ S[side].count \in Nat
             /\ B[side] \in Seq(Order) /\ Unique(B[side]) /\ Sorted(side, B[side])
  <2>1. PICK s, F : s = S[side] /\ F = B[side]
    OBVIOUS
  <2>2. Lists(side, s, F) /\ IdsOf(F) \subseteq 1..n
    BY <1>1, <2>1
  <2>3. SideConsistent(s) /\ Flatten(side, s) = F
    BY <2>2, ListsConsistent
  <2>4. DOMAIN s.levels = Levels(F)
    BY <2>2, ListsLevels
  <2>5. /\ DOMAIN s.levels \subseteq Prices /\ s.volume \in Nat /\ s.count \in Nat
        /\ F \in Seq(Order)
    BY <2>2, ListParts
  <2>6. DOMAIN s.orders = IdsOf(F) /\ Unique(F) /\ \E start : Walk(side, s.levels, F, start)
    BY <2>2, Zenon DEF Lists
  <2>7. Sorted(side, F)
    BY <2>6, WalkSorted DEF Sorted
  <2> QED
    BY <2>1, <2>2, <2>3, <2>4, <2>5, <2>6, <2>7
<1>3. B = [side \in Sides |-> B[side]]
  BY DEF Book
<1>4. [side \in Sides |-> Flatten(side, S[side])] = [side \in Sides |-> B[side]]
  BY <1>2
<1> QED
  BY <1>2, <1>3, <1>4

\* A list with the IDs and prices of the other at most.
LEMMA BookShrinks ==
  ASSUME NEW S, NEW B, NEW n, Book(S, B, n), NEW side \in Sides,
         NEW s, NEW G, Lists(side, s, G), IdsOf(G) \subseteq IdsOf(B[side]),
         Levels(G) \subseteq Levels(B[side])
  PROVE  Book([S EXCEPT ![side] = s], [B EXCEPT ![side] = G], n)
<1>1. PICK T, C : T = [S EXCEPT ![side] = s] /\ C = [B EXCEPT ![side] = G]
  OBVIOUS
<1>2. S = [x \in Sides |-> S[x]] /\ B = [x \in Sides |-> B[x]]
  BY DEF Book
<1>3. /\ T = [x \in Sides |-> T[x]] /\ C = [x \in Sides |-> C[x]]
      /\ T[side] = s /\ C[side] = G
      /\ \A x \in Sides : x # side => T[x] = S[x] /\ C[x] = B[x]
  BY <1>1, <1>2
<1>4. \A x \in Sides : IdsOf(C[x]) \subseteq IdsOf(B[x]) /\ Levels(C[x]) \subseteq Levels(B[x])
  BY <1>3
<1>5. \A x \in Sides : Lists(x, T[x], C[x])
  <2>1. \A x \in Sides : Lists(x, S[x], B[x])
    BY DEF Book
  <2> QED
    BY <1>3, <2>1
<1>6. \A x \in Sides : IdsOf(C[x]) \subseteq 1..n
  BY <1>4 DEF Book
<1>7. IdsOf(C["buy"]) \cap IdsOf(C["sell"]) = {}
  BY <1>4, TwoSides DEF Book
<1>8. \A bid \in Levels(C["buy"]), ask \in Levels(C["sell"]) : bid < ask
  BY <1>4, TwoSides DEF Book
<1>9. Book(T, C, n)
  BY <1>3, <1>5, <1>6, <1>7, <1>8 DEF Book
<1> QED
  BY <1>1, <1>9

\* What an order joining a side does to its IDs and its levels.
LEMMA RestAdds ==
  ASSUME OrderBookAssumption, NEW side, NEW s, NEW F, Lists(side, s, F),
         NEW e, e \in Order, e.id \notin IdsOf(F)
  PROVE  /\ Lists(side, Add(s, e), Rest(side, F, e))
         /\ IdsOf(Rest(side, F, e)) = IdsOf(F) \cup {e.id}
         /\ Levels(Rest(side, F, e)) = Levels(F) \cup {e.price}
<1>1. PICK s1, G : s1 = Add(s, e) /\ G = Rest(side, F, e)
  OBVIOUS
<1>2. DOMAIN s.orders = IdsOf(F)
  BY DEF Lists
<1>3. Lists(side, s1, G)
  BY <1>1, <1>2, ListsWith
<1>4. DOMAIN s1.orders = IdsOf(G)
  BY <1>3 DEF Lists
<1>5. DOMAIN s.levels = Levels(F) /\ DOMAIN s1.levels = Levels(G)
  BY <1>3, ListsLevels
<1>6. DOMAIN s1.orders = DOMAIN s.orders \cup {e.id}
  BY <1>1 DEF Add, Put
<1>7. DOMAIN s1.levels = DOMAIN s.levels \cup {e.price}
  BY <1>1 DEF Add, Put
<1> QED
  BY <1>1, <1>2, <1>3, <1>4, <1>5, <1>6, <1>7

\* A list with one more order, of an ID the book does not have and at a price that
\* does not cross the other side.
LEMMA BookGrows ==
  ASSUME OrderBookAssumption, NEW S, NEW B, NEW n \in Nat, Book(S, B, n),
         NEW side \in Sides, NEW e, e \in Order, e.id = n + 1,
         \A p \in Levels(B[Opposite(side)]) : Better(Opposite(side), e.price, p)
  PROVE  Book([S EXCEPT ![side] = Add(@, e)], [B EXCEPT ![side] = Rest(side, @, e)], n + 1)
<1>1. PICK s, G : s = Add(S[side], e) /\ G = Rest(side, B[side], e)
  OBVIOUS
<1>2. PICK T, C : T = [S EXCEPT ![side] = s] /\ C = [B EXCEPT ![side] = G]
  OBVIOUS
<1>3. S = [x \in Sides |-> S[x]] /\ B = [x \in Sides |-> B[x]]
  BY DEF Book
<1>4. /\ T = [x \in Sides |-> T[x]] /\ C = [x \in Sides |-> C[x]]
      /\ T[side] = s /\ C[side] = G
      /\ \A x \in Sides : x # side => T[x] = S[x] /\ C[x] = B[x]
  BY <1>2, <1>3
<1>5. \A x \in Sides : Lists(x, S[x], B[x]) /\ IdsOf(B[x]) \subseteq 1..n
  BY DEF Book
<1>6. e.id \notin IdsOf(B[side])
  <2>1. n + 1 \notin 1..n
    OBVIOUS
  <2> QED
    BY <1>5, <2>1
<1>7. /\ Lists(side, s, G) /\ IdsOf(G) = IdsOf(B[side]) \cup {e.id}
      /\ Levels(G) = Levels(B[side]) \cup {e.price}
  <2>1. Lists(side, S[side], B[side])
    BY <1>5
  <2> QED
    BY <1>1, <1>6, <2>1, RestAdds
<1>8. \A x \in Sides : Lists(x, T[x], C[x])
  BY <1>4, <1>5, <1>7
<1>9. \A x \in Sides : IdsOf(C[x]) \subseteq 1..(n + 1)
  <2>1. \A x \in Sides : IdsOf(C[x]) \subseteq IdsOf(B[x]) \cup {n + 1}
    BY <1>4, <1>7
  <2>2. n + 1 \in 1..(n + 1) /\ 1..n \subseteq 1..(n + 1)
    OBVIOUS
  <2> QED
    BY <1>5, <2>1, <2>2
<1>10. PICK opp : opp = Opposite(side)
  OBVIOUS
<1>11. opp \in Sides /\ opp # side /\ C[opp] = B[opp]
  BY <1>4, <1>10, TwoSides
<1>12. IdsOf(C[side]) \cap IdsOf(C[opp]) = {}
  <2>1. IdsOf(B[side]) \cap IdsOf(B[opp]) = {}
    BY <1>10 DEF Book, Sides, Opposite
  <2>2. n + 1 \notin IdsOf(B[opp])
    <3>1. n + 1 \notin 1..n
      OBVIOUS
    <3> QED
      BY <1>5, <1>11, <3>1
  <2> QED
    BY <1>4, <1>7, <1>11, <2>1, <2>2
<1>13. IdsOf(C["buy"]) \cap IdsOf(C["sell"]) = {}
  BY <1>10, <1>12 DEF Sides, Opposite
<1>14. \A bid \in Levels(C["buy"]), ask \in Levels(C["sell"]) : bid < ask
  <2>1. \A bid \in Levels(B["buy"]), ask \in Levels(B["sell"]) : bid < ask
    BY DEF Book
  <2>2. Levels(C[side]) = Levels(B[side]) \cup {e.price} /\ Levels(C[opp]) = Levels(B[opp])
    BY <1>4, <1>7, <1>11
  <2>3. \A p \in Levels(B[opp]) : Better(opp, e.price, p)
    BY <1>10
  <2>4. CASE side = "buy"
    <3>1. opp = "sell"
      BY <1>10, <2>4 DEF Opposite
    <3>2. \A ask \in Levels(B["sell"]) : e.price < ask
      BY <2>3, <3>1 DEF Better
    <3> QED
      BY <2>1, <2>2, <2>4, <3>1, <3>2
  <2>5. CASE side = "sell"
    <3>1. opp = "buy"
      BY <1>10, <2>5 DEF Opposite
    <3>2. \A bid \in Levels(B["buy"]) : e.price > bid
      BY <2>3, <3>1 DEF Better
    <3>3. \A bid \in Levels(B["buy"]) : bid < e.price
      <4>1. Levels(B["buy"]) \subseteq Nat /\ e.price \in Nat
        <5>1. B["buy"] \in Seq(Order)
          BY <1>5, ListParts, TwoSides
        <5>2. \A i \in DOMAIN B["buy"] : B["buy"][i].price \in Nat
          BY <5>1, OrdersAreEntries
        <5> QED
          BY <5>2 DEF Levels, Order, OrderBookAssumption
      <4> QED
        BY <3>2, <4>1
    <3> QED
      BY <2>1, <2>2, <2>5, <3>1, <3>3
  <2> QED
    BY <2>4, <2>5 DEF Sides
<1>15. Book(T, C, n + 1)
  BY <1>4, <1>8, <1>9, <1>13, <1>14 DEF Book
<1> QED
  BY <1>1, <1>2, <1>15

\* The bound on the IDs may grow.
LEMMA BookLater ==
  ASSUME NEW S, NEW B, NEW n \in Nat, Book(S, B, n)
  PROVE  Book(S, B, n + 1)
<1>1. 1..n \subseteq 1..(n + 1)
  OBVIOUS
<1>2. \A side \in Sides : IdsOf(B[side]) \subseteq 1..n /\ Lists(side, S[side], B[side])
  BY DEF Book
<1>3. \A side \in Sides : Lists(side, S[side], B[side]) /\ IdsOf(B[side]) \subseteq 1..(n + 1)
  BY <1>1, <1>2
<1> QED
  BY <1>3 DEF Book

-----------------------------------------------------------------------------

\* The call that places an order, between two iterations of its fill loop.
PlaceCall(t, left, fills) ==
  [op |-> "place", taker |-> t, left |-> left, fills |-> fills]

\* The lists V, which callers saw last, were those of a book with IDs up to n.
Seen(V, n) ==
  /\ V = [side \in Sides |-> V[side]]
  /\ \A side \in Sides : /\ V[side] \in Seq(Order) /\ IdsOf(V[side]) \subseteq 1..n
                         /\ Sorted(side, V[side])

\* The order t has been swept through the book that callers saw: the other side's
\* list lacks what the fills say, and nothing else has changed.
Sweeping(t, left, fills, k, a, S, B, V, n) ==
  LET opp == Opposite(t.side)
  IN  /\ t \in Incoming /\ t.id = n + 1
      /\ Book(S, B, n)
      /\ Seen(V, n) /\ V[t.side] = B[t.side]
      /\ Swept(t, V[opp], k, a, left)
      /\ LeftBySweep(B[opp], V[opp], k, a)
      /\ fills \in Seq(FillSet(Nat, Owners)) /\ FillsOfSweep(fills, V[opp], k, a)

\* What may be placed.
LEMMA IncomingParts ==
  ASSUME OrderBookAssumption, NEW t \in Incoming
  PROVE  /\ t.id \in Nat \ {0} /\ t.id <= MaxOrders /\ t.owner \in Owners /\ t.side \in Sides
         /\ t.price \in Nat /\ t.quantity \in Nat \ {0} /\ t.type \in {"limit", "market"}
         /\ t.type = "limit" => t.price \in Prices /\ t.price > 0
         /\ t.type = "market" => t.price = 0
<1>1. /\ \A p \in Prices : p \in Nat /\ p > 0
      /\ \A x \in Quantities : x \in Nat \ {0}
      /\ MaxOrders \in Nat
  BY DEF OrderBookAssumption
<1>2. CASE t \in [id : 1..MaxOrders, owner : Owners, side : Sides, type : {"limit"},
                  price : Prices, quantity : Quantities]
  <2>1. /\ t.id \in 1..MaxOrders /\ t.owner \in Owners /\ t.side \in Sides
        /\ t.price \in Prices /\ t.quantity \in Quantities /\ t.type = "limit"
    BY <1>2
  <2>2. t.type \in {"limit", "market"} /\ t.type # "market"
    BY <2>1
  <2>3. t.price \in Nat /\ t.quantity \in Nat \ {0} /\ (t.price \in Prices => t.price > 0)
    BY <1>1, <2>1
  <2>4. t.id \in Nat \ {0} /\ t.id <= MaxOrders
    BY <1>1, <2>1
  <2> QED
    BY <2>1, <2>2, <2>3, <2>4, Zenon
<1>3. CASE t \in [id : 1..MaxOrders, owner : Owners, side : Sides, type : {"market"},
                  price : {0}, quantity : Quantities]
  <2>1. /\ t.id \in 1..MaxOrders /\ t.owner \in Owners /\ t.side \in Sides
        /\ t.price = 0 /\ t.quantity \in Quantities /\ t.type = "market"
    BY <1>3
  <2>2. t.type \in {"limit", "market"} /\ t.type # "limit"
    BY <2>1
  <2>3. t.price \in Nat /\ t.quantity \in Nat \ {0}
    <3>1. t.price \in Nat
      BY <2>1
    <3>2. t.quantity \in Quantities
      BY <2>1
    <3> QED
      BY <1>1, <3>1, <3>2, Zenon
  <2>4. t.id \in Nat \ {0} /\ t.id <= MaxOrders
    BY <1>1, <2>1
  <2> QED
    BY <2>1, <2>2, <2>3, <2>4, Zenon
<1> QED
  BY <1>2, <1>3 DEF Incoming

\* Callers see a book's lists when the mutex is free.
LEMMA BookSeen ==
  ASSUME OrderBookAssumption, NEW S, NEW B, NEW n \in Nat, Book(S, B, n)
  PROVE  Seen(B, n)
<1>1. B = [side \in Sides |-> B[side]] /\ \A side \in Sides : IdsOf(B[side]) \subseteq 1..n
  BY DEF Book
<1>2. \A side \in Sides : B[side] \in Seq(Order) /\ Sorted(side, B[side])
  BY BookParts
<1> QED
  BY <1>1, <1>2 DEF Seen

\* A place starts with nothing taken.
LEMMA PlaceStarts ==
  ASSUME OrderBookAssumption, NEW S, NEW B, NEW n \in Nat, Book(S, B, n),
         NEW t \in Incoming, t.id = n + 1
  PROVE  Sweeping(t, t.quantity, <<>>, 0, 0, S, B, B, n)
<1>1. PICK q : q = B[Opposite(t.side)]
  OBVIOUS
<1>2. t.side \in Sides /\ t.quantity \in Nat
  BY IncomingParts
<1>3. q \in Seq(Order) /\ Seen(B, n)
  BY <1>1, <1>2, TwoSides, BookSeen DEF Seen
<1>4. Ahead(q, 1) = 0
  <2>1. 1..(1 - 1) = {}
    OBVIOUS
  <2>2. [j \in 1..(1 - 1) |-> q[j].remaining] = [j \in {} |-> q[j].remaining]
    BY <2>1
  <2> QED
    BY <2>2, TotalEmpty DEF Ahead
<1>5. Swept(t, q, 0, 0, t.quantity)
  <2>1. Len(q) \in Nat
    BY <1>3
  <2>2. 0 \in 0..Len(q) /\ 0 \in Nat
    BY <2>1
  <2>3. t.quantity + 0 + Ahead(q, 0 + 1) = t.quantity
    BY <1>2, <1>4
  <2>4. 1..0 = {}
    OBVIOUS
  <2> QED
    BY <1>2, <2>2, <2>3, <2>4 DEF Swept
<1>6. LeftBySweep(q, q, 0, 0)
  BY <1>3 DEF LeftBySweep
<1>7. FillsOfSweep(<<>>, q, 0, 0) /\ <<>> \in Seq(FillSet(Nat, Owners))
  BY DEF FillsOfSweep
<1> QED
  BY <1>1, <1>3, <1>5, <1>6, <1>7 DEF Sweeping

\* What the sweep of an order works on.
LEMMA SweepingParts ==
  ASSUME OrderBookAssumption, NEW t, NEW left, NEW fills, NEW k, NEW a, NEW S, NEW B, NEW V,
         NEW n \in Nat, Sweeping(t, left, fills, k, a, S, B, V, n),
         NEW opp, opp = Opposite(t.side), NEW q, q = V[opp], NEW r, r = B[opp]
  PROVE  /\ t \in Incoming /\ t.id = n + 1 /\ t.side \in Sides /\ opp \in Sides
         /\ opp # t.side /\ t.price \in Nat /\ t.quantity \in Nat
         /\ Book(S, B, n) /\ Seen(V, n)
         /\ q \in Seq(Order) /\ r \in Seq(Order) /\ Len(r) \in Nat
         /\ Sorted(opp, q) /\ left \in Nat
         /\ \A i \in 1..Len(r) : r[i] \in Order
         /\ Len(r) > 0 => r[1].price \in Prices /\ r[1].price \in Nat
                          /\ r[1].remaining \in Nat \ {0}
         /\ Swept(t, q, k, a, left) /\ LeftBySweep(r, q, k, a)
         /\ fills \in Seq(FillSet(Nat, Owners)) /\ FillsOfSweep(fills, q, k, a)
         /\ Lists(opp, S[opp], r)
<1>1. /\ t \in Incoming /\ t.id = n + 1 /\ Book(S, B, n) /\ Seen(V, n)
      /\ Swept(t, q, k, a, left) /\ LeftBySweep(r, q, k, a)
      /\ fills \in Seq(FillSet(Nat, Owners)) /\ FillsOfSweep(fills, q, k, a)
  BY DEF Sweeping
<1>2. t.side \in Sides /\ t.price \in Nat /\ t.quantity \in Nat
  BY <1>1, IncomingParts
<1>3. opp \in Sides /\ opp # t.side
  BY <1>2, TwoSides
<1>4. q \in Seq(Order) /\ Sorted(opp, q)
  BY <1>1, <1>3 DEF Seen
<1>5. r \in Seq(Order) /\ Lists(opp, S[opp], r)
  BY <1>1, <1>3, BookParts DEF Book
<1>6. left \in Nat
  BY <1>1 DEF Swept
<1>7. Len(r) \in Nat /\ \A i \in 1..Len(r) : r[i] \in Order
  BY <1>5
<1>8. Len(r) > 0 => r[1].price \in Prices /\ r[1].price \in Nat /\ r[1].remaining \in Nat \ {0}
  <2> SUFFICES ASSUME Len(r) > 0
               PROVE  r[1].price \in Prices /\ r[1].price \in Nat
                      /\ r[1].remaining \in Nat \ {0}
    OBVIOUS
  <2>1. 1 \in 1..Len(r)
    BY <1>7
  <2>2. r[1] \in Order
    BY <1>7, <2>1
  <2> QED
    BY <2>2 DEF Order, OrderBookAssumption
<1> QED
  BY <1>1, <1>2, <1>3, <1>4, <1>5, <1>6, <1>7, <1>8

\* A limit order crosses what is at its price or better, and its price is not 0; a
\* market order, whose price is 0, crosses everything.
LEMMA CrossesLimit ==
  ASSUME OrderBookAssumption, NEW t \in Incoming, NEW price \in Nat,
         NEW limit, limit = IF t.type = "market" THEN 0 ELSE t.price
  PROVE  Crosses(t, price) <=> /\ ~(limit > 0 /\ t.side = "buy" /\ price > limit)
                               /\ ~(limit > 0 /\ t.side = "sell" /\ price < limit)
<1>1. /\ t.price \in Nat /\ t.type \in {"limit", "market"} /\ t.side \in {"buy", "sell"}
      /\ t.type = "limit" => t.price > 0
  BY IncomingParts DEF Sides
<1>2. CASE t.type = "market"
  BY <1>2 DEF Crosses
<1>3. CASE t.type = "limit"
  <2>1. limit = t.price /\ limit > 0 /\ limit \in Nat /\ t.type # "market"
    BY <1>1, <1>3
  <2>2. CASE t.side = "buy"
    <3>1. Crosses(t, price) <=> price = limit \/ price < limit
      BY <2>1, <2>2 DEF Crosses, Opposite, Better
    <3> QED
      BY <2>1, <2>2, <3>1
  <2>3. CASE t.side = "sell"
    <3>1. Crosses(t, price) <=> price = limit \/ price > limit
      BY <2>1, <2>3 DEF Crosses, Opposite, Better
    <3> QED
      BY <2>1, <2>3, <3>1
  <2> QED
    BY <1>1, <2>2, <2>3
<1> QED
  BY <1>1, <1>2, <1>3

\* The loop goes on exactly when the order crosses the front of the other side.
LEMMA CanMatchIs ==
  ASSUME OrderBookAssumption, NEW t, NEW left, NEW fills, NEW k, NEW a, NEW B, NEW V,
         NEW n \in Nat, call = PlaceCall(t, left, fills),
         Sweeping(t, left, fills, k, a, sides, B, V, n),
         NEW opp, opp = Opposite(t.side), NEW r, r = B[opp]
  PROVE  /\ CanMatch <=> left > 0 /\ Len(r) > 0 /\ Crosses(t, r[1].price)
         /\ Len(r) > 0 => BestPrice(opp) = r[1].price
                          /\ Head(sides[opp].levels[BestPrice(opp)]) = r[1]
<1>1. /\ t \in Incoming /\ Lists(opp, sides[opp], r) /\ Len(r) \in Nat
      /\ Len(r) > 0 => r[1].price \in Nat
  BY SweepingParts
<1>2. /\ DOMAIN sides[opp].levels = {} <=> Len(r) = 0
      /\ Len(r) > 0 => BestPrice(opp) = r[1].price
                       /\ Head(sides[opp].levels[BestPrice(opp)]) = r[1]
  BY <1>1, BestAndWorst
<1>3. call.taker = t /\ call.left = left
  BY DEF PlaceCall
<1>4. PICK limit : limit = IF t.type = "market" THEN 0 ELSE t.price
  OBVIOUS
<1>5. CanMatch <=> /\ left > 0
                   /\ DOMAIN sides[opp].levels # {}
                   /\ ~(limit > 0 /\ t.side = "buy" /\ BestPrice(opp) > limit)
                   /\ ~(limit > 0 /\ t.side = "sell" /\ BestPrice(opp) < limit)
  BY <1>3, <1>4 DEF CanMatch
<1>6. CASE Len(r) = 0
  BY <1>2, <1>5, <1>6
<1>7. CASE Len(r) > 0
  <2>1. PICK price : price = BestPrice(opp)
    OBVIOUS
  <2>2. price \in Nat /\ price = r[1].price
    BY <1>1, <1>2, <1>7, <2>1
  <2>3. Crosses(t, price) <=> /\ ~(limit > 0 /\ t.side = "buy" /\ price > limit)
                              /\ ~(limit > 0 /\ t.side = "sell" /\ price < limit)
    BY <1>1, <1>4, <2>2, CrossesLimit
  <2> QED
    BY <1>1, <1>2, <1>5, <1>7, <2>1, <2>2, <2>3
<1> QED
  BY <1>1, <1>2, <1>6, <1>7

\* Every order of the list G has the ID and the price of one of F.
Within(G, F) ==
  \A i \in 1..Len(G) : \E j \in 1..Len(F) : G[i].id = F[j].id /\ G[i].price = F[j].price

\* What a list that lost or changed its front, or its end, has of the other.
LEMMA ListSmaller ==
  ASSUME NEW F, F \in Seq(Order), NEW G, G \in Seq(Order), Within(G, F)
  PROVE  IdsOf(G) \subseteq IdsOf(F) /\ Levels(G) \subseteq Levels(F)
<1>1. DOMAIN F = 1..Len(F) /\ DOMAIN G = 1..Len(G)
  OBVIOUS
<1> QED
  BY <1>1 DEF IdsOf, Levels, Within

\* An iteration that takes qty of the order e leaves a sweep.
SweepsOn(t, left, fills, S, V, n, opp, e, qty) ==
  \E j, b, C :
    Sweeping(t, left - qty, Append(fills, FillOf(e, qty)), j, b,
             [S EXCEPT ![opp] = FillFront(@, e.price, qty)], C, V, n)

\* The next iteration of the loop takes the front order whole, or what it needs of it.
LEMMA SweepStep ==
  ASSUME OrderBookAssumption, NEW t, NEW left, NEW fills, NEW k, NEW a, NEW S, NEW B, NEW V,
         NEW n \in Nat, Sweeping(t, left, fills, k, a, S, B, V, n),
         NEW opp, opp = Opposite(t.side), NEW r, r = B[opp],
         left > 0, Len(r) > 0, Crosses(t, r[1].price),
         NEW qty, qty = Min64(left, r[1].remaining)
  PROVE  SweepsOn(t, left, fills, S, V, n, opp, r[1], qty)
<1>1. PICK q, s, front : q = V[opp] /\ s = S[opp] /\ front = r[1]
  OBVIOUS
<1>2. /\ t \in Incoming /\ t.id = n + 1 /\ t.side \in Sides /\ opp \in Sides
      /\ opp # t.side /\ t.price \in Nat /\ t.quantity \in Nat
      /\ Book(S, B, n) /\ Seen(V, n)
      /\ q \in Seq(Order) /\ r \in Seq(Order) /\ Len(r) \in Nat
      /\ Sorted(opp, q) /\ left \in Nat
      /\ \A i \in 1..Len(r) : r[i] \in Order
      /\ front.remaining \in Nat \ {0}
      /\ Swept(t, q, k, a, left) /\ LeftBySweep(r, q, k, a)
      /\ fills \in Seq(FillSet(Nat, Owners)) /\ FillsOfSweep(fills, q, k, a)
      /\ Lists(opp, s, r)
  BY <1>1, SweepingParts
<1>3. V[t.side] = B[t.side]
  BY DEF Sweeping
<1>4. front \in Order /\ 1 \in 1..Len(r)
  BY <1>1, <1>2
<1>5. qty \in Nat /\ qty > 0 /\ FillOf(front, qty) \in FillSet(Nat, Owners)
  <2>1. qty \in Nat /\ qty > 0
    BY <1>1, <1>2 DEF Min64
  <2> QED
    BY <1>4, <2>1 DEF FillOf, FillSet, Order, OrderBookAssumption
<1>6. PICK more : more = Append(fills, FillOf(front, qty))
  OBVIOUS
<1>7. more \in Seq(FillSet(Nat, Owners))
  BY <1>2, <1>5, <1>6
<1>8. ASSUME NEW G, Lists(opp, FillFront(s, front.price, qty), G), NEW j, NEW b, Within(G, r),
             Swept(t, q, j, b, left - qty), LeftBySweep(G, q, j, b),
             FillsOfSweep(more, q, j, b)
      PROVE  \E C : Sweeping(t, left - qty, more, j, b,
                             [S EXCEPT ![opp] = FillFront(@, front.price, qty)], C, V, n)
  <2>1. PICK s1, C, T : /\ s1 = FillFront(s, front.price, qty)
                        /\ C = [B EXCEPT ![opp] = G]
                        /\ T = [S EXCEPT ![opp] = s1]
    OBVIOUS
  <2>2. G \in Seq(Order)
    BY <1>8, ListParts
  <2>3. IdsOf(G) \subseteq IdsOf(r) /\ Levels(G) \subseteq Levels(r)
    BY <1>2, <1>8, <2>2, ListSmaller
  <2>4. Book(T, C, n)
    <3>1. Lists(opp, s1, G) /\ Book(S, B, n) /\ opp \in Sides
      BY <1>2, <1>8, <2>1
    <3>2. IdsOf(G) \subseteq IdsOf(B[opp]) /\ Levels(G) \subseteq Levels(B[opp])
      BY <2>3
    <3> QED
      BY <2>1, <3>1, <3>2, BookShrinks
  <2>5. C[opp] = G /\ C[t.side] = B[t.side]
    BY <1>2, <2>1 DEF Book
  <2>6. Sweeping(t, left - qty, more, j, b, T, C, V, n)
    BY <1>1, <1>2, <1>3, <1>7, <1>8, <2>4, <2>5 DEF Sweeping
  <2> QED
    BY <1>1, <2>1, <2>6
<1>9. ASSUME front.remaining <= left
      PROVE  \E j, b, C :
               Sweeping(t, left - qty, Append(fills, FillOf(r[1], qty)), j, b,
                        [S EXCEPT ![opp] = FillFront(@, r[1].price, qty)], C, V, n)
  <2>1. qty = front.remaining
    BY <1>1, <1>2, <1>9 DEF Min64
  <2>2. PICK G : Lists(opp, FillFront(s, front.price, qty), G) /\ Removed(G, r, 1)
    BY <1>1, <1>2, <2>1, FillFrontFull
  <2>3. G \in Seq(Order)
    BY <2>2, ListParts
  <2>4. /\ Swept(t, q, k + 1, 0, left - qty)
        /\ LeftBySweep(G, q, k + 1, 0)
        /\ FillsOfSweep(more, q, k + 1, 0)
    BY <1>1, <1>2, <1>6, <1>9, <2>1, <2>2, <2>3, SweepWhole
  <2>5. Within(G, r)
    <3>1. Unique(r)
      BY <1>2 DEF Lists
    <3>2. r \in Seq(Order) /\ Removed(G, r, 1)
      BY <1>2, <2>2
    <3>3. \A i \in 1..Len(G) : \E l \in 1..Len(r) : l # 1 /\ G[i] = r[l]
      BY <3>1, <3>2, IdsRemoved
    <3> QED
      BY <3>3 DEF Within
  <2> QED
    BY <1>1, <1>6, <1>8, <2>2, <2>4, <2>5
<1>10. ASSUME left < front.remaining
       PROVE  \E j, b, C :
               Sweeping(t, left - qty, Append(fills, FillOf(r[1], qty)), j, b,
                        [S EXCEPT ![opp] = FillFront(@, r[1].price, qty)], C, V, n)
  <2>1. qty = left /\ left - qty = 0
    BY <1>1, <1>2, <1>10 DEF Min64
  <2>2. PICK e : e = [front EXCEPT !.remaining = @ - qty]
    OBVIOUS
  <2>3. PICK G : Lists(opp, FillFront(s, front.price, qty), G) /\ Fronted(G, r, e)
    BY <1>1, <1>2, <1>5, <1>10, <2>1, <2>2, FillFrontPart
  <2>4. G \in Seq(Order)
    BY <2>3, ListParts
  <2>5. /\ Swept(t, q, k, left, 0)
        /\ LeftBySweep(G, q, k, left)
        /\ FillsOfSweep(more, q, k, left)
    BY <1>1, <1>2, <1>6, <1>10, <2>1, <2>2, <2>3, <2>4, SweepPart
  <2>6. Within(G, r)
    <3>1. Len(G) = Len(r) /\ G[1] = e /\ \A i \in 2..Len(r) : G[i] = r[i]
      BY <2>3 DEF Fronted
    <3>2. e.id = front.id /\ e.price = front.price
      BY <1>4, <2>2 DEF Order
    <3>3. \A i \in 1..Len(r) : i = 1 \/ i \in 2..Len(r)
      BY <1>2
    <3>4. \A i \in 1..Len(r) : G[i].id = r[i].id /\ G[i].price = r[i].price
      BY <1>1, <3>1, <3>2, <3>3
    <3> QED
      BY <3>1, <3>4 DEF Within
  <2> QED
    BY <1>1, <1>6, <1>8, <2>1, <2>3, <2>5, <2>6
<1>11. front.remaining <= left \/ left < front.remaining
  BY <1>2
<1>12. \E j, b, C :
         Sweeping(t, left - qty, Append(fills, FillOf(r[1], qty)), j, b,
                  [S EXCEPT ![opp] = FillFront(@, r[1].price, qty)], C, V, n)
  BY <1>9, <1>10, <1>11, Zenon
<1> QED
  BY <1>12 DEF SweepsOn

\* A sweep that has stopped has done what price-time priority does, and when the
\* order is not filled, nothing left on the other side crosses it.
LEMMA SweepEnds ==
  ASSUME OrderBookAssumption, NEW t, NEW left, NEW fills, NEW k, NEW a, NEW S, NEW B, NEW V,
         NEW n \in Nat, Sweeping(t, left, fills, k, a, S, B, V, n),
         NEW opp, opp = Opposite(t.side), NEW q, q = V[opp], NEW r, r = B[opp],
         ~(left > 0 /\ Len(r) > 0 /\ Crosses(t, r[1].price))
  PROVE  /\ Fills(t, q) = fills /\ Unfilled(t, q) = left /\ AfterFills(t, q) = r
         /\ left > 0 => \A p \in Levels(r) : ~Crosses(t, p)
<1>1. /\ t \in Incoming /\ t.price \in Nat /\ t.quantity \in Nat
      /\ q \in Seq(Order) /\ r \in Seq(Order) /\ Len(r) \in Nat
      /\ Sorted(opp, q) /\ left \in Nat
      /\ Swept(t, q, k, a, left) /\ LeftBySweep(r, q, k, a)
      /\ fills \in Seq(FillSet(Nat, Owners)) /\ FillsOfSweep(fills, q, k, a)
  BY SweepingParts
<1>2. left = 0 \/ Len(r) = 0 \/ ~Crosses(t, r[1].price)
  BY <1>1
<1>3. Stopped(t, q, k, left)
  BY <1>1, <1>2, SweepStops
<1>4. TakenBySweep(t, q, k, a)
  BY <1>1, <1>3, SweepTakes
<1>5. Unfilled(t, q) = left
  BY <1>1, <1>4, SweepUnfilled
<1>6. Fills(t, q) = fills
  BY <1>1, <1>4, SweepFills
<1>7. AfterFills(t, q) = r
  BY <1>1, <1>4, SweepLeaves
<1>8. ASSUME left > 0, NEW p \in Levels(r)
      PROVE  ~Crosses(t, p)
  <2>1. PICK i \in 1..Len(r) : r[i].price = p
    BY <1>1 DEF Levels
  <2>2. Len(r) > 0 /\ i \in Nat /\ i >= 1
    BY <1>1, <2>1
  <2>3. SweepGoes(t, q, k, left, r)
    BY <1>1, <1>8, <2>2, SweepGoesOn
  <2>4. /\ Len(q) \in Nat /\ k \in Nat /\ Len(r) = Len(q) - k
        /\ \A l \in 1..(Len(q) - k) : r[l] = q[k + l]
    BY <2>3 DEF SweepGoes
  <2>5. k + i \in 1..Len(q) /\ k < k + i /\ r[i] = q[k + i]
    <3>1. PICK m, u : m = Len(q) /\ u = Len(r)
      OBVIOUS
    <3>2. m \in Nat /\ u = m - k /\ i \in 1..u
      BY <2>1, <2>4, <3>1
    <3>3. k + i \in 1..m /\ k < k + i /\ i \in 1..(m - k)
      BY <2>2, <2>4, <3>2
    <3> QED
      BY <2>4, <3>1, <3>3
  <2>6. ~Crosses(t, q[k + i].price)
    <3>1. left # 0
      BY <1>1, <1>8
    <3>2. \A l \in 1..Len(q) : k < l => ~Crosses(t, q[l].price)
      BY <1>3, <3>1, Zenon DEF Stopped
    <3> QED
      BY <2>5, <3>2
  <2> QED
    BY <2>1, <2>5, <2>6
<1> QED
  BY <1>5, <1>6, <1>7, <1>8

\* What remains of a limit order rests, and the book is that of price-time priority.
LEMMA SweepRests ==
  ASSUME OrderBookAssumption, NEW t, NEW left, NEW fills, NEW k, NEW a, NEW S, NEW B, NEW V,
         NEW n \in Nat, Sweeping(t, left, fills, k, a, S, B, V, n),
         NEW opp, opp = Opposite(t.side), NEW r, r = B[opp],
         ~(left > 0 /\ Len(r) > 0 /\ Crosses(t, r[1].price)),
         t.type = "limit", left > 0
  PROVE  LET e == Entry(t, left)
         IN  /\ Book([S EXCEPT ![t.side] = Add(@, e)], AfterPlace(t, V), n + 1)
<1>1. PICK q, e, side : q = V[opp] /\ e = Entry(t, left) /\ side = t.side
  OBVIOUS
<1>2. /\ t \in Incoming /\ t.id = n + 1 /\ side \in Sides /\ opp \in Sides /\ opp # side
      /\ t.price \in Nat /\ Book(S, B, n) /\ Seen(V, n) /\ left \in Nat
      /\ r \in Seq(Order) /\ Len(r) \in Nat
  BY <1>1, SweepingParts
<1>3. /\ Unfilled(t, q) = left /\ AfterFills(t, q) = r
      /\ \A p \in Levels(r) : ~Crosses(t, p)
  BY <1>1, SweepEnds
<1>4. V[side] = B[side] /\ V = [x \in Sides |-> V[x]] /\ B = [x \in Sides |-> B[x]]
  BY <1>1, <1>2 DEF Sweeping, Seen, Book
<1>5. e \in Order /\ e.id = n + 1 /\ e.price = t.price
  <2>1. t.owner \in Owners /\ t.price \in Prices
    BY <1>2, IncomingParts
  <2> QED
    BY <1>1, <1>2, <2>1 DEF Entry, Order
<1>6. \A p \in Levels(B[opp]) : Better(opp, e.price, p)
  <2>1. \A p \in Levels(r) : p \in Nat
    <3>1. \A i \in DOMAIN r : r[i].price \in Nat
      BY <1>2, OrdersAreEntries
    <3> QED
      BY <3>1 DEF Levels
  <2>2. \A p \in Levels(r) : p # t.price /\ ~Better(opp, p, t.price)
    BY <1>3 DEF Crosses
  <2> QED
    BY <1>2, <1>5, <2>1, <2>2 DEF Better
<1>7. PICK C : C = [B EXCEPT ![side] = Rest(side, @, e)]
  OBVIOUS
<1>8. Book([S EXCEPT ![side] = Add(@, e)], C, n + 1)
  <2>1. \A p \in Levels(B[Opposite(side)]) : Better(Opposite(side), e.price, p)
    BY <1>1, <1>6, Zenon
  <2>2. Book(S, B, n) /\ side \in Sides /\ n \in Nat /\ e \in Order /\ e.id = n + 1
    BY <1>2, <1>5
  <2>3. Book([S EXCEPT ![side] = Add(@, e)], [B EXCEPT ![side] = Rest(side, @, e)], n + 1)
    BY <2>1, <2>2, BookGrows
  <2> QED
    BY <1>7, <2>3, Zenon
<1>9. AfterPlace(t, V) = C
  <2>1. PICK own : own = Rest(side, V[side], e)
    OBVIOUS
  <2>2. AfterPlace(t, V) = [V EXCEPT ![opp] = r, ![side] = own]
    BY <1>1, <1>3, <2>1 DEF AfterPlace
  <2>3. C = [B EXCEPT ![side] = own]
    BY <1>4, <1>7, <2>1
  <2>4. \A x \in Sides : x = side \/ x = opp
    BY <1>1, <1>2, TwoSides
  <2>5. [V EXCEPT ![opp] = r, ![side] = own] =
          [x \in Sides |-> IF x = side THEN own ELSE IF x = opp THEN r ELSE V[x]]
    BY <1>2, <1>4
  <2>6. [B EXCEPT ![side] = own] = [x \in Sides |-> IF x = side THEN own ELSE B[x]]
    BY <1>4
  <2>7. \A x \in Sides : (IF x = side THEN own ELSE IF x = opp THEN r ELSE V[x]) =
                           (IF x = side THEN own ELSE B[x])
    BY <2>4
  <2> QED
    BY <2>2, <2>3, <2>5, <2>6, <2>7
<1> QED
  BY <1>1, <1>8, <1>9

\* Otherwise nothing rests.
LEMMA SweepDrops ==
  ASSUME OrderBookAssumption, NEW t, NEW left, NEW fills, NEW k, NEW a, NEW S, NEW B, NEW V,
         NEW n \in Nat, Sweeping(t, left, fills, k, a, S, B, V, n),
         NEW opp, opp = Opposite(t.side), NEW r, r = B[opp],
         ~(left > 0 /\ Len(r) > 0 /\ Crosses(t, r[1].price)),
         t.type # "limit" \/ left = 0
  PROVE  Book(S, AfterPlace(t, V), n + 1)
<1>1. PICK q, side : q = V[opp] /\ side = t.side
  OBVIOUS
<1>2. /\ t \in Incoming /\ side \in Sides /\ opp \in Sides /\ opp # side
      /\ Book(S, B, n) /\ Seen(V, n) /\ left \in Nat
  BY <1>1, SweepingParts
<1>3. Unfilled(t, q) = left /\ AfterFills(t, q) = r
  BY <1>1, SweepEnds
<1>4. V[side] = B[side] /\ V = [x \in Sides |-> V[x]] /\ B = [x \in Sides |-> B[x]]
  BY <1>1, <1>2 DEF Sweeping, Seen, Book
<1>5. AfterPlace(t, V) = B
  <2>1. ~(t.type = "limit" /\ left > 0)
    BY <1>2
  <2>2. AfterPlace(t, V) = [V EXCEPT ![opp] = r, ![side] = V[side]]
    BY <1>1, <1>3, <2>1 DEF AfterPlace
  <2>3. \A x \in Sides : x = side \/ x = opp
    BY <1>1, <1>2, TwoSides
  <2>4. [V EXCEPT ![opp] = r, ![side] = V[side]] =
          [x \in Sides |-> IF x = side THEN V[side] ELSE IF x = opp THEN r ELSE V[x]]
    BY <1>2, <1>4
  <2>5. \A x \in Sides : (IF x = side THEN V[side] ELSE IF x = opp THEN r ELSE V[x]) = B[x]
    BY <1>4, <2>3
  <2>6. AfterPlace(t, V) = [x \in Sides |-> B[x]]
    BY <2>2, <2>4, <2>5
  <2> QED
    BY <1>4, <2>6
<1> QED
  BY <1>2, <1>5, BookLater

\* The order e of an ID is on one side of the lists B, and G is that side without it.
TakenOut(B, side, id, e, G) ==
  /\ IdsOf(G) = IdsOf(B[side]) \ {id} /\ Levels(G) \subseteq Levels(B[side])
  /\ Without(id, B) = [B EXCEPT ![side] = G]
  /\ e \in Order /\ e.id = id /\ e \in Resting(B)
  /\ e.price \in Levels(B[side]) /\ id \in IdsOf(B[side])
  /\ \A x \in Sides : x = side <=> e \in {B[x][i] : i \in DOMAIN B[x]}

\* The order of an ID, and the book without it.
LEMMA BookFinds ==
  ASSUME OrderBookAssumption, NEW S, NEW B, NEW n \in Nat, Book(S, B, n),
         NEW side \in Sides, NEW id, id \in DOMAIN S[side].orders,
         NEW e, e = GetOrder(S[side], id)
  PROVE  \E G : /\ G \in Seq(Order) /\ Lists(side, RemoveOrder(S[side], id), G)
                /\ TakenOut(B, side, id, e, G)
<1>1. PICK s, F : s = S[side] /\ F = B[side]
  OBVIOUS
<1>2. /\ Lists(side, s, F) /\ F \in Seq(Order) /\ Unique(F) /\ Len(F) \in Nat
      /\ DOMAIN F = 1..Len(F) /\ DOMAIN s.orders = IdsOf(F)
      /\ \A x \in Sides : B[x] \in Seq(Order) /\ Unique(B[x])
      /\ B = [x \in Sides |-> B[x]]
  <2>1. \A x \in Sides : Lists(x, S[x], B[x]) /\ B = [y \in Sides |-> B[y]]
    BY DEF Book
  <2>2. \A x \in Sides : /\ DOMAIN S[x].orders = IdsOf(B[x]) /\ B[x] \in Seq(Order)
                         /\ Unique(B[x])
    BY BookParts
  <2> QED
    BY <1>1, <2>1, <2>2
<1>3. PICK k \in 1..Len(F) : /\ F[k].id = id
                             /\ GetOrder(s, id) = F[k]
                             /\ Lists(side, RemoveOrder(s, id), RemoveAt(F, k))
                             /\ Removed(RemoveAt(F, k), F, k)
  BY <1>1, <1>2, RemoveOrderLists
<1>4. PICK G : G = RemoveAt(F, k)
  OBVIOUS
<1>5. Lists(side, RemoveOrder(s, id), G) /\ Removed(G, F, k) /\ e = F[k]
  BY <1>1, <1>3, <1>4
<1>6. G \in Seq(Order)
  BY <1>5, ListParts
<1>7. /\ IdsOf(G) = IdsOf(F) \ {id}
      /\ \A i \in 1..Len(G) : \E l \in 1..Len(F) : l # k /\ G[i] = F[l]
  BY <1>2, <1>3, <1>5, IdsRemoved
<1>8. Levels(G) \subseteq Levels(F)
  <2>1. Within(G, F)
    BY <1>7 DEF Within
  <2> QED
    BY <1>2, <1>6, <2>1, ListSmaller
<1>9. \A x \in Sides : x # side => id \notin IdsOf(B[x])
  <2>1. IdsOf(B["buy"]) \cap IdsOf(B["sell"]) = {}
    BY DEF Book
  <2>2. id \in IdsOf(B[side])
    BY <1>1, <1>2
  <2> QED
    BY <2>1, <2>2 DEF Sides
<1>10. Without(id, B) = [B EXCEPT ![side] = G]
  <2>1. Sub(F, {i \in DOMAIN F : F[i].id # id}) = G
    <3>1. \A l \in 1..Len(F) : \A H \in Seq(Order) :
            Removed(H, F, l) => Sub(F, {i \in DOMAIN F : F[i].id # F[l].id}) = H
      BY <1>2, SubWithout
    <3>2. Sub(F, {i \in DOMAIN F : F[i].id # F[k].id}) = G
      BY <1>5, <1>6, <3>1
    <3> QED
      BY <1>3, <3>2
  <2>2. ASSUME NEW x \in Sides, x # side
        PROVE  Sub(B[x], {i \in DOMAIN B[x] : B[x][i].id # id}) = B[x]
    <3>1. PICK q : q = B[x]
      OBVIOUS
    <3>2. q \in Seq(Order) /\ Unique(q) /\ id \notin IdsOf(q)
      BY <1>2, <1>9, <2>2, <3>1
    <3>3. \A j : j \notin IdsOf(q) => Sub(q, {i \in DOMAIN q : q[i].id # j}) = q
      BY <3>2, SubWithout
    <3> QED
      BY <3>1, <3>2, <3>3
  <2>3. \A x \in Sides : Sub(B[x], {i \in DOMAIN B[x] : B[x][i].id # id}) =
                           IF x = side THEN G ELSE B[x]
    BY <1>1, <2>1, <2>2
  <2>4. Without(id, B) = [x \in Sides |-> IF x = side THEN G ELSE B[x]]
    BY <2>3 DEF Without
  <2>5. [B EXCEPT ![side] = G] = [x \in Sides |-> IF x = side THEN G ELSE B[x]]
    BY <1>2
  <2> QED
    BY <2>4, <2>5
<1>11. e \in Order /\ e.id = id /\ e.price \in Levels(F) /\ k \in DOMAIN F
  BY <1>2, <1>3, <1>5 DEF Levels
<1>12. \A x \in Sides : x = side <=> e \in {B[x][i] : i \in DOMAIN B[x]}
  <2>1. e \in {B[side][i] : i \in DOMAIN B[side]}
    BY <1>1, <1>5, <1>11
  <2>2. ASSUME NEW x \in Sides, e \in {B[x][i] : i \in DOMAIN B[x]}
        PROVE  id \in IdsOf(B[x])
    <3>1. DOMAIN B[x] = 1..Len(B[x])
      BY <1>2
    <3> QED
      BY <1>11, <2>2, <3>1 DEF IdsOf
  <2> QED
    BY <1>9, <2>1, <2>2
<1>13. e \in Resting(B)
  BY <1>12 DEF Resting
<1>14. id \in IdsOf(F)
  BY <1>1, <1>2
<1>15. TakenOut(B, side, id, e, G)
  BY <1>1, <1>7, <1>8, <1>10, <1>11, <1>12, <1>13, <1>14 DEF TakenOut
<1> QED
  BY <1>1, <1>5, <1>6, <1>15

\* A cancelled order is off the book.
LEMMA BookCancels ==
  ASSUME OrderBookAssumption, NEW S, NEW B, NEW n \in Nat, Book(S, B, n),
         NEW side \in Sides, NEW id, id \in DOMAIN S[side].orders
  PROVE  Book([S EXCEPT ![side] = RemoveOrder(@, id)], Without(id, B), n)
<1>1. PICK G : /\ G \in Seq(Order) /\ Lists(side, RemoveOrder(S[side], id), G)
               /\ TakenOut(B, side, id, GetOrder(S[side], id), G)
  BY BookFinds
<1>2. PICK s : s = RemoveOrder(S[side], id)
  OBVIOUS
<1>3. /\ Lists(side, s, G) /\ IdsOf(G) \subseteq IdsOf(B[side])
      /\ Levels(G) \subseteq Levels(B[side])
  BY <1>1, <1>2 DEF TakenOut
<1>4. Book([S EXCEPT ![side] = s], [B EXCEPT ![side] = G], n)
  BY <1>3, BookShrinks
<1>5. Without(id, B) = [B EXCEPT ![side] = G]
  BY <1>1 DEF TakenOut
<1> QED
  BY <1>2, <1>4, <1>5

\* An order put back is the last at its price.
LEMMA BookRestores ==
  ASSUME OrderBookAssumption, NEW S, NEW B, NEW n \in Nat, Book(S, B, n),
         NEW side \in Sides, NEW id, id \in DOMAIN S[side].orders,
         NEW e, e = GetOrder(S[side], id)
  PROVE  Book([S EXCEPT ![side] = Add(RemoveOrder(S[side], id), e)],
              [Without(id, B) EXCEPT ![side] = Rest(side, @, e)], n)
<1>1. PICK G : /\ G \in Seq(Order) /\ Lists(side, RemoveOrder(S[side], id), G)
               /\ TakenOut(B, side, id, e, G)
  BY BookFinds
<1>2. PICK s, H : s = RemoveOrder(S[side], id) /\ H = Rest(side, G, e)
  OBVIOUS
<1>3. /\ Lists(side, s, G) /\ IdsOf(G) = IdsOf(B[side]) \ {id}
      /\ Levels(G) \subseteq Levels(B[side])
      /\ Without(id, B) = [B EXCEPT ![side] = G]
      /\ e \in Order /\ e.id = id /\ e.price \in Levels(B[side]) /\ id \in IdsOf(B[side])
  BY <1>1, <1>2 DEF TakenOut
<1>4. /\ Lists(side, Add(s, e), H) /\ IdsOf(H) = IdsOf(G) \cup {e.id}
      /\ Levels(H) = Levels(G) \cup {e.price}
  <2>1. e.id \notin IdsOf(G)
    BY <1>3
  <2> QED
    BY <1>2, <1>3, <2>1, RestAdds
<1>5. IdsOf(H) \subseteq IdsOf(B[side]) /\ Levels(H) \subseteq Levels(B[side])
  BY <1>3, <1>4
<1>6. PICK r : r = Add(s, e)
  OBVIOUS
<1>7. Book([S EXCEPT ![side] = r], [B EXCEPT ![side] = H], n)
  BY <1>4, <1>5, <1>6, BookShrinks
<1>8. [Without(id, B) EXCEPT ![side] = Rest(side, @, e)] = [B EXCEPT ![side] = H]
  <2>1. B = [x \in Sides |-> B[x]]
    BY DEF Book
  <2> QED
    BY <1>2, <1>3, <2>1
<1> QED
  BY <1>2, <1>6, <1>7, <1>8
-----------------------------------------------------------------------------

\* The call that evicts, between two iterations of its loops.
EvictCall(o) == [op |-> "evict", orders |-> o]

\* Each side's list, as callers saw it, has been cut into what is left and what is
\* evicted.
Evicting(o, S, B, V, n) ==
  /\ Book(S, B, n) /\ Seen(V, n)
  /\ o = [side \in Sides |-> o[side]]
  /\ \A side \in Sides : /\ o[side] \in Seq(Order)
                         /\ \E c : CutAt(V[side], B[side], o[side], c, MaxLevels)

\* An eviction starts with nothing evicted.
LEMMA EvictStarts ==
  ASSUME OrderBookAssumption, NEW S, NEW B, NEW n \in Nat, Book(S, B, n)
  PROVE  Evicting([side \in Sides |-> <<>>], S, B, B, n)
<1>1. PICK o : o = [side \in Sides |-> <<>>]
  OBVIOUS
<1>2. Seen(B, n)
  BY BookSeen
<1>3. ASSUME NEW side \in Sides
      PROVE  o[side] \in Seq(Order) /\ \E c : CutAt(B[side], B[side], o[side], c, MaxLevels)
  <2>1. o[side] = <<>> /\ o[side] \in Seq(Order)
    BY <1>1
  <2>2. PICK q : q = B[side]
    OBVIOUS
  <2>3. q \in Seq(Order)
    BY <1>2, <2>2 DEF Seen
  <2>4. CutAt(q, q, <<>>, Len(q), MaxLevels)
    BY <2>3, CutNothing
  <2> QED
    BY <2>1, <2>2, <2>4
<1>4. o = [side \in Sides |-> o[side]]
  BY <1>1
<1>5. Evicting(o, S, B, B, n)
  BY <1>2, <1>3, <1>4 DEF Evicting
<1> QED
  BY <1>1, <1>5

\* The next iteration evicts the worst level.
LEMMA EvictStep ==
  ASSUME OrderBookAssumption, NEW o, NEW S, NEW B, NEW V, NEW n \in Nat,
         Evicting(o, S, B, V, n), NEW side \in Sides,
         Cardinality(DOMAIN S[side].levels) > MaxLevels
  PROVE  /\ Len(B[side]) > 0
         /\ \A w : w = B[side][Len(B[side])].price =>
              \E C : Evicting([o EXCEPT ![side] = S[side].levels[w] \o @],
                              [S EXCEPT ![side] = EvictLevel(@, w)], C, V, n)
<1>1. PICK s, F, q, old, max :
        s = S[side] /\ F = B[side] /\ q = V[side] /\ old = o[side] /\ max = MaxLevels
  OBVIOUS
<1>2. PICK c : CutAt(q, F, old, c, max)
  BY <1>1 DEF Evicting
<1>3. /\ Book(S, B, n) /\ Seen(V, n) /\ o = [x \in Sides |-> o[x]]
      /\ old \in Seq(Order) /\ max \in Nat \ {0}
      /\ Lists(side, s, F) /\ q \in Seq(Order)
  <2>1. Book(S, B, n) /\ Seen(V, n) /\ o = [x \in Sides |-> o[x]] /\ old \in Seq(Order)
    BY <1>1 DEF Evicting
  <2> QED
    BY <1>1, <2>1 DEF Book, Seen, OrderBookAssumption
<1>4. F \in Seq(Order) /\ Len(F) \in Nat
  BY <1>3, ListParts
<1>5. Cardinality(Levels(F)) > max
  <2>1. DOMAIN s.levels = Levels(F)
    BY <1>3, ListsLevels
  <2> QED
    BY <1>1, <2>1
<1>6. Len(F) > 0
  <2>1. SUFFICES Len(F) # 0
    BY <1>4
  <2>2. SUFFICES ASSUME Len(F) = 0
                 PROVE  FALSE
    OBVIOUS
  <2>3. DOMAIN F = {}
    BY <1>4, <2>2
  <2>4. Levels(F) = {}
    BY <2>3 DEF Levels
  <2>5. Cardinality(Levels(F)) = 0
    BY <2>4, FS_EmptySet
  <2> QED
    BY <1>3, <1>5, <2>5
<1>7. ASSUME NEW w, w = F[Len(F)].price
      PROVE  \E C : Evicting([o EXCEPT ![side] = S[side].levels[w] \o @],
                             [S EXCEPT ![side] = EvictLevel(@, w)], C, V, n)
  <2>1. PICK a, G : /\ Lists(side, EvictLevel(s, w), G)
                    /\ Prefix(G, F, a) /\ a < Len(F)
                    /\ \A k \in 1..Len(F) : F[k].price = w <=> a < k
                    /\ s.levels[w] \in Seq(Order) /\ Suffix(s.levels[w], F, a)
    BY <1>3, <1>6, <1>7, EvictLevelLists
  <2>2. PICK s1, last, evicted, C, T, p :
          /\ s1 = EvictLevel(s, w) /\ last = s.levels[w] /\ evicted = last \o old
          /\ C = [B EXCEPT ![side] = G] /\ T = [S EXCEPT ![side] = s1]
          /\ p = [o EXCEPT ![side] = evicted]
    OBVIOUS
  <2>3. G \in Seq(Order)
    BY <2>1, ListParts
  <2>4. CutAt(q, G, evicted, a, max)
    BY <1>2, <1>3, <1>4, <1>5, <2>1, <2>2, <2>3, CutMore
  <2>5. IdsOf(G) \subseteq IdsOf(F) /\ Levels(G) \subseteq Levels(F)
    <3>1. Len(G) = a /\ a \in 0..Len(F) /\ \A k \in 1..a : G[k] = F[k]
      BY <2>1 DEF Prefix
    <3>2. Within(G, F)
      BY <1>4, <3>1 DEF Within
    <3> QED
      BY <1>4, <2>3, <3>2, ListSmaller
  <2>6. Book(T, C, n)
    <3>1. /\ Lists(side, s1, G)
          /\ IdsOf(G) \subseteq IdsOf(B[side]) /\ Levels(G) \subseteq Levels(B[side])
      BY <1>1, <2>1, <2>2, <2>5
    <3> QED
      BY <1>3, <2>2, <3>1, BookShrinks
  <2>7. evicted \in Seq(Order)
    BY <1>3, <2>1, <2>2
  <2>8. /\ p = [x \in Sides |-> p[x]] /\ p[side] = evicted /\ C[side] = G
        /\ \A x \in Sides : x # side => p[x] = o[x] /\ C[x] = B[x]
    <3>1. B = [x \in Sides |-> B[x]]
      BY <1>3 DEF Book
    <3> QED
      BY <1>3, <2>2, <3>1
  <2>9. ASSUME NEW x \in Sides
        PROVE  p[x] \in Seq(Order) /\ \E d : CutAt(V[x], C[x], p[x], d, MaxLevels)
    <3>1. CASE x = side
      BY <1>1, <2>4, <2>7, <2>8, <3>1
    <3>2. CASE x # side
      BY <2>8, <3>2 DEF Evicting
    <3> QED
      BY <3>1, <3>2
  <2>10. Evicting(p, T, C, V, n)
    BY <1>3, <2>6, <2>8, <2>9 DEF Evicting
  <2>11. /\ [o EXCEPT ![side] = S[side].levels[w] \o @] = p
         /\ [S EXCEPT ![side] = EvictLevel(@, w)] = T
    BY <1>1, <2>2
  <2> QED
    BY <2>10, <2>11
<1> QED
  BY <1>1, <1>6, <1>7

\* When no side has excess levels, what is left and what was evicted are what the
\* rank of their levels says.
LEMMA EvictEnds ==
  ASSUME OrderBookAssumption, NEW o, NEW S, NEW B, NEW V, NEW n \in Nat,
         Evicting(o, S, B, V, n),
         \A side \in Sides : ~(Cardinality(DOMAIN S[side].levels) > MaxLevels)
  PROVE  /\ AfterEvict(V, MaxLevels) = B
         /\ [s \in Sides |-> Evicted(s, V[s], MaxLevels)] = o
<1>1. ASSUME NEW side \in Sides
      PROVE  Kept(side, V[side], MaxLevels) = B[side] /\ Evicted(side, V[side], MaxLevels) = o[side]
  <2>1. PICK s, r, q, old, max :
          s = S[side] /\ r = B[side] /\ q = V[side] /\ old = o[side] /\ max = MaxLevels
    OBVIOUS
  <2>2. PICK c : CutAt(q, r, old, c, max)
    BY <2>1 DEF Evicting
  <2>3. /\ Lists(side, s, r) /\ q \in Seq(Order) /\ Sorted(side, q)
        /\ old \in Seq(Order) /\ max \in Nat
    BY <2>1 DEF Evicting, Book, Seen, OrderBookAssumption
  <2>4. r \in Seq(Order)
    BY <2>3, ListParts
  <2>5. DOMAIN s.levels = Levels(r)
    BY <2>3, ListsLevels
  <2>6. Cardinality(Levels(r)) <= max
    <3>1. Cardinality(Levels(r)) \in Nat
      BY <2>4, LevelsFinite
    <3>2. ~(Cardinality(Levels(r)) > max)
      BY <2>1, <2>5
    <3> QED
      BY <2>3, <3>1, <3>2
  <2>7. Kept(side, q, max) = r /\ Evicted(side, q, max) = old
    BY <2>2, <2>3, <2>4, <2>6, CutKeeps
  <2> QED
    BY <2>1, <2>7
<1>2. B = [side \in Sides |-> B[side]] /\ o = [side \in Sides |-> o[side]]
  BY DEF Evicting, Book
<1>3. AfterEvict(V, MaxLevels) = [side \in Sides |-> B[side]]
  BY <1>1 DEF AfterEvict
<1>4. [s \in Sides |-> Evicted(s, V[s], MaxLevels)] = [s \in Sides |-> o[s]]
  BY <1>1
<1> QED
  BY <1>2, <1>3, <1>4

-----------------------------------------------------------------------------

\* The inductive invariant: the sides hold the two lists of a book, and the call
\* that has the mutex, if any, is part of the way from the lists callers saw to
\* what price-time priority makes of them.
AtRest(c, S, B, V, n) == c = Idle /\ V = B /\ Book(S, B, n)

InPlace(c, S, B, V, n) ==
  \E t, left, fills, k, a : \E m \in Nat :
    n = m + 1 /\ c = PlaceCall(t, left, fills) /\ Sweeping(t, left, fills, k, a, S, B, V, m)

InEvict(c, S, B, V, n) == \E o : c = EvictCall(o) /\ Evicting(o, S, B, V, n)

Held(c, S, V, n) ==
  /\ n \in 0..MaxOrders
  /\ \E B : AtRest(c, S, B, V, n) \/ InPlace(c, S, B, V, n) \/ InEvict(c, S, B, V, n)

IInv == Held(call, sides, view, placed)

\* Which of the three it is.
LEMMA HeldBy ==
  ASSUME OrderBookAssumption, NEW c, NEW S, NEW V, NEW n, Held(c, S, V, n)
  PROVE  /\ n \in Nat /\ n \in 0..MaxOrders
         /\ c = Idle => \E B : AtRest(c, S, B, V, n)
         /\ c.op = "place" => \E B : InPlace(c, S, B, V, n)
         /\ c.op = "evict" => \E B : InEvict(c, S, B, V, n)
         /\ c.op \in {"idle", "place", "evict"}
<1>1. n \in Nat /\ n \in 0..MaxOrders
  BY DEF Held, OrderBookAssumption
<1>2. PICK B : AtRest(c, S, B, V, n) \/ InPlace(c, S, B, V, n) \/ InEvict(c, S, B, V, n)
  BY DEF Held
<1>3. AtRest(c, S, B, V, n) => c.op = "idle" /\ c = Idle
  BY DEF AtRest, Idle
<1>4. InPlace(c, S, B, V, n) => c.op = "place"
  BY DEF InPlace, PlaceCall
<1>5. InEvict(c, S, B, V, n) => c.op = "evict"
  BY DEF InEvict, EvictCall
<1>6. c = Idle => c.op = "idle"
  BY DEF Idle
<1> QED
  BY <1>1, <1>2, <1>3, <1>4, <1>5, <1>6

\* A call that returns leaves the mutex free and the lists seen.
LEMMA Returns ==
  ASSUME OrderBookAssumption, NEW B, NEW n \in Nat, n \in 0..MaxOrders, NEW result,
         Book(sides', B, n), placed' = n, Return(result)
  PROVE  IInv' /\ view' = B /\ outcome' = result
<1>1. PICK S : S = sides'
  OBVIOUS
<1>2. [side \in Sides |-> Flatten(side, S[side])] = B
  BY <1>1, BookParts
<1>3. call' = Idle /\ view' = B /\ outcome' = result
  BY <1>1, <1>2 DEF Return
<1>4. AtRest(call', sides', B, view', placed')
  BY <1>3 DEF AtRest
<1>5. Held(call', sides', view', placed')
  BY <1>4 DEF Held
<1> QED
  BY <1>3, <1>5 DEF IInv

\* The abstract book does not change, or takes a step.
AbstractStep == [Abstract!Next]_<<view, outcome>>

\* Taking the mutex to place an order.
LEMMA BeginPlaceStep ==
  ASSUME OrderBookAssumption, IInv, NEW order \in Incoming, BeginPlace(order)
  PROVE  IInv' /\ AbstractStep
<1>1. PICK S, V, n : S = sides /\ V = view /\ n = placed
  OBVIOUS
<1>2. /\ order.id = n + 1 /\ placed' = n + 1 /\ call = Idle
      /\ call' = PlaceCall(order, order.quantity, <<>>)
      /\ sides' = S /\ view' = V /\ UNCHANGED <<view, outcome>>
  BY <1>1 DEF BeginPlace, Begin, PlaceCall
<1>3. n \in Nat /\ n \in 0..MaxOrders /\ \E B : AtRest(call, S, B, V, n)
  BY <1>1, <1>2, HeldBy DEF IInv
<1>4. PICK B : V = B /\ Book(S, B, n)
  BY <1>3 DEF AtRest
<1>5. Sweeping(order, order.quantity, <<>>, 0, 0, S, B, V, n)
  BY <1>2, <1>3, <1>4, PlaceStarts
<1>6. InPlace(call', S, B, V, n + 1)
  BY <1>2, <1>3, <1>5 DEF InPlace
<1>7. n + 1 \in 0..MaxOrders
  <2>1. order.id \in Nat \ {0} /\ order.id <= MaxOrders /\ MaxOrders \in Nat
    BY IncomingParts DEF OrderBookAssumption
  <2> QED
    BY <1>2, <1>3, <2>1
<1>8. Held(call', sides', view', placed')
  BY <1>2, <1>6, <1>7 DEF Held
<1> QED
  BY <1>2, <1>8 DEF IInv, AbstractStep

\* An iteration of the fill loop.
LEMMA MatchStep ==
  ASSUME OrderBookAssumption, IInv, Match
  PROVE  IInv' /\ AbstractStep
<1>1. PICK S, V, n : S = sides /\ V = view /\ n = placed
  OBVIOUS
<1>2. call.op = "place" /\ CanMatch /\ UNCHANGED <<placed, view, outcome>>
  BY DEF Match
<1>3. n \in Nat /\ n \in 0..MaxOrders /\ \E B : InPlace(call, S, B, V, n)
  BY <1>1, <1>2, HeldBy DEF IInv
<1>4. PICK B, t, left, fills, k, a : \E m \in Nat :
        /\ n = m + 1 /\ call = PlaceCall(t, left, fills)
        /\ Sweeping(t, left, fills, k, a, S, B, V, m)
  BY <1>3 DEF InPlace
<1>5. PICK m \in Nat : /\ n = m + 1 /\ call = PlaceCall(t, left, fills)
                       /\ Sweeping(t, left, fills, k, a, S, B, V, m)
  BY <1>4
<1>6. PICK opp, r, price, qty : /\ opp = Opposite(t.side) /\ r = B[opp]
                                /\ price = r[1].price /\ qty = Min64(left, r[1].remaining)
  OBVIOUS
<1>7. /\ left > 0 /\ Len(r) > 0 /\ Crosses(t, price)
      /\ BestPrice(opp) = price /\ Head(sides[opp].levels[price]) = r[1]
  <2>1. /\ CanMatch <=> left > 0 /\ Len(r) > 0 /\ Crosses(t, r[1].price)
        /\ Len(r) > 0 => BestPrice(opp) = r[1].price
                         /\ Head(sides[opp].levels[BestPrice(opp)]) = r[1]
    BY <1>1, <1>5, <1>6, CanMatchIs
  <2> QED
    BY <1>2, <1>6, <2>1
<1>8. PICK rest, more, T : /\ rest = left - qty
                           /\ more = Append(fills, FillOf(r[1], qty))
                           /\ T = [S EXCEPT ![opp] = FillFront(@, r[1].price, qty)]
  OBVIOUS
<1>9. PICK j, b, C : Sweeping(t, rest, more, j, b, T, C, V, m)
  <2>1. SweepsOn(t, left, fills, S, V, m, opp, r[1], qty)
    BY <1>5, <1>6, <1>7, SweepStep
  <2> QED
    BY <1>8, <2>1 DEF SweepsOn
<1>10. call.taker = t /\ call.left = left /\ call.fills = fills
  BY <1>5 DEF PlaceCall
<1>11. sides' = T /\ call' = [call EXCEPT !.left = rest, !.fills = more]
  <2>1. /\ Opposite(call.taker.side) = opp /\ BestPrice(opp) = price
        /\ Head(sides[opp].levels[price]) = r[1] /\ Min64(call.left, r[1].remaining) = qty
    BY <1>6, <1>7, <1>10
  <2>2. PICK fill : fill = [maker |-> r[1].id, owner |-> r[1].owner, price |-> price,
                            quantity |-> qty]
    OBVIOUS
  <2>3. fill = FillOf(r[1], qty)
    BY <1>6, <2>2 DEF FillOf
  <2>4. sides' = [sides EXCEPT ![opp] = FillFront(@, price, qty)]
    BY <2>1, Zenon DEF Match
  <2>5. call' = [call EXCEPT !.left = @ - qty, !.fills = Append(@, fill)]
    BY <2>1, <2>2, Zenon DEF Match
  <2> QED
    BY <1>1, <1>6, <1>8, <1>10, <2>3, <2>4, <2>5
<1>12. call' = PlaceCall(t, rest, more)
  BY <1>5, <1>11 DEF PlaceCall
<1>13. InPlace(call', sides', C, view', placed')
  BY <1>1, <1>2, <1>5, <1>9, <1>11, <1>12 DEF InPlace
<1>14. Held(call', sides', view', placed')
  BY <1>1, <1>2, <1>3, <1>13 DEF Held
<1> QED
  BY <1>2, <1>14 DEF IInv, AbstractStep

\* What an order returns to its caller under price-time priority.
PlaceResult(order, queue) ==
  IF order.type = "market" /\ Fills(order, queue) = <<>>
  THEN [call |-> "place", error |-> "NoLiquidity"]
  ELSE [call |-> "place", fills |-> Fills(order, queue),
        remaining |-> Unfilled(order, queue)]

\* The abstract book placing an order.
LEMMA AbstractPlaces ==
  ASSUME OrderBookAssumption, NEW t \in Incoming, NEW V, V = view, NEW n \in Nat, Seen(V, n),
         t.id = n + 1, view' = AfterPlace(t, V),
         outcome' = PlaceResult(t, V[Opposite(t.side)])
  PROVE  AbstractStep
<1>1. \A e \in Abstract!Resting(view) : e.id # t.id
  <2>1. \A side \in Sides : \A i \in DOMAIN V[side] : V[side][i].id # t.id
    <3>1. \A side \in Sides : V[side] \in Seq(Order) /\ IdsOf(V[side]) \subseteq 1..n
      BY DEF Seen
    <3>2. \A side \in Sides : DOMAIN V[side] = 1..Len(V[side])
      BY <3>1
    <3>3. \A side \in Sides : \A i \in DOMAIN V[side] : V[side][i].id \in IdsOf(V[side])
      BY <3>2 DEF IdsOf
    <3>4. n + 1 \notin 1..n
      OBVIOUS
    <3> QED
      BY <3>1, <3>3, <3>4
  <2> QED
    BY <2>1 DEF Abstract!Resting, Abstract!Sides, Sides
<1>2. Abstract!AfterPlace(t, view) = AfterPlace(t, V)
  BY AbstractOperators
<1>3. PICK q : q = V[Opposite(t.side)]
  OBVIOUS
<1>4. Abstract!Opposite(t.side) = Opposite(t.side)
  BY AbstractParts
<1>5. Abstract!Fills(t, q) = Fills(t, q) /\ Abstract!Unfilled(t, q) = Unfilled(t, q)
  BY AbstractParts
<1>6. Abstract!Place(t)
  <2>1. outcome' = PlaceResult(t, q)
    BY <1>3
  <2>2. outcome' = IF t.type = "market" /\ Abstract!Fills(t, q) = <<>>
                   THEN [call |-> "place", error |-> "NoLiquidity"]
                   ELSE [call |-> "place", fills |-> Abstract!Fills(t, q),
                         remaining |-> Abstract!Unfilled(t, q)]
    BY <1>5, <2>1 DEF PlaceResult
  <2>3. view[Abstract!Opposite(t.side)] = q
    BY <1>3, <1>4
  <2> QED
    BY <1>1, <1>2, <2>2, <2>3, Zenon DEF Abstract!Place
<1> QED
  BY <1>6, Zenon DEF AbstractStep, Abstract!Next

\* The state in which a place may end.
PlaceDone(t, left, fills, k, a, B, m) ==
  LET r == B[Opposite(t.side)]
  IN  /\ placed = m + 1 /\ call = PlaceCall(t, left, fills)
      /\ Sweeping(t, left, fills, k, a, sides, B, view, m)
      /\ ~(left > 0 /\ Len(r) > 0 /\ Crosses(t, r[1].price))

\* It is the one in which the fill loop does not go on.
LEMMA PlaceIsDone ==
  ASSUME OrderBookAssumption, IInv, call.op = "place", ~CanMatch
  PROVE  \E B, t, left, fills, k, a : \E m \in Nat : PlaceDone(t, left, fills, k, a, B, m)
<1>1. PICK V, n : V = view /\ n = placed
  OBVIOUS
<1>2. n \in Nat /\ n \in 0..MaxOrders /\ \E B : InPlace(call, sides, B, V, n)
  BY <1>1, HeldBy DEF IInv
<1>3. PICK B, t, left, fills, k, a : \E m \in Nat :
        /\ n = m + 1 /\ call = PlaceCall(t, left, fills)
        /\ Sweeping(t, left, fills, k, a, sides, B, V, m)
  BY <1>2 DEF InPlace
<1>4. PICK m \in Nat : /\ n = m + 1 /\ call = PlaceCall(t, left, fills)
                       /\ Sweeping(t, left, fills, k, a, sides, B, V, m)
  BY <1>3
<1>5. PICK opp, r : opp = Opposite(t.side) /\ r = B[opp]
  OBVIOUS
<1>6. CanMatch <=> left > 0 /\ Len(r) > 0 /\ Crosses(t, r[1].price)
  BY <1>4, <1>5, CanMatchIs
<1>7. PlaceDone(t, left, fills, k, a, B, m)
  BY <1>1, <1>4, <1>5, <1>6 DEF PlaceDone
<1> QED
  BY <1>7

\* The end of a place, whatever rests of its order.
LEMMA PlaceEnds ==
  ASSUME OrderBookAssumption, NEW t, NEW left, NEW fills, NEW k, NEW a, NEW B, NEW m \in Nat,
         PlaceDone(t, left, fills, k, a, B, m), m + 1 \in 0..MaxOrders,
         Book(sides', AfterPlace(t, view), m + 1), UNCHANGED placed,
         Return(PlaceResult(t, view[Opposite(t.side)]))
  PROVE  IInv' /\ AbstractStep
<1>1. PICK V, C, result : /\ V = view /\ C = AfterPlace(t, V)
                          /\ result = PlaceResult(t, V[Opposite(t.side)])
  OBVIOUS
<1>2. t \in Incoming /\ t.id = m + 1 /\ Seen(V, m) /\ placed = m + 1
  BY <1>1 DEF PlaceDone, Sweeping
<1>3. Book(sides', C, m + 1) /\ Return(result) /\ placed' = m + 1 /\ m + 1 \in Nat
  BY <1>1, <1>2
<1>4. IInv' /\ view' = C /\ outcome' = result
  BY <1>3, Returns
<1>5. AbstractStep
  BY <1>1, <1>2, <1>4, AbstractPlaces
<1> QED
  BY <1>4, <1>5

\* The end of a limit order's place.
LEMMA EndPlaceLimitStep ==
  ASSUME OrderBookAssumption, IInv, EndPlaceLimit
  PROVE  IInv' /\ AbstractStep
<1>1. /\ call.op = "place" /\ call.taker.type = "limit" /\ ~CanMatch /\ UNCHANGED placed
      /\ sides' = [sides EXCEPT ![call.taker.side] =
                     IF call.left > 0 THEN Add(@, Entry(call.taker, call.left)) ELSE @]
      /\ Return([call |-> "place", fills |-> call.fills, remaining |-> call.left])
  BY DEF EndPlaceLimit
<1>2. PICK B, t, left, fills, k, a : \E m \in Nat : PlaceDone(t, left, fills, k, a, B, m)
  BY <1>1, PlaceIsDone
<1>3. PICK m \in Nat : PlaceDone(t, left, fills, k, a, B, m)
  BY <1>2
<1>4. PICK S, V, opp, q, r :
        S = sides /\ V = view /\ opp = Opposite(t.side) /\ q = V[opp] /\ r = B[opp]
  OBVIOUS
<1>5. /\ placed = m + 1 /\ Sweeping(t, left, fills, k, a, S, B, V, m)
      /\ ~(left > 0 /\ Len(r) > 0 /\ Crosses(t, r[1].price))
      /\ call.taker = t /\ call.left = left /\ call.fills = fills
  BY <1>3, <1>4 DEF PlaceDone, PlaceCall
<1>6. Fills(t, q) = fills /\ Unfilled(t, q) = left
  BY <1>4, <1>5, SweepEnds
<1>7. t.type = "limit" /\ left \in Nat /\ S = [x \in Sides |-> S[x]]
  <2>1. left \in Nat /\ Book(S, B, m)
    BY <1>4, <1>5, SweepingParts
  <2> QED
    BY <1>1, <1>5, <2>1 DEF Book
<1>8. Return(PlaceResult(t, q))
  <2>1. PlaceResult(t, q) = [call |-> "place", fills |-> fills, remaining |-> left]
    BY <1>6, <1>7 DEF PlaceResult
  <2> QED
    BY <1>1, <1>5, <2>1
<1>9. Book(sides', AfterPlace(t, V), m + 1)
  <2>1. CASE left > 0
    <3>1. PICK e : e = Entry(t, left)
      OBVIOUS
    <3>2. sides' = [S EXCEPT ![t.side] = Add(@, e)]
      BY <1>1, <1>4, <1>5, <2>1, <3>1
    <3>3. Book([S EXCEPT ![t.side] = Add(@, Entry(t, left))], AfterPlace(t, V), m + 1)
      BY <1>4, <1>5, <1>7, <2>1, SweepRests
    <3> QED
      BY <3>1, <3>2, <3>3
  <2>2. CASE left = 0
    <3>1. sides' = S
      BY <1>1, <1>4, <1>5, <1>7, <2>2
    <3>2. Book(S, AfterPlace(t, V), m + 1)
      BY <1>4, <1>5, <2>2, SweepDrops
    <3> QED
      BY <3>1, <3>2
  <2> QED
    BY <1>7, <2>1, <2>2
<1>10. m + 1 \in 0..MaxOrders
  BY <1>5 DEF IInv, Held
<1> QED
  BY <1>1, <1>3, <1>4, <1>8, <1>9, <1>10, PlaceEnds

\* The end of a market order's place.
LEMMA EndPlaceMarketStep ==
  ASSUME OrderBookAssumption, IInv, EndPlaceMarket
  PROVE  IInv' /\ AbstractStep
<1>1. /\ call.op = "place" /\ call.taker.type = "market" /\ ~CanMatch
      /\ UNCHANGED <<sides, placed>>
      /\ Return(IF call.fills = <<>>
                THEN [call |-> "place", error |-> "NoLiquidity"]
                ELSE [call |-> "place", fills |-> call.fills, remaining |-> call.left])
  BY DEF EndPlaceMarket
<1>2. PICK B, t, left, fills, k, a : \E m \in Nat : PlaceDone(t, left, fills, k, a, B, m)
  BY <1>1, PlaceIsDone
<1>3. PICK m \in Nat : PlaceDone(t, left, fills, k, a, B, m)
  BY <1>2
<1>4. PICK S, V, opp, q, r :
        S = sides /\ V = view /\ opp = Opposite(t.side) /\ q = V[opp] /\ r = B[opp]
  OBVIOUS
<1>5. /\ placed = m + 1 /\ Sweeping(t, left, fills, k, a, S, B, V, m)
      /\ ~(left > 0 /\ Len(r) > 0 /\ Crosses(t, r[1].price))
      /\ call.taker = t /\ call.left = left /\ call.fills = fills
  BY <1>3, <1>4 DEF PlaceDone, PlaceCall
<1>6. Fills(t, q) = fills /\ Unfilled(t, q) = left
  BY <1>4, <1>5, SweepEnds
<1>7. Return(PlaceResult(t, q))
  <2>1. t.type = "market"
    BY <1>1, <1>5
  <2>2. PlaceResult(t, q) = IF fills = <<>>
                            THEN [call |-> "place", error |-> "NoLiquidity"]
                            ELSE [call |-> "place", fills |-> fills, remaining |-> left]
    BY <1>6, <2>1 DEF PlaceResult
  <2> QED
    BY <1>1, <1>5, <2>2
<1>8. Book(sides', AfterPlace(t, V), m + 1)
  <2>1. t.type # "limit"
    BY <1>1, <1>5
  <2>2. Book(S, AfterPlace(t, V), m + 1)
    BY <1>4, <1>5, <2>1, SweepDrops
  <2> QED
    BY <1>1, <1>4, <2>2
<1>9. m + 1 \in 0..MaxOrders
  BY <1>5 DEF IInv, Held
<1> QED
  BY <1>1, <1>3, <1>4, <1>7, <1>8, <1>9, PlaceEnds

\* A cancel, by its owner or by someone else.
LEMMA CancelOrderStep ==
  ASSUME OrderBookAssumption, IInv, NEW side \in Sides, NEW id \in 1..placed,
         NEW owner \in Owners, CancelOrder(side, id, owner)
  PROVE  IInv' /\ AbstractStep
<1>1. PICK S, V, n, e, removed :
        /\ S = sides /\ V = view /\ n = placed
        /\ e = GetOrder(S[side], id) /\ removed = RemoveOrder(S[side], id)
  OBVIOUS
<1>2. /\ call = Idle /\ id \in DOMAIN S[side].orders /\ placed' = n
      /\ IF e.owner = owner
         THEN /\ sides' = [S EXCEPT ![side] = removed]
              /\ Return([call |-> "cancel", order |-> e])
         ELSE /\ sides' = [S EXCEPT ![side] = Add(removed, e)]
              /\ Return([call |-> "cancel", error |-> "NotOwner"])
  BY <1>1 DEF CancelOrder
<1>3. n \in Nat /\ n \in 0..MaxOrders /\ \E B : AtRest(call, S, B, V, n)
  BY <1>1, <1>2, HeldBy DEF IInv
<1>4. Book(S, V, n)
  BY <1>3 DEF AtRest
<1>5. PICK G : TakenOut(V, side, id, e, G)
  BY <1>1, <1>2, <1>3, <1>4, BookFinds
<1>6. e \in Resting(V) /\ e.id = id
  BY <1>5 DEF TakenOut
<1>7. e \in Abstract!Resting(view)
  BY <1>1, <1>6 DEF Abstract!Resting, Resting, Abstract!Sides, Sides
<1>8. Abstract!Without(id, view) = Without(id, V)
  BY <1>1, AbstractOperators
<1>9. CASE e.owner = owner
  <2>1. Book([S EXCEPT ![side] = RemoveOrder(@, id)], Without(id, V), n)
    BY <1>2, <1>3, <1>4, BookCancels
  <2>2. PICK C, result : C = Without(id, V) /\ result = [call |-> "cancel", order |-> e]
    OBVIOUS
  <2>3. Book(sides', C, n) /\ Return(result)
    BY <1>1, <1>2, <1>9, <2>1, <2>2
  <2>4. IInv' /\ view' = C /\ outcome' = result
    BY <1>2, <1>3, <2>3, Returns
  <2>5. Abstract!Cancel(e, owner)
    BY <1>6, <1>8, <1>9, <2>2, <2>4 DEF Abstract!Cancel
  <2> QED
    BY <1>7, <2>4, <2>5, Zenon DEF AbstractStep, Abstract!Next
<1>10. CASE e.owner # owner
  <2>1. Book([S EXCEPT ![side] = Add(RemoveOrder(S[side], id), e)],
             [Without(id, V) EXCEPT ![side] = Rest(side, @, e)], n)
    BY <1>1, <1>2, <1>3, <1>4, BookRestores
  <2>2. PICK C, result : /\ C = [Without(id, V) EXCEPT ![side] = Rest(side, @, e)]
                         /\ result = [call |-> "cancel", error |-> "NotOwner"]
    OBVIOUS
  <2>3. Book(sides', C, n) /\ Return(result)
    BY <1>1, <1>2, <1>10, <2>1, <2>2
  <2>4. IInv' /\ view' = C /\ outcome' = result
    BY <1>2, <1>3, <2>3, Returns
  <2>5. (CHOOSE s \in Abstract!Sides : e \in {view[s][i] : i \in DOMAIN view[s]}) = side
    <3>1. \A x \in Sides : x = side <=> e \in {V[x][i] : i \in DOMAIN V[x]}
      BY <1>5 DEF TakenOut
    <3>2. Abstract!Sides = Sides
      BY DEF Abstract!Sides, Sides
    <3> QED
      BY <1>1, <3>1, <3>2
  <2>6. view' = [Abstract!Without(e.id, view) EXCEPT ![side] = Abstract!Rest(side, @, e)]
    <3>1. \A q : Abstract!Rest(side, q, e) = Rest(side, q, e)
      BY AbstractParts
    <3> QED
      BY <1>6, <1>8, <2>2, <2>4, <3>1
  <2>7. Abstract!CancelByOther(e, owner)
    BY <1>10, <2>2, <2>4, <2>5, <2>6, Zenon DEF Abstract!CancelByOther
  <2> QED
    BY <1>7, <2>4, <2>7, Zenon DEF AbstractStep, Abstract!Next
<1> QED
  BY <1>9, <1>10

\* A cancel of an order that is no longer there.
LEMMA CancelNotFoundStep ==
  ASSUME OrderBookAssumption, IInv, CancelNotFound
  PROVE  IInv' /\ AbstractStep
<1>1. PICK S, V, n : S = sides /\ V = view /\ n = placed
  OBVIOUS
<1>2. /\ call = Idle /\ sides' = S /\ placed' = n
      /\ Return([call |-> "cancel", error |-> "OrderNotFound"])
  BY <1>1 DEF CancelNotFound
<1>3. n \in Nat /\ n \in 0..MaxOrders /\ \E B : AtRest(call, S, B, V, n)
  BY <1>1, <1>2, HeldBy DEF IInv
<1>4. Book(sides', V, n)
  BY <1>2, <1>3 DEF AtRest
<1>5. IInv' /\ view' = V /\ outcome' = [call |-> "cancel", error |-> "OrderNotFound"]
  BY <1>2, <1>3, <1>4, Returns
<1>6. Abstract!CancelUnknown
  BY <1>1, <1>5 DEF Abstract!CancelUnknown
<1> QED
  BY <1>5, <1>6 DEF AbstractStep, Abstract!Next

\* Taking the mutex to evict.
LEMMA BeginEvictStep ==
  ASSUME OrderBookAssumption, IInv, BeginEvict
  PROVE  IInv' /\ AbstractStep
<1>1. PICK S, V, n, o : S = sides /\ V = view /\ n = placed /\ o = [side \in Sides |-> <<>>]
  OBVIOUS
<1>2. /\ call = Idle /\ call' = EvictCall(o) /\ sides' = S /\ view' = V /\ placed' = n
      /\ UNCHANGED <<view, outcome>>
  BY <1>1 DEF BeginEvict, Begin, EvictCall
<1>3. n \in Nat /\ n \in 0..MaxOrders /\ \E B : AtRest(call, S, B, V, n)
  BY <1>1, <1>2, HeldBy DEF IInv
<1>4. Book(S, V, n)
  BY <1>3 DEF AtRest
<1>5. Evicting(o, S, V, V, n)
  BY <1>1, <1>3, <1>4, EvictStarts
<1>6. InEvict(call', sides', V, view', placed')
  BY <1>2, <1>5 DEF InEvict
<1>7. Held(call', sides', view', placed')
  BY <1>2, <1>3, <1>6 DEF Held
<1> QED
  BY <1>2, <1>7 DEF IInv, AbstractStep

\* An iteration of an eviction loop.
LEMMA EvictWorstStep ==
  ASSUME OrderBookAssumption, IInv, NEW side \in Sides, EvictWorst(side)
  PROVE  IInv' /\ AbstractStep
<1>1. PICK S, V, n : S = sides /\ V = view /\ n = placed
  OBVIOUS
<1>2. PICK w : w = WorstPrice(side)
  OBVIOUS
<1>3. /\ call.op = "evict" /\ Cardinality(DOMAIN S[side].levels) > MaxLevels
      /\ sides' = [S EXCEPT ![side] = EvictLevel(@, w)]
      /\ call' = [call EXCEPT !.orders[side] = S[side].levels[w] \o @]
      /\ UNCHANGED <<placed, view, outcome>>
  BY <1>1, <1>2 DEF EvictWorst, ExcessLevels
<1>4. n \in Nat /\ n \in 0..MaxOrders /\ \E B : InEvict(call, S, B, V, n)
  BY <1>1, <1>3, HeldBy DEF IInv
<1>5. PICK B, o : call = EvictCall(o) /\ Evicting(o, S, B, V, n)
  BY <1>4 DEF InEvict
<1>6. PICK F : F = B[side]
  OBVIOUS
<1>7. /\ Len(F) > 0
      /\ \A p : p = F[Len(F)].price =>
           \E C : Evicting([o EXCEPT ![side] = S[side].levels[p] \o @],
                           [S EXCEPT ![side] = EvictLevel(@, p)], C, V, n)
  <2>1. /\ Len(B[side]) > 0
        /\ \A p : p = B[side][Len(B[side])].price =>
             \E C : Evicting([o EXCEPT ![side] = S[side].levels[p] \o @],
                             [S EXCEPT ![side] = EvictLevel(@, p)], C, V, n)
    BY <1>3, <1>4, <1>5, EvictStep
  <2> QED
    BY <1>6, <2>1
<1>8. w = F[Len(F)].price
  <2>1. Lists(side, sides[side], F)
    BY <1>1, <1>5, <1>6 DEF Evicting, Book
  <2> QED
    BY <1>2, <1>7, <2>1, BestAndWorst
<1>9. PICK C : Evicting([o EXCEPT ![side] = S[side].levels[w] \o @],
                        [S EXCEPT ![side] = EvictLevel(@, w)], C, V, n)
  BY <1>7, <1>8
<1>10. call' = EvictCall([o EXCEPT ![side] = S[side].levels[w] \o @])
  BY <1>3, <1>5 DEF EvictCall
<1>11. InEvict(call', sides', C, view', placed')
  BY <1>1, <1>3, <1>9, <1>10 DEF InEvict
<1>12. Held(call', sides', view', placed')
  BY <1>1, <1>3, <1>4, <1>11 DEF Held
<1> QED
  BY <1>3, <1>12 DEF IInv, AbstractStep

\* The end of an eviction.
LEMMA EndEvictStep ==
  ASSUME OrderBookAssumption, IInv, EndEvict
  PROVE  IInv' /\ AbstractStep
<1>1. PICK S, V, n : S = sides /\ V = view /\ n = placed
  OBVIOUS
<1>2. /\ call.op = "evict"
      /\ \A side \in Sides : ~(Cardinality(DOMAIN S[side].levels) > MaxLevels)
      /\ sides' = S /\ placed' = n
      /\ Return([call |-> "evict", orders |-> call.orders])
  BY <1>1 DEF EndEvict, ExcessLevels
<1>3. n \in Nat /\ n \in 0..MaxOrders /\ \E B : InEvict(call, S, B, V, n)
  BY <1>1, <1>2, HeldBy DEF IInv
<1>4. PICK B, o : call = EvictCall(o) /\ Evicting(o, S, B, V, n)
  BY <1>3 DEF InEvict
<1>5. AfterEvict(V, MaxLevels) = B /\ [s \in Sides |-> Evicted(s, V[s], MaxLevels)] = o
  BY <1>2, <1>3, <1>4, EvictEnds
<1>6. PICK result : result = [call |-> "evict", orders |-> o]
  OBVIOUS
<1>7. Book(sides', B, n) /\ Return(result)
  BY <1>2, <1>4, <1>6 DEF Evicting, EvictCall
<1>8. IInv' /\ view' = B /\ outcome' = result
  BY <1>2, <1>3, <1>7, Returns
<1>9. Abstract!Evict
  <2>1. Abstract!AfterEvict(view, MaxLevels) = B
    BY <1>1, <1>5, AbstractOperators
  <2>2. \A s \in Sides : Abstract!Evicted(s, view[s], MaxLevels) = Evicted(s, V[s], MaxLevels)
    BY <1>1, AbstractParts
  <2>3. Abstract!Sides = Sides
    BY DEF Abstract!Sides, Sides
  <2>4. [s \in Abstract!Sides |-> Abstract!Evicted(s, view[s], MaxLevels)] = o
    BY <1>5, <2>2, <2>3
  <2> QED
    BY <1>6, <1>8, <2>1, <2>4 DEF Abstract!Evict
<1> QED
  BY <1>8, <1>9 DEF AbstractStep, Abstract!Next

-----------------------------------------------------------------------------

\* A new book is at rest.
LEMMA InitHolds ==
  ASSUME OrderBookAssumption, Init
  PROVE  IInv /\ Abstract!Init
<1>1. /\ sides = [side \in Sides |-> NewOrderSide] /\ call = Idle /\ placed = 0
      /\ view = [side \in Sides |-> <<>>] /\ outcome = [call |-> "none"]
  BY DEF Init
<1>2. Book(sides, view, 0)
  BY <1>1, BookNew
<1>3. AtRest(call, sides, view, view, placed)
  BY <1>1, <1>2 DEF AtRest
<1>4. placed \in 0..MaxOrders
  BY <1>1 DEF OrderBookAssumption
<1>5. Held(call, sides, view, placed)
  BY <1>3, <1>4 DEF Held
<1>6. Abstract!Init
  BY <1>1 DEF Abstract!Init, Abstract!Sides, Sides
<1> QED
  BY <1>5, <1>6 DEF IInv

\* Every step keeps the invariant, and is a step of the abstract book or changes
\* nothing callers see.
LEMMA StepHolds ==
  ASSUME OrderBookAssumption, IInv, [Next]_vars
  PROVE  IInv' /\ AbstractStep
<1>1. CASE UNCHANGED vars
  <2>1. sides' = sides /\ call' = call /\ placed' = placed /\ view' = view /\ outcome' = outcome
    BY <1>1 DEF vars
  <2>2. Held(call', sides', view', placed')
    BY <2>1 DEF IInv
  <2> QED
    BY <2>1, <2>2 DEF IInv, AbstractStep
<1>2. ASSUME NEW order \in Incoming, BeginPlace(order)
      PROVE  IInv' /\ AbstractStep
  BY <1>2, BeginPlaceStep
<1>3. CASE Match
  BY <1>3, MatchStep
<1>4. CASE EndPlaceLimit
  BY <1>4, EndPlaceLimitStep
<1>5. CASE EndPlaceMarket
  BY <1>5, EndPlaceMarketStep
<1>6. ASSUME NEW side \in Sides, NEW id \in 1..placed, NEW owner \in Owners,
             CancelOrder(side, id, owner)
      PROVE  IInv' /\ AbstractStep
  BY <1>6, CancelOrderStep
<1>7. CASE CancelNotFound
  BY <1>7, CancelNotFoundStep
<1>8. CASE BeginEvict
  BY <1>8, BeginEvictStep
<1>9. ASSUME NEW side \in Sides, EvictWorst(side)
      PROVE  IInv' /\ AbstractStep
  BY <1>9, EvictWorstStep
<1>10. CASE EndEvict
  BY <1>10, EndEvictStep
<1> QED
  BY <1>1, <1>2, <1>3, <1>4, <1>5, <1>6, <1>7, <1>8, <1>9, <1>10 DEF Next

\* In every reachable state the sides hold a book's lists, and the call in progress
\* is part of the way to price-time priority.
THEOREM OrderBookInvariant == Spec => []IInv
<1>1. Init => IInv
  BY InitHolds, OrderBookAssumption
<1>2. IInv /\ [Next]_vars => IInv'
  BY StepHolds, OrderBookAssumption
<1> QED
  BY <1>1, <1>2, PTL DEF Spec

\* What the invariant says of the sides, whichever call is in progress.
LEMMA InvariantParts ==
  ASSUME OrderBookAssumption, IInv
  PROVE  /\ placed \in Nat /\ placed \in 0..MaxOrders
         /\ \E B : \E n \in Nat : Book(sides, B, n) /\ n <= placed
         /\ call.op \in {"idle", "place", "evict"}
<1>1. /\ placed \in Nat /\ placed \in 0..MaxOrders /\ call.op \in {"idle", "place", "evict"}
  BY HeldBy DEF IInv
<1>2. PICK B : \/ AtRest(call, sides, B, view, placed)
               \/ InPlace(call, sides, B, view, placed)
               \/ InEvict(call, sides, B, view, placed)
  BY DEF IInv, Held
<1>3. CASE AtRest(call, sides, B, view, placed)
  BY <1>1, <1>3 DEF AtRest
<1>4. CASE InPlace(call, sides, B, view, placed)
  <2>1. PICK m \in Nat : placed = m + 1 /\ Book(sides, B, m)
    BY <1>4 DEF InPlace, Sweeping
  <2> QED
    BY <1>1, <2>1
<1>5. CASE InEvict(call, sides, B, view, placed)
  BY <1>1, <1>5 DEF InEvict, Evicting
<1> QED
  BY <1>1, <1>2, <1>3, <1>4, <1>5

\* The types: levels at prices that exist, IDs that were given out, aggregates that
\* never go below zero.
THEOREM OrderBookTypes == Spec => []TypeOK
<1>1. IInv => TypeOK
  <2> SUFFICES ASSUME IInv
               PROVE  TypeOK
    OBVIOUS
  <2>1. /\ placed \in Nat /\ placed \in 0..MaxOrders /\ call.op \in {"idle", "place", "evict"}
        /\ \E B : \E n \in Nat : Book(sides, B, n) /\ n <= placed
    BY InvariantParts, OrderBookAssumption
  <2>2. PICK B : \E n \in Nat : Book(sides, B, n) /\ n <= placed
    BY <2>1
  <2>3. PICK n \in Nat : Book(sides, B, n) /\ n <= placed
    BY <2>2
  <2>4. \A side \in Sides :
          /\ DOMAIN sides[side].levels \subseteq Prices
          /\ DOMAIN sides[side].orders \subseteq 1..n
          /\ sides[side].volume \in Nat
          /\ sides[side].count \in Nat
    BY <2>3, BookParts, OrderBookAssumption
  <2>5. 1..n \subseteq 1..placed
    BY <2>1, <2>3
  <2>6. \A side \in Sides : DOMAIN sides[side].orders \subseteq 1..placed
    BY <2>4, <2>5
  <2> QED
    BY <2>1, <2>4, <2>6 DEF TypeOK
<1> QED
  BY <1>1, OrderBookInvariant, PTL

\* In every reachable state, in the middle of a call too, the tree, the queues, the
\* ID map and the aggregates of a side describe the same orders.
THEOREM SidesConsistent == Spec => []BookConsistent
<1>1. IInv => BookConsistent
  <2> SUFFICES ASSUME IInv
               PROVE  BookConsistent
    OBVIOUS
  <2>1. PICK B : \E n \in Nat : Book(sides, B, n) /\ n <= placed
    BY InvariantParts, OrderBookAssumption
  <2>2. PICK n \in Nat : Book(sides, B, n)
    BY <2>1
  <2>3. \A side \in Sides : SideConsistent(sides[side])
    BY <2>2, BookParts, OrderBookAssumption
  <2> QED
    BY <2>3 DEF BookConsistent
<1> QED
  BY <1>1, OrderBookInvariant, PTL

\* Whoever takes the mutex finds every bid below every ask.
THEOREM NeverCrossed == Spec => []Uncrossed
<1>1. IInv => Uncrossed
  <2> SUFFICES ASSUME IInv
               PROVE  Uncrossed
    OBVIOUS
  <2>1. PICK B : \E n \in Nat : Book(sides, B, n) /\ n <= placed
    BY InvariantParts, OrderBookAssumption
  <2>2. PICK n \in Nat : Book(sides, B, n)
    BY <2>1
  <2>3. \A side \in Sides : DOMAIN sides[side].levels = Levels(B[side])
    BY <2>2, BookParts, OrderBookAssumption
  <2>4. \A bid \in Levels(B["buy"]), ask \in Levels(B["sell"]) : bid < ask
    BY <2>2 DEF Book
  <2> QED
    BY <2>3, <2>4, TwoSides DEF Uncrossed
<1> QED
  BY <1>1, OrderBookInvariant, PTL

\* The loops over trees, queues and maps do what price-time priority says, whatever
\* was placed, cancelled, put back and evicted before, in any number.
THEOREM Refinement == Spec => ImplementsPriceTime
<1>1. Init => Abstract!Init
  BY InitHolds, OrderBookAssumption
<1>2. IInv /\ [Next]_vars => [Abstract!Next]_<<view, outcome>>
  BY StepHolds, OrderBookAssumption DEF AbstractStep
<1> QED
  BY <1>1, <1>2, OrderBookInvariant, PTL DEF Spec, ImplementsPriceTime, Abstract!Spec


=============================================================================
