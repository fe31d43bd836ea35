----------------------------- MODULE PriceTime -----------------------------
(***************************************************************************)
(* What the matching engine promises: price-time priority.                 *)
(*                                                                         *)
(* Each side of the book is one sequence of resting orders, best price     *)
(* first and, at one price, first come first.  An incoming order takes     *)
(* from the front of the opposite side what it crosses, at the resting     *)
(* prices, until it is filled.  Here that is stated in closed form, as how *)
(* much of each resting order the incoming one takes; module OrderBook is  *)
(* shown to compute it with its loops over trees, queues and maps.         *)
(***************************************************************************)
EXTENDS UnitSum, Integers, Sequences, SequencesExt

\* The k-th smallest of a set of positions, and the part of a queue at them.
Nth(positions, k) ==
  CHOOSE i \in positions : Cardinality({j \in positions : j <= i}) = k

Sub(queue, positions) ==
  [k \in 1..Cardinality(positions) |-> queue[Nth(positions, k)]]

Sides == {"buy", "sell"}
Opposite(side) == IF side = "buy" THEN "sell" ELSE "buy"

\* The comparator of a side: the highest bid and the lowest ask are best.
Better(side, p, q) == IF side = "buy" THEN p > q ELSE p < q

\* Whether an incoming order trades against a resting price.
Crosses(order, price) ==
  \/ order.type = "market"
  \/ price = order.price
  \/ Better(Opposite(order.side), price, order.price)

\* The entry of an order in the book.
Entry(order, qty) ==
  [id |-> order.id, owner |-> order.owner, price |-> order.price, remaining |-> qty]

\* A side with one more order: behind every order at least as good.
Rest(side, queue, entry) ==
  LET ahead == {i \in DOMAIN queue : ~Better(side, entry.price, queue[i].price)}
  IN  InsertAt(queue, Cardinality(ahead) + 1, entry)

\* How much quantity rests before position i of the queue.
Ahead(queue, i) == Total([j \in 1..(i - 1) |-> queue[j].remaining])

Min64(a, b) == IF a < b THEN a ELSE b

\* How much the order takes of each resting order of the opposite side.
Taken(order, queue) ==
  [i \in DOMAIN queue |->
     IF Crosses(order, queue[i].price) /\ Ahead(queue, i) < order.quantity
     THEN Min64(order.quantity - Ahead(queue, i), queue[i].remaining)
     ELSE 0]

\* The fills, in the order they happen.
Fills(order, queue) ==
  LET taken == Taken(order, queue)
      hit == {i \in DOMAIN queue : taken[i] > 0}
      fill == [i \in DOMAIN queue |->
                 [maker |-> queue[i].id, owner |-> queue[i].owner,
                  price |-> queue[i].price, quantity |-> taken[i]]]
  IN  Sub(fill, hit)

Unfilled(order, queue) == order.quantity - Total(Taken(order, queue))

\* What is left of the opposite side.
AfterFills(order, queue) ==
  LET taken == Taken(order, queue)
      left == [i \in DOMAIN queue |-> [queue[i] EXCEPT !.remaining = @ - taken[i]]]
  IN  Sub(left, {i \in DOMAIN left : left[i].remaining > 0})

\* Only a limit order rests.
AfterPlace(order, book) ==
  LET opp == Opposite(order.side)
      left == Unfilled(order, book[opp])
  IN  [book EXCEPT
         ![opp] = AfterFills(order, book[opp]),
         ![order.side] = IF order.type = "limit" /\ left > 0
                         THEN Rest(order.side, @, Entry(order, left))
                         ELSE @]

Without(id, book) ==
  [s \in Sides |-> Sub(book[s], {i \in DOMAIN book[s] : book[s][i].id # id})]

Resting(book) == UNION {{book[s][i] : i \in DOMAIN book[s]} : s \in Sides}

Levels(queue) == {queue[i].price : i \in DOMAIN queue}

\* How many levels are better than the one of position i.
Rank(side, queue, i) ==
  Cardinality({p \in Levels(queue) : Better(side, p, queue[i].price)})

\* The orders on the best levels of a side, and those evicted from the rest.
Kept(side, queue, max) ==
  Sub(queue, {i \in DOMAIN queue : Rank(side, queue, i) < max})

Evicted(side, queue, max) ==
  Sub(queue, {i \in DOMAIN queue : Rank(side, queue, i) >= max})

AfterEvict(book, max) == [s \in Sides |-> Kept(s, book[s], max)]

=============================================================================
