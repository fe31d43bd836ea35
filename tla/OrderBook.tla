----------------------------- MODULE OrderBook -----------------------------
(***************************************************************************)
(* The matching engine of one trading pair.                                *)
(*                                                                         *)
(* Each side keeps a tree of price levels, a FIFO queue of orders on each  *)
(* level, a map from order ID to the level it is on, and two aggregates.   *)
(* These are updated at different places in the code, the fill loop        *)
(* by-passing the side's own methods; the invariants say they never drift  *)
(* apart.  The red-black tree is the function from its keys to its values. *)
(*                                                                         *)
(* The book's mutex is held for a whole call.  The loops of a call take a  *)
(* step per iteration here; what callers can see, in view and outcome,     *)
(* changes when the call returns.                                          *)
(***************************************************************************)
EXTENDS PriceTime, Integers

CONSTANTS
  MaxOrders,  (* Orders placed in a behaviour: bounds the model.           *)
  Prices,     (* Limit prices, positive.                                   *)
  Quantities, (* Order quantities, positive.                               *)
  Owners,     (* Users.                                                    *)
  MaxLevels   (* Price levels kept on a side by EvictExcessLevels.         *)

ASSUME OrderBookAssumption ==
  /\ MaxOrders \in Nat
  /\ Prices \subseteq Nat \ {0}
  /\ Quantities \subseteq Nat \ {0}
  /\ MaxLevels \in Nat \ {0}

VARIABLES
  sides,      (* The two OrderSides.                                       *)
  call,       (* The call that holds the mutex.                            *)
  placed,     (* Orders placed so far; the next one has ID placed + 1.     *)
  view,       (* History: the resting orders when the mutex was last free. *)
  outcome     (* History: what the last call returned.                     *)

vars == <<sides, call, placed, view, outcome>>

Idle == [op |-> "idle"]

\* What may be passed to PlaceLimitOrder and PlaceMarketOrder: validateOrder
\* turns away the rest before anything is locked.
Incoming ==
  [id : 1..MaxOrders, owner : Owners, side : Sides, type : {"limit"},
   price : Prices, quantity : Quantities]
  \cup
  [id : 1..MaxOrders, owner : Owners, side : Sides, type : {"market"},
   price : {0}, quantity : Quantities]

-----------------------------------------------------------------------------

NewOrderSide ==
  [levels |-> <<>>, orders |-> <<>>, volume |-> 0, count |-> 0]

\* A map with key k set to v, and without the keys ks.
Put(map, k, v) == [x \in DOMAIN map \cup {k} |-> IF x = k THEN v ELSE map[x]]
Drop(map, ks) == [x \in DOMAIN map \ ks |-> map[x]]

Ids(queue) == {queue[i].id : i \in DOMAIN queue}

\* Mutant of SetQueue: an empty level stays in the tree.
SetQueueAlways(levels, price, queue) == Put(levels, price, queue)

\* A queue put back on its level, or the level removed when it is empty.
SetQueue(levels, price, queue) ==
  IF queue = <<>> THEN Drop(levels, {price}) ELSE Put(levels, price, queue)

Queue(s, price) == IF price \in DOMAIN s.levels THEN s.levels[price] ELSE <<>>

\* Mutants of Add: the count is forgotten; the order goes to the front.
AddUncounted(s, e) ==
  [s EXCEPT !.levels = Put(s.levels, e.price, Append(Queue(s, e.price), e)),
            !.orders = Put(s.orders, e.id, e.price),
            !.volume = @ + e.remaining]

AddToFront(s, e) ==
  [levels |-> Put(s.levels, e.price, <<e>> \o Queue(s, e.price)),
   orders |-> Put(s.orders, e.id, e.price),
   volume |-> s.volume + e.remaining,
   count  |-> s.count + 1]

Add(s, e) ==
  [levels |-> Put(s.levels, e.price, Append(Queue(s, e.price), e)),
   orders |-> Put(s.orders, e.id, e.price),
   volume |-> s.volume + e.remaining,
   count  |-> s.count + 1]

\* The element of its level's queue that an order is.
Element(s, id) ==
  LET queue == s.levels[s.orders[id]] IN CHOOSE i \in DOMAIN queue : queue[i].id = id

GetOrder(s, id) == s.levels[s.orders[id]][Element(s, id)]

RemoveOrder(s, id) ==
  LET e == GetOrder(s, id)
      price == s.orders[id]
  IN  [levels |-> SetQueue(s.levels, price, RemoveAt(s.levels[price], Element(s, id))),
       orders |-> Drop(s.orders, {id}),
       volume |-> s.volume - e.remaining,
       count  |-> s.count - 1]

BestPrice(side) ==
  CHOOSE p \in DOMAIN sides[side].levels :
    \A q \in DOMAIN sides[side].levels : ~Better(side, q, p)

WorstPrice(side) ==
  CHOOSE p \in DOMAIN sides[side].levels :
    \A q \in DOMAIN sides[side].levels : ~Better(side, p, q)

\* fillFromQueue, one iteration: the front order of a level gives up qty.
FillFront(s, price, qty) ==
  LET queue == s.levels[price]
      front == Head(queue)
  IN  IF front.remaining = qty
      THEN [levels |-> SetQueue(s.levels, price, Tail(queue)),
            orders |-> Drop(s.orders, {front.id}),
            volume |-> s.volume - qty,
            count  |-> s.count - 1]
      ELSE [s EXCEPT !.levels[price][1].remaining = @ - qty,
                     !.volume = @ - qty]

EvictLevel(s, price) ==
  LET queue == s.levels[price]
  IN  [levels |-> Drop(s.levels, {price}),
       orders |-> Drop(s.orders, Ids(queue)),
       volume |-> s.volume - Total([i \in DOMAIN queue |-> queue[i].remaining]),
       count  |-> s.count - Len(queue)]

\* Where the orders of a side are, as pairs of a level and a position on it; and
\* which come before one of them.
Slots(s) == UNION {{p} \X DOMAIN s.levels[p] : p \in DOMAIN s.levels}
EntryAt(s, x) == s.levels[x[1]][x[2]]
Before(side, s, x) ==
  {y \in Slots(s) : Better(side, y[1], x[1]) \/ (y[1] = x[1] /\ y[2] < x[2])}

\* One side in priority order, as an in-order walk of the tree visits it.
Flatten(side, s) ==
  [k \in 1..Cardinality(Slots(s)) |->
     EntryAt(s, CHOOSE x \in Slots(s) : Cardinality(Before(side, s, x)) = k - 1)]

-----------------------------------------------------------------------------

Init ==
  /\ sides = [side \in Sides |-> NewOrderSide]
  /\ call = Idle
  /\ placed = 0
  /\ view = [side \in Sides |-> <<>>]
  /\ outcome = [call |-> "none"]

\* The mutex is released: the call's effect and result become visible.
Return(result) ==
  /\ call' = Idle
  /\ view' = [side \in Sides |-> Flatten(side, sides'[side])]
  /\ outcome' = result

Begin(c) ==
  /\ call = Idle
  /\ call' = c
  /\ UNCHANGED <<sides, view, outcome>>

BeginPlace(order) ==
  /\ order.id = placed + 1
  /\ placed' = order.id
  /\ Begin([op |-> "place", taker |-> order, left |-> order.quantity,
            fills |-> <<>>])

\* Mutant of CanMatch: an order at the very limit does not match.
CanMatchInside ==
  LET order == call.taker
      opp == Opposite(order.side)
  IN  /\ call.left > 0
      /\ DOMAIN sides[opp].levels # {}
      /\ order.type = "limit" => Better(opp, BestPrice(opp), order.price)

\* The loop condition of matchBuy and matchSell.  A price limit of 0 stands
\* for none.
CanMatch ==
  LET order == call.taker
      opp == Opposite(order.side)
      limit == IF order.type = "market" THEN 0 ELSE order.price
  IN  /\ call.left > 0
      /\ DOMAIN sides[opp].levels # {}
      /\ ~(limit > 0 /\ order.side = "buy" /\ BestPrice(opp) > limit)
      /\ ~(limit > 0 /\ order.side = "sell" /\ BestPrice(opp) < limit)

Match ==
  /\ call.op = "place"
  /\ CanMatch
  /\ LET opp == Opposite(call.taker.side)
         price == BestPrice(opp)
         front == Head(sides[opp].levels[price])
         qty == Min64(call.left, front.remaining)
         fill == [maker |-> front.id, owner |-> front.owner,
                  price |-> price, quantity |-> qty]
     IN  /\ sides' = [sides EXCEPT ![opp] = FillFront(@, price, qty)]
         /\ call' = [call EXCEPT !.left = @ - qty, !.fills = Append(@, fill)]
  /\ UNCHANGED <<placed, view, outcome>>

EndPlaceLimit ==
  /\ call.op = "place" /\ call.taker.type = "limit"
  /\ ~CanMatch
  /\ sides' = [sides EXCEPT ![call.taker.side] =
                 IF call.left > 0 THEN Add(@, Entry(call.taker, call.left)) ELSE @]
  /\ Return([call |-> "place", fills |-> call.fills, remaining |-> call.left])
  /\ UNCHANGED placed

EndPlaceMarket ==
  /\ call.op = "place" /\ call.taker.type = "market"
  /\ ~CanMatch
  /\ UNCHANGED <<sides, placed>>
  /\ Return(IF call.fills = <<>>
            THEN [call |-> "place", error |-> "NoLiquidity"]
            ELSE [call |-> "place", fills |-> call.fills, remaining |-> call.left])

\* CancelOrder of an order that rests, by its owner or by someone else.
CancelOrder(side, id, owner) ==
  /\ call = Idle
  /\ id \in DOMAIN sides[side].orders
  /\ LET e == GetOrder(sides[side], id)
         removed == RemoveOrder(sides[side], id)
     IN  IF e.owner = owner
         THEN /\ sides' = [sides EXCEPT ![side] = removed]
              /\ Return([call |-> "cancel", order |-> e])
         ELSE /\ sides' = [sides EXCEPT ![side] = Add(removed, e)]
              /\ Return([call |-> "cancel", error |-> "NotOwner"])
  /\ UNCHANGED placed

CancelNotFound ==
  /\ call = Idle
  /\ \E id \in 1..placed :
       \A side \in Sides : id \notin DOMAIN sides[side].orders
  /\ UNCHANGED <<sides, placed>>
  /\ Return([call |-> "cancel", error |-> "OrderNotFound"])

BeginEvict ==
  /\ Begin([op |-> "evict", orders |-> [side \in Sides |-> <<>>]])
  /\ UNCHANGED placed

ExcessLevels(side) == Cardinality(DOMAIN sides[side].levels) > MaxLevels

\* One iteration of the loops of EvictExcessLevels, bids before asks.  The
\* list of the evicted is kept best first here; the code's has the worst level
\* first, and its caller depends on no order.
EvictWorst(side) ==
  /\ call.op = "evict"
  /\ ExcessLevels(side)
  /\ side = "sell" => ~ExcessLevels("buy")
  /\ LET price == WorstPrice(side)
     IN  /\ sides' = [sides EXCEPT ![side] = EvictLevel(@, price)]
         /\ call' = [call EXCEPT !.orders[side] =
                       sides[side].levels[price] \o @]
  /\ UNCHANGED <<placed, view, outcome>>

EndEvict ==
  /\ call.op = "evict"
  /\ \A side \in Sides : ~ExcessLevels(side)
  /\ UNCHANGED <<sides, placed>>
  /\ Return([call |-> "evict", orders |-> call.orders])

Next ==
  \/ \E order \in Incoming : BeginPlace(order)
  \/ Match
  \/ EndPlaceLimit
  \/ EndPlaceMarket
  \/ \E side \in Sides, id \in 1..placed, owner \in Owners :
       CancelOrder(side, id, owner)
  \/ CancelNotFound
  \/ BeginEvict
  \/ \E side \in Sides : EvictWorst(side)
  \/ EndEvict

Spec == Init /\ [][Next]_vars

-----------------------------------------------------------------------------

TypeOK ==
  /\ placed \in 0..MaxOrders
  /\ \A side \in Sides :
       /\ DOMAIN sides[side].levels \subseteq Prices
       /\ DOMAIN sides[side].orders \subseteq 1..placed
       /\ sides[side].volume \in Nat
       /\ sides[side].count \in Nat
  /\ call.op \in {"idle", "place", "evict"}

\* OrderSide and fillFromQueue: through every loop iteration the tree, the
\* queues, the ID map and the aggregates of a side describe the same orders:
\* no empty level, no filled order at rest, no order twice, none unmapped.
SideConsistent(s) ==
  LET slots == Slots(s)
      order(x) == EntryAt(s, x)
  IN  /\ \A p \in DOMAIN s.levels : s.levels[p] # <<>>
      /\ \A x \in slots :
           /\ order(x).price = x[1]
           /\ order(x).remaining > 0
           /\ order(x).id \in DOMAIN s.orders
           /\ s.orders[order(x).id] = x[1]
      /\ Cardinality(slots) = Cardinality(DOMAIN s.orders)
      /\ \A x, y \in slots : order(x).id = order(y).id => x = y
      /\ s.count = Cardinality(slots)
      /\ s.volume = Total([x \in slots |-> order(x).remaining])

BookConsistent == \A side \in Sides : SideConsistent(sides[side])

\* matchBuy and matchSell sweep before anything rests: whoever takes the
\* mutex finds every bid below every ask, whatever was placed, cancelled,
\* put back or evicted before.
Uncrossed ==
  call = Idle =>
    \A bid \in DOMAIN sides["buy"].levels, ask \in DOMAIN sides["sell"].levels :
      bid < ask

\* Every call has the effect and the result of price-time priority.
Abstract == INSTANCE PriceTimeBook WITH book <- view

ImplementsPriceTime == Abstract!Spec

\* What the comment in CancelOrder and the description of the cancel flow say
\* of a cancel that is refused: the order is put back and the book is intact.
RefusedCancelLeavesBook ==
  [][outcome' = [call |-> "cancel", error |-> "NotOwner"] => view' = view]_vars

=============================================================================
