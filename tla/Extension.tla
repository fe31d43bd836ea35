----------------------------- MODULE Extension -----------------------------
(***************************************************************************)
(* The extension's request handlers on one trading pair: PLACE_ORDER and   *)
(* CANCEL_ORDER, with the deposits and withdrawals that share the ledger.  *)
(*                                                                         *)
(* Requests run concurrently.  Three locks order them: e.mu (mu here), the *)
(* book's mutex and the balance manager's.  The last two are held for one  *)
(* call only, so a call of the book or of the manager is one step and the  *)
(* steps of other requests come between.  The book is the one of module    *)
(* PriceTime, which module OrderBook implements.  Placing an order holds   *)
(* e.mu from its first change of state to its last; cancelling one takes   *)
(* it twice and changes the book and the ledger in between.                *)
(*                                                                         *)
(* The errors of Transfer and Release are dropped by every caller here.    *)
(* History and candles, which nothing below reads, are left out.           *)
(***************************************************************************)
EXTENDS Balance, PriceTime

CONSTANTS
  Base, Quote,      (* The tokens of the pair.                             *)
  Handlers,         (* Requests that can be under way at once.             *)
  PricePrecision,   (* The divisor of price * quantity.                    *)
  Types,            (* Order types of the requests.                        *)
  Prices,           (* Prices of the requests; 0 is one.                   *)
  Quantities,       (* Quantities of the requests.                         *)
  MaxOrdersPerUser, (* Cap on the tracked orders of a user.                *)
  MaxLevels,        (* MaxLevelsPerSide.                                   *)
  Funds,            (* Initial balance: the snapshot the process loads.    *)
  MaxOrders,        (* Orders issued in a behaviour: bounds the model.     *)
  MaxExternals      (* Deposits, withdrawals and restarts in a behaviour:  *)
                    (* bounds the model.                                   *)

ASSUME PairAssumption == Tokens = {Base, Quote} /\ Base # Quote

ASSUME ExtensionAssumption ==
  /\ MaxOrders \in Nat
  /\ MaxOrdersPerUser \in Nat
  /\ MaxLevels \in Nat
  /\ PricePrecision \in Nat \ {0}
  /\ Prices \subseteq Nat
  /\ Quantities \subseteq Nat
  /\ Types \subseteq {"limit", "market", "other"}
  /\ Funds \in [Users -> [Tokens -> 0..MaxSupply]]
  /\ \A t \in Tokens : Total([u \in Users |-> Funds[u][t]]) <= MaxSupply

VARIABLES
  book,       (* Side -> resting orders in priority order (ob).            *)
  orders,     (* IDs of the tracked orders (e.orders).                     *)
  userOrders, (* User -> IDs of its tracked orders (e.userOrders).         *)
  mu,         (* Who has e.mu.                                             *)
  task,       (* Handler -> the request it runs and how far it has come.   *)
  issued,     (* orderCounter.                                             *)
  externals   (* Deposits, withdrawals and restarts so far.                *)

trackVars == <<orders, userOrders>>
bounds == <<issued, externals>>
vars == <<balances, supply, book, orders, userOrders, mu, task, issued, externals>>

Free == "free"

ASSUME HandlersAssumption == Free \notin Handlers /\ IsFiniteSet(Handlers)

Idle == [at |-> "idle"]

\* A decoded PlaceOrderRequest with the ID it gets.  The price of a market
\* order is not read.
Incoming ==
  [id : 1..MaxOrders, owner : Users, side : Sides, type : Types \ {"market"},
   price : Prices, quantity : Quantities]
  \cup
  [id : 1..MaxOrders, owner : Users, side : Sides, type : Types \cap {"market"},
   price : {0}, quantity : Quantities]

RestingIds == {e.id : e \in Resting(book)}

Goes(h, to) == task' = [task EXCEPT ![h] = to]

\* Mutant of LockFree: nobody waits for e.mu.
LockNotAwaited == TRUE

\* e.mu.Lock() returns.
LockFree == mu = Free

\* The request of h ends; with e.mu, it gives it back.
Done(h) == Goes(h, Idle)

\* Mutant of DoneUnlocking: a return that forgets the lock.
DoneLocked(h) == Done(h) /\ UNCHANGED mu

DoneUnlocking(h) == Done(h) /\ mu' = Free

-----------------------------------------------------------------------------

\* mulPrice, and when it panics.
MulPrice(quantity, price) == (quantity * price) \div PricePrecision
Overflows(quantity, price) == quantity * price >= Word

HoldToken(side) == IF side = "buy" THEN Quote ELSE Base

\* Mutant of HoldRefused: the product is not vetted.
HoldRefusedUnvetted(o) ==
  o.type = "market" /\ Available(o.owner, HoldToken(o.side)) = 0

\* calculateHold: refused, and the amount.
HoldRefused(o) ==
  \/ o.type = "market" /\ Available(o.owner, HoldToken(o.side)) = 0
  \/ o.type # "market" /\ o.side = "buy" /\ Overflows(o.quantity, o.price)

CalculateHold(o) ==
  IF o.type = "market" THEN Available(o.owner, HoldToken(o.side))
  ELSE IF o.side = "buy" THEN MulPrice(o.quantity, o.price)
  ELSE o.quantity

\* calculateRelease, for an entry of the book on a side.
CalculateRelease(side, e) ==
  IF side = "buy" THEN MulPrice(e.remaining, e.price) ELSE e.remaining

\* What a match takes from the order of a side, in its hold token.
Leg(side, fill) ==
  IF side = "buy" THEN MulPrice(fill.quantity, fill.price) ELSE fill.quantity

TotalLegs(side, fills) == Total([j \in DOMAIN fills |-> Leg(side, fills[j])])

\* PlaceLimitOrder and PlaceMarketOrder, and the switch over the types.
OrderRejected(o) ==
  \/ o.type = "other"
  \/ o.quantity = 0
  \/ o.type = "limit" /\ o.price = 0
  \/ o.type = "market" /\ Fills(o, book[Opposite(o.side)]) = <<>>

\* Mutant of Refund: a limit buy is sized by its whole quantity.
RefundOfWhole(o, hold, fills, left) ==
  LET used == TotalLegs(o.side, fills)
      sized == IF o.type = "market" THEN hold ELSE MulPrice(o.quantity, o.price)
  IN  IF /\ o.type = "market" \/ (o.side = "buy" /\ fills # <<>>)
         /\ used < sized
      THEN sized - used
      ELSE 0

\* What goes back to the taker after settlement.
Refund(o, hold, fills, left) ==
  LET used == TotalLegs(o.side, fills)
      sized == IF o.type = "market" THEN hold
               ELSE MulPrice(o.quantity - left, o.price)
  IN  IF /\ o.type = "market" \/ (o.side = "buy" /\ fills # <<>>)
         /\ used < sized
      THEN sized - used
      ELSE 0

-----------------------------------------------------------------------------

Init ==
  /\ balances = [u \in Users |-> [t \in Tokens |->
                   [available |-> Funds[u][t], held |-> 0]]]
  /\ supply = [t \in Tokens |-> Total([u \in Users |-> Funds[u][t]])]
  /\ book = [s \in Sides |-> <<>>]
  /\ orders = {}
  /\ userOrders = [u \in Users |-> {}]
  /\ mu = Free
  /\ task = [h \in Handlers |-> Idle]
  /\ issued = 0
  /\ externals = 0

\* processPlaceOrder up to the lock: the hold of a market order is read here.
PlaceOrder(h, o) ==
  /\ task[h] = Idle
  /\ o.id = issued + 1
  /\ issued' = o.id
  /\ IF HoldRefused(o)
     THEN Done(h)
     ELSE Goes(h, [at |-> "enter", order |-> o, hold |-> CalculateHold(o)])
  /\ UNCHANGED <<balanceVars, book, trackVars, mu, externals>>

\* Mutant of AtCap: off by one.
PastCap(u) == Cardinality(userOrders[u]) > MaxOrdersPerUser

AtCap(u) == Cardinality(userOrders[u]) >= MaxOrdersPerUser

\* The cap and Hold, under e.mu.
EnterPlace(h) ==
  /\ task[h].at = "enter"
  /\ LockFree
  /\ LET o == task[h].order
         full == AtCap(o.owner)
     IN  \/ /\ full \/ ~CanHold(o.owner, HoldToken(o.side), task[h].hold)
            /\ Done(h)
            /\ UNCHANGED <<balanceVars, mu>>
         \/ /\ ~full
            /\ Hold(o.owner, HoldToken(o.side), task[h].hold)
            /\ mu' = h
            /\ Goes(h, [task[h] EXCEPT !.at = "match"])
  /\ UNCHANGED <<book, trackVars, bounds>>

\* The call of the book, or the error path that gives the hold back.
MatchOrder(h) ==
  /\ task[h].at = "match"
  /\ LET o == task[h].order
         queue == book[Opposite(o.side)]
     IN  \/ /\ OrderRejected(o)
            /\ TryRelease(o.owner, HoldToken(o.side), task[h].hold)
            /\ DoneUnlocking(h)
            /\ UNCHANGED book
         \/ /\ ~OrderRejected(o)
            /\ book' = AfterPlace(o, book)
            /\ Goes(h, [at |-> IF Fills(o, queue) = <<>> THEN "finish" ELSE "quote",
                        order |-> o, hold |-> task[h].hold, next |-> 1,
                        fills |-> Fills(o, queue), left |-> Unfilled(o, queue)])
            /\ UNCHANGED <<balanceVars, mu>>
  /\ UNCHANGED <<trackVars, bounds>>

NextFill(h) == task[h].fills[task[h].next]

Buyer(h) == IF task[h].order.side = "buy" THEN task[h].order.owner
                                          ELSE NextFill(h).owner
Seller(h) == IF task[h].order.side = "sell" THEN task[h].order.owner
                                            ELSE NextFill(h).owner

\* processMatch, its first Transfer; mulPrice may panic instead.
SettleQuote(h) ==
  /\ task[h].at = "quote"
  /\ ~Overflows(NextFill(h).quantity, NextFill(h).price)
  /\ TryTransfer(Buyer(h), Seller(h), Quote, Leg("buy", NextFill(h)))
  /\ Goes(h, [task[h] EXCEPT !.at = "base"])
  /\ UNCHANGED <<book, trackVars, mu, bounds>>

\* The HTTP server recovers the panic and the deferred Unlock runs: the
\* request is gone where it stood.
Panic(h) ==
  /\ task[h].at = "quote"
  /\ Overflows(NextFill(h).quantity, NextFill(h).price)
  /\ DoneUnlocking(h)
  /\ UNCHANGED <<balanceVars, book, trackVars, bounds>>

\* Mutants of FilledMaker: whatever was matched; nothing.
MatchedMaker(h) == {NextFill(h).maker}
NoMaker(h) == {}

\* cleanupIfFilled: the resting order, if the match has filled it.
FilledMaker(h) == {NextFill(h).maker} \ RestingIds

\* The second Transfer, and the cleanup; the taker is not tracked yet.
SettleBase(h) ==
  /\ task[h].at = "base"
  /\ TryTransfer(Seller(h), Buyer(h), Base, Leg("sell", NextFill(h)))
  /\ LET gone == FilledMaker(h)
     IN  /\ orders' = orders \ gone
         /\ userOrders' = [userOrders EXCEPT ![NextFill(h).owner] = @ \ (gone \cap orders)]
  /\ IF task[h].next < Len(task[h].fills)
     THEN Goes(h, [task[h] EXCEPT !.at = "quote", !.next = @ + 1])
     ELSE Goes(h, [task[h] EXCEPT !.at = "finish"])
  /\ UNCHANGED <<book, mu, bounds>>

\* The residual release and, of what is not filled, the tracking.
FinishPlace(h) ==
  /\ task[h].at = "finish"
  /\ LET o == task[h].order
         left == task[h].left
     IN  /\ TryRelease(o.owner, HoldToken(o.side),
                       Refund(o, task[h].hold, task[h].fills, left))
         /\ IF left > 0
            THEN /\ orders' = orders \cup {o.id}
                 /\ userOrders' = [userOrders EXCEPT ![o.owner] = @ \cup {o.id}]
                 /\ Goes(h, [at |-> "evict"])
                 /\ UNCHANGED mu
            ELSE DoneUnlocking(h) /\ UNCHANGED trackVars
  /\ UNCHANGED <<book, bounds>>

EvictedFrom(s) ==
  {[side |-> s, entry |-> e] : e \in ToSet(Evicted(s, book[s], MaxLevels))}

\* EvictExcessLevels, of both sides; handleEvictions depends on no order.
EvictLevels(h) ==
  /\ task[h].at = "evict"
  /\ book' = AfterEvict(book, MaxLevels)
  /\ LET gone == UNION {EvictedFrom(s) : s \in Sides}
     IN  IF gone = {}
         THEN DoneUnlocking(h)
         ELSE Goes(h, [at |-> "evicted", gone |-> gone]) /\ UNCHANGED mu
  /\ UNCHANGED <<balanceVars, trackVars, bounds>>

\* handleEvictions, one order of them.
RefundEvicted(h) ==
  /\ task[h].at = "evicted"
  /\ \E x \in task[h].gone :
       LET rest == task[h].gone \ {x}
       IN  /\ TryRelease(x.entry.owner, HoldToken(x.side),
                         CalculateRelease(x.side, x.entry))
           /\ orders' = orders \ {x.entry.id}
           /\ userOrders' = [userOrders EXCEPT ![x.entry.owner] = @ \ {x.entry.id}]
           /\ IF rest = {}
              THEN DoneUnlocking(h)
              ELSE Goes(h, [task[h] EXCEPT !.gone = rest]) /\ UNCHANGED mu
  /\ UNCHANGED <<book, bounds>>

-----------------------------------------------------------------------------

\* processCancelOrder, the lookup: e.mu is taken and given back.
CancelOrder(h, user, id) ==
  /\ task[h] = Idle
  /\ LockFree
  /\ id \in orders
  /\ Goes(h, [at |-> "cancel", user |-> user, id |-> id])
  /\ UNCHANGED <<balanceVars, book, trackVars, mu, bounds>>

\* The lookup fails and the request is answered at once.
CancelRejected(h, id) ==
  /\ task[h] = Idle
  /\ LockFree
  /\ id \notin orders
  /\ UNCHANGED vars

\* OrderBook.CancelOrder, without e.mu: the order may be gone by now, it may
\* be someone else's, and then it goes back to the end of its level.
CancelInBook(h) ==
  /\ task[h].at = "cancel"
  /\ LET id == task[h].id
     IN  \/ /\ id \notin RestingIds
            /\ Done(h)
            /\ UNCHANGED book
         \/ \E s \in Sides : \E e \in ToSet(book[s]) :
              /\ e.id = id
              /\ IF e.owner = task[h].user
                 THEN /\ book' = Without(id, book)
                      /\ Goes(h, [at |-> "refund", user |-> e.owner, side |-> s, entry |-> e])
                 ELSE /\ book' = [Without(id, book) EXCEPT ![s] = Rest(s, @, e)]
                      /\ Done(h)
  /\ UNCHANGED <<balanceVars, trackVars, mu, bounds>>

CancelRefund(h) ==
  /\ task[h].at = "refund"
  /\ TryRelease(task[h].user, HoldToken(task[h].side),
                CalculateRelease(task[h].side, task[h].entry))
  /\ Goes(h, [task[h] EXCEPT !.at = "untrack"])
  /\ UNCHANGED <<book, trackVars, mu, bounds>>

CancelUntrack(h) ==
  /\ task[h].at = "untrack"
  /\ LockFree
  /\ LET id == task[h].entry.id
     IN  /\ orders' = orders \ {id}
         /\ userOrders' = [userOrders EXCEPT ![task[h].user] = @ \ {id}]
  /\ Done(h)
  /\ UNCHANGED <<balanceVars, book, mu, bounds>>

-----------------------------------------------------------------------------

External ==
  /\ externals < MaxExternals
  /\ externals' = externals + 1
  /\ UNCHANGED issued

\* processDeposit and issueWithdrawal take no lock but the manager's.
DepositFunds(u, t) ==
  /\ External
  /\ Deposit(u, t, 1)
  /\ UNCHANGED <<book, trackVars, mu, task>>

WithdrawFunds(u, t) ==
  /\ External
  /\ Withdraw(u, t, 1)
  /\ UNCHANGED <<book, trackVars, mu, task>>

\* The process dies at any point and starts again: from the snapshot, if one is
\* configured and can be read, which holds every call of the manager that has
\* returned, or else with nobody having anything (module BalanceStore has the
\* writes that fail).
Restart ==
  /\ External
  /\ \/ /\ balances' = [u \in Users |-> [t \in Tokens |-> Migrated(balances[u][t])]]
        /\ UNCHANGED supply
     \/ /\ balances' = EmptyLedger
        /\ supply' = [t \in Tokens |-> 0]
  /\ book' = [s \in Sides |-> <<>>]
  /\ orders' = {}
  /\ userOrders' = [u \in Users |-> {}]
  /\ mu' = Free
  /\ task' = [h \in Handlers |-> Idle]

\* The steps of a request once it has been received.
Step(h) ==
  \/ EnterPlace(h)
  \/ MatchOrder(h)
  \/ SettleQuote(h)
  \/ Panic(h)
  \/ SettleBase(h)
  \/ FinishPlace(h)
  \/ EvictLevels(h)
  \/ RefundEvicted(h)
  \/ CancelInBook(h)
  \/ CancelRefund(h)
  \/ CancelUntrack(h)

Next ==
  \/ \E h \in Handlers, o \in Incoming : PlaceOrder(h, o)
  \/ \E h \in Handlers, u \in Users, id \in 1..issued : CancelOrder(h, u, id)
  \/ \E h \in Handlers, id \in 1..MaxOrders : CancelRejected(h, id)
  \/ \E h \in Handlers : Step(h)
  \/ \E u \in Users, t \in Tokens : DepositFunds(u, t)
  \/ \E u \in Users, t \in Tokens : WithdrawFunds(u, t)
  \/ Restart

Spec == Init /\ [][Next]_vars

\* A goroutine that can run does, and Go's mutex hands itself to a waiter
\* that has waited too long.
FairSpec == Spec /\ \A h \in Handlers : SF_vars(Step(h))

-----------------------------------------------------------------------------

OrderIds == 1..MaxOrders
Entries == [id : OrderIds, owner : Users, price : Nat, remaining : Nat]
Matches == [maker : OrderIds, owner : Users, price : Nat, quantity : Nat]

\* The requests by how far they have come.
Entering == [at : {"enter", "match"}, order : Incoming, hold : Nat]
Settling == [at : {"quote", "base", "finish"}, order : Incoming, hold : Nat,
             next : Nat, fills : Seq(Matches), left : Int]
Evicting == [at : {"evicted"}, gone : SUBSET [side : Sides, entry : Entries]]
LookedUp == [at : {"cancel"}, user : Users, id : OrderIds]
Cancelled == [at : {"refund", "untrack"}, user : Users, side : Sides, entry : Entries]

Tasks == {Idle, [at |-> "evict"]} \cup Entering \cup Settling \cup Evicting
         \cup LookedUp \cup Cancelled

BookTypeOK ==
  /\ book \in [Sides -> Seq(Entries)]
  /\ orders \subseteq OrderIds
  /\ userOrders \in [Users -> SUBSET OrderIds]

TaskTypeOK ==
  /\ mu \in Handlers \cup {Free}
  /\ task \in [Handlers -> Tasks]
  /\ issued \in 0..MaxOrders
  /\ \A h \in Handlers :
       task[h].at \in {"quote", "base"} => task[h].next \in DOMAIN task[h].fills

\* Every part of the state has its type, and a settling request stands at one
\* of its fills.
TypeOK == BalanceTypeOK /\ BookTypeOK /\ TaskTypeOK

Locking == {"match", "quote", "base", "finish", "evict", "evicted"}

\* Lock policy of processPlaceOrder: whoever has e.mu is between its Hold and
\* its return, and nobody else is.
Exclusive ==
  \A h \in Handlers :
    task[h].at \in Locking <=> mu = h

\* The side whose orders are held for in token t.
HoldSide(t) == IF t = Quote THEN "buy" ELSE "sell"

\* What the orders of user u that rest may still take from its token t.
DueToBook(u, t) ==
  LET s == HoldSide(t)
      mine == {i \in DOMAIN book[s] : book[s][i].owner = u}
  IN  Total([i \in mine |-> CalculateRelease(s, book[s][i])])

\* Who gives token t in fill j of task k.
Payer(k, j, t) ==
  IF k.order.side = HoldSide(t) THEN k.order.owner ELSE k.fills[j].owner

\* The fills of task k whose leg in token t is not made yet.
Unpaid(k, t) ==
  CASE k.at = "quote" -> k.next..Len(k.fills)
    [] k.at = "base" -> (IF t = Base THEN k.next ELSE k.next + 1)..Len(k.fills)
    [] OTHER -> {}

\* What the task k of a handler may still take from u's token t or owes to it.
DueToTask(k, u, t) ==
  LET s == HoldSide(t)
      legs == {j \in Unpaid(k, t) : Payer(k, j, t) = u}
      evicted == {x \in k.gone : x.entry.owner = u /\ x.side = s}
      taker == k.order.owner = u /\ k.order.side = s
  IN  CASE k.at = "match" -> IF taker THEN k.hold ELSE 0
        [] k.at \in {"quote", "base", "finish"} ->
             Total([j \in legs |-> Leg(s, k.fills[j])])
             + IF taker THEN Refund(k.order, k.hold, k.fills, k.left) ELSE 0
        [] k.at = "evicted" ->
             Total([x \in evicted |-> CalculateRelease(s, x.entry)])
        [] k.at = "refund" ->
             IF k.user = u /\ k.side = s THEN CalculateRelease(s, k.entry) ELSE 0
        [] OTHER -> 0

Due(u, t) ==
  DueToBook(u, t) + Total([h \in Handlers |-> DueToTask(task[h], u, t)])

\* calculateHold, processMatch, calculateRelease: what a user has held covers,
\* at every moment, its resting orders, its matches not yet settled, and the
\* releases under way, every division rounded as the code rounds it.  So no
\* Transfer and no Release whose error is dropped ever fails.
HeldCovers == \A u \in Users, t \in Tokens : Held(u, t) >= Due(u, t)

Cancelling == {task[h].entry.id : h \in {h \in Handlers : task[h].at \in {"refund", "untrack"}}}

\* processPlaceOrder, processCancelOrder, cleanupIfFilled, handleEvictions:
\* whenever e.mu is free, an order that rests is tracked, so that it can be
\* cancelled, and e.orders and e.userOrders name the same orders.
RestingIsTracked ==
  mu = Free =>
    /\ RestingIds \subseteq orders
    /\ orders = UNION {userOrders[u] : u \in Users}
    /\ \A e \in Resting(book) : e.id \in userOrders[e.owner]

\* The invariant of the test C2: whenever e.mu is free, a tracked order rests,
\* or a cancel has just taken it out.
TrackedRests == mu = Free => orders \subseteq RestingIds \cup Cancelling

\* MaxOrdersPerUser and MaxLevelsPerSide: whenever e.mu is free, no user has
\* more orders at rest, and no side more levels, than the caps allow.
CapsHold ==
  mu = Free =>
    /\ \A u \in Users : Cardinality({e \in Resting(book) : e.owner = u}) <= MaxOrdersPerUser
    /\ \A s \in Sides : Cardinality(Levels(book[s])) <= MaxLevels

\* mulPrice: the product never overflows, since calculateHold has vetted it.
NoPanic ==
  \A h \in Handlers :
    task[h].at = "quote" => ~Overflows(NextFill(h).quantity, NextFill(h).price)

\* Settlement as the description of processMatch has it: of each match, both
\* transfers are made.
SettlesInFull ==
  \A h \in Handlers :
    /\ task[h].at = "quote" /\ Leg("buy", NextFill(h)) > 0
         => CanTransfer(Buyer(h), Quote, Leg("buy", NextFill(h)))
    /\ task[h].at = "base" => CanTransfer(Seller(h), Base, Leg("sell", NextFill(h)))

\* Lock policy: whatever the other requests do, a request that was received
\* ends, and gives e.mu back.
RequestsEnd == \A h \in Handlers : task[h] # Idle ~> task[h] = Idle

=============================================================================
