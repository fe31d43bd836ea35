-------------------------- MODULE ExtensionProofs --------------------------
(***************************************************************************)
(* Of the request handlers, for any number of users, requests, orders and  *)
(* prices, limit, market and invalid orders together: the state keeps its  *)
(* types, no sequence of their interleaved steps, panics and restarts      *)
(* makes or loses a unit of a token, e.mu is held by the request that is   *)
(* between its hold and its return, what rests is tracked and the caps     *)
(* hold.  Of limit orders alone: what is held covers what is due, so no    *)
(* transfer fails, no product overflows, and what is tracked rests.        *)
(***************************************************************************)
EXTENDS Extension, BalanceProofs

\* The types of the orders of this module, as TableProofs has them.
LEMMA BookTypes ==
  /\ Entries = EntrySet(OrderIds, Users)
  /\ Matches = FillSet(OrderIds, Users)
  /\ [Sides -> Seq(Entries)] = BookSet(OrderIds, Users)
BY DEF Entries, Matches, EntrySet, FillSet, BookSet

\* The parts of a request.
LEMMA IncomingType ==
  ASSUME NEW o \in Incoming
  PROVE  /\ o.id \in OrderIds /\ o.owner \in Users /\ o.side \in Sides
         /\ o.price \in Nat /\ o.quantity \in Nat
<1>1. /\ o.id \in OrderIds /\ o.owner \in Users /\ o.side \in Sides
      /\ o.price \in Prices \cup {0} /\ o.quantity \in Quantities
  BY DEF Incoming, OrderIds
<1>2. Prices \cup {0} \subseteq Nat /\ Quantities \subseteq Nat
  BY ExtensionAssumption
<1> QED
  BY <1>1, <1>2

\* The token a hold is taken from.
LEMMA HoldTokenType ==
  ASSUME NEW side \in Sides
  PROVE  HoldToken(side) \in Tokens
BY PairAssumption DEF HoldToken

\* The shape of a request at each stage.
LEMMA TaskShape ==
  ASSUME NEW k \in Tasks
  PROVE  /\ k.at \in {"enter", "match"} => k \in Entering
         /\ k.at \in {"quote", "base", "finish"} => k \in Settling
         /\ k.at = "evicted" => k \in Evicting
         /\ k.at = "cancel" => k \in LookedUp
         /\ k.at \in {"refund", "untrack"} => k \in Cancelled
         /\ k.at = "idle" => k = Idle
         /\ k.at = "evict" => k = [at |-> "evict"]
BY DEF Tasks, Entering, Settling, Evicting, LookedUp, Cancelled, Idle

\* The amounts of the handlers are natural numbers.
LEMMA MulPriceType ==
  ASSUME NEW q \in Nat, NEW p \in Nat
  PROVE  MulPrice(q, p) \in Nat
<1>1. q * p \in Nat
  OBVIOUS
<1>2. PricePrecision \in Nat \ {0}
  BY ExtensionAssumption
<1>3. \A x \in Nat : x \div PricePrecision \in Nat
  BY <1>2
<1> QED
  BY <1>1, <1>3 DEF MulPrice

\* What a release gives back.
LEMMA ReleaseType ==
  ASSUME NEW side \in Sides, NEW e \in Entries
  PROVE  CalculateRelease(side, e) \in Nat
BY MulPriceType DEF CalculateRelease, Entries

\* What a match takes.
LEMMA LegType ==
  ASSUME NEW side \in Sides, NEW m \in Matches
  PROVE  Leg(side, m) \in Nat
BY MulPriceType DEF Leg, Matches

\* What goes back to the taker.
LEMMA RefundType ==
  ASSUME NEW o \in Incoming, NEW hold \in Nat, NEW fills \in Seq(Matches),
         NEW left \in Int
  PROVE  Refund(o, hold, fills, left) \in Nat
<1> DEFINE used == TotalLegs(o.side, fills)
           sized == IF o.type = "market" THEN hold
                    ELSE MulPrice(o.quantity - left, o.price)
<1>1. used \in Nat
  <2>1. [j \in DOMAIN fills |-> Leg(o.side, fills[j])] \in [DOMAIN fills -> Nat]
    BY LegType, IncomingType
  <2>2. IsFiniteSet(DOMAIN fills)
    <3>1. DOMAIN fills = 1..Len(fills) /\ Len(fills) \in Nat
      OBVIOUS
    <3> QED
      BY <3>1, FS_Interval
  <2> QED
    BY <2>1, <2>2, UnitsFinite DEF TotalLegs
<1>2. sized \in Int
  <2>1. o.quantity - left \in Int /\ o.price \in Int
    BY IncomingType
  <2>2. \A x, y \in Int : x * y \in Int
    OBVIOUS
  <2>3. \A x \in Int : x \div PricePrecision \in Int
    BY ExtensionAssumption
  <2>4. MulPrice(o.quantity - left, o.price) \in Int
    BY <2>1, <2>2, <2>3 DEF MulPrice
  <2> QED
    BY <2>4
<1>3. Refund(o, hold, fills, left) \in {0, sized - used}
  BY DEF Refund
<1>4. Refund(o, hold, fills, left) # 0 => used < sized
  BY DEF Refund
<1> HIDE DEF used, sized
<1> QED
  BY <1>1, <1>2, <1>3, <1>4

-----------------------------------------------------------------------------

\* A call of the manager whose error is dropped keeps the ledger sound.
LEMMA TryReleaseInv ==
  ASSUME BalanceInv, NEW u \in Users, NEW t \in Tokens, NEW a \in Nat,
         TryRelease(u, t, a)
  PROVE  BalanceInv'
<1>1. CASE Release(u, t, a)
  BY <1>1, ReleaseInv
<1>2. CASE UNCHANGED balanceVars
  BY <1>2 DEF balanceVars, BalanceInv, BalanceTypeOK, Conserved
<1> QED
  BY <1>1, <1>2 DEF TryRelease

\* A transfer, made or refused, keeps the ledger.
LEMMA TryTransferInv ==
  ASSUME BalanceInv, NEW u \in Users, NEW w \in Users, NEW t \in Tokens,
         NEW a \in Nat, TryTransfer(u, w, t, a)
  PROVE  BalanceInv'
<1>1. CASE Transfer(u, w, t, a)
  BY <1>1, TransferInv
<1>2. CASE UNCHANGED balanceVars
  BY <1>2 DEF balanceVars, BalanceInv, BalanceTypeOK, Conserved
<1> QED
  BY <1>1, <1>2 DEF TryTransfer

\* A ledger that is not touched stays sound.
LEMMA LedgerKept ==
  ASSUME BalanceInv, UNCHANGED balanceVars
  PROVE  BalanceInv'
BY DEF balanceVars, BalanceInv, BalanceTypeOK, Conserved

\* A request that moves on to a legal stage, taking or giving back e.mu as the
\* stages say, keeps the requests typed and the lock policy.
LEMMA Moves ==
  ASSUME TaskTypeOK, Exclusive, NEW h \in Handlers, NEW to \in Tasks,
         Goes(h, to), issued' \in 0..MaxOrders,
         to.at \in {"quote", "base"} => to.next \in DOMAIN to.fills,
         to.at \in Locking <=> mu' = h,
         mu' = mu \/ (mu = Free /\ mu' = h) \/ (mu = h /\ mu' = Free)
  PROVE  TaskTypeOK' /\ Exclusive'
<1>1. /\ task' \in [Handlers -> Tasks]
      /\ task'[h] = to
      /\ \A g \in Handlers \ {h} : task'[g] = task[g]
  BY DEF TaskTypeOK, Goes
<1>2. TaskTypeOK'
  <2>1. mu' \in Handlers \cup {Free}
    BY DEF TaskTypeOK
  <2>2. \A g \in Handlers :
          task'[g].at \in {"quote", "base"} => task'[g].next \in DOMAIN task'[g].fills
    BY <1>1 DEF TaskTypeOK
  <2> QED
    BY <1>1, <2>1, <2>2 DEF TaskTypeOK
<1>3. Exclusive'
  <2> SUFFICES ASSUME NEW g \in Handlers
               PROVE  task'[g].at \in Locking <=> mu' = g
    BY DEF Exclusive
  <2>1. CASE g = h
    BY <1>1, <2>1
  <2>2. CASE g # h
    <3>1. task'[g].at \in Locking <=> mu = g
      BY <1>1, <2>2 DEF Exclusive
    <3>2. Free # g
      BY HandlersAssumption
    <3> QED
      BY <2>2, <3>1, <3>2
  <2> QED
    BY <2>1, <2>2
<1> QED
  BY <1>2, <1>3

\* A request that ends outside the lock, or gives it back.
LEMMA Ends ==
  ASSUME TaskTypeOK, Exclusive, NEW h \in Handlers, Done(h), UNCHANGED issued,
         \/ UNCHANGED mu /\ task[h].at \notin Locking
         \/ mu' = Free /\ task[h].at \in Locking
  PROVE  TaskTypeOK' /\ Exclusive'
<1>1. Idle \in Tasks /\ Idle.at = "idle"
  BY DEF Tasks, Idle
<1>2. Goes(h, Idle)
  BY DEF Done
<1>3. issued' \in 0..MaxOrders
  BY DEF TaskTypeOK
<1>4. mu' # h /\ (mu' = mu \/ (mu = h /\ mu' = Free))
  BY HandlersAssumption DEF Exclusive
<1>5. Idle.at \notin Locking /\ Idle.at \notin {"quote", "base"}
  BY <1>1 DEF Locking
<1> QED
  BY <1>1, <1>2, <1>3, <1>4, <1>5, Moves

-----------------------------------------------------------------------------

\* The inductive invariant: amounts stay in range only while value is
\* conserved, and a step conserves value only while what requests and book
\* carry is typed.
IInv == BalanceInv /\ BookTypeOK /\ TaskTypeOK /\ Exclusive

\* A step that leaves the book and the tracking alone.
LEMMA BookKept ==
  ASSUME BookTypeOK, UNCHANGED <<book, trackVars>>
  PROVE  BookTypeOK'
BY DEF BookTypeOK, trackVars

\* A request on the order path: its parts.
LEMMA TaskParts ==
  ASSUME TaskTypeOK, NEW h \in Handlers
  PROVE  /\ task[h] \in Tasks
         /\ task[h].at \in {"enter", "match"} =>
              /\ task[h] \in Entering
              /\ task[h].order \in Incoming /\ task[h].hold \in Nat
         /\ task[h].at \in {"quote", "base", "finish"} =>
              /\ task[h] \in Settling
              /\ task[h].order \in Incoming /\ task[h].hold \in Nat
              /\ task[h].next \in Nat /\ task[h].fills \in Seq(Matches)
              /\ task[h].left \in Int
         /\ task[h].at \in {"quote", "base"} =>
              /\ task[h].next \in DOMAIN task[h].fills
              /\ NextFill(h) \in Matches
<1>1. task[h] \in Tasks
  BY DEF TaskTypeOK
<1>2. /\ task[h].at \in {"enter", "match"} => task[h] \in Entering
      /\ task[h].at \in {"quote", "base", "finish"} => task[h] \in Settling
  BY <1>1, TaskShape
<1>3. task[h].at \in {"quote", "base"} => task[h].next \in DOMAIN task[h].fills
  BY DEF TaskTypeOK
<1>4. task[h] \in Settling =>
        /\ task[h].order \in Incoming /\ task[h].hold \in Nat
        /\ task[h].next \in Nat /\ task[h].fills \in Seq(Matches)
        /\ task[h].left \in Int
  BY DEF Settling
<1>5. task[h] \in Entering => task[h].order \in Incoming /\ task[h].hold \in Nat
  BY DEF Entering
<1>6. task[h].at \in {"quote", "base"} => NextFill(h) \in Matches
  BY <1>2, <1>3, <1>4 DEF NextFill
<1> QED
  BY <1>1, <1>2, <1>3, <1>4, <1>5, <1>6

\* PlaceOrder.
LEMMA PlaceOrderInv ==
  ASSUME IInv, NEW h \in Handlers, NEW o \in Incoming, PlaceOrder(h, o)
  PROVE  IInv'
<1> USE DEF IInv
<1>1. UNCHANGED balanceVars /\ UNCHANGED <<book, trackVars>> /\ mu' = mu
  BY DEF PlaceOrder
<1>2. issued' \in 0..MaxOrders
  <2>1. o.id \in 1..MaxOrders
    BY IncomingType DEF OrderIds
  <2> QED
    BY <2>1 DEF PlaceOrder
<1>3. task[h].at \notin Locking /\ mu # h
  BY DEF PlaceOrder, Idle, Locking, Exclusive
<1>4. CalculateHold(o) \in Nat
  <2>1. o.owner \in Users /\ o.side \in Sides /\ o.price \in Nat /\ o.quantity \in Nat
    BY IncomingType
  <2>2. HoldToken(o.side) \in Tokens
    BY <2>1, HoldTokenType
  <2>3. Available(o.owner, HoldToken(o.side)) \in Nat
    BY <2>1, <2>2, SupplyAssumption
       DEF BalanceInv, BalanceTypeOK, Ledger, TokenBalance, Amount, Available
  <2> QED
    BY <2>1, <2>3, MulPriceType DEF CalculateHold
<1>5. ASSUME NEW to \in {Idle, [at |-> "enter", order |-> o, hold |-> CalculateHold(o)]},
             Goes(h, to)
      PROVE  TaskTypeOK' /\ Exclusive'
  <2>1. to \in Tasks /\ to.at \in {"idle", "enter"}
    BY <1>4 DEF Tasks, Entering, Idle
  <2>2. to.at \notin Locking /\ to.at \notin {"quote", "base"}
    BY <2>1 DEF Locking
  <2> QED
    BY <1>1, <1>2, <1>3, <1>5, <2>1, <2>2, Moves
<1>6. TaskTypeOK' /\ Exclusive'
  BY <1>5 DEF PlaceOrder, Done
<1> QED
  BY <1>1, <1>6, LedgerKept, BookKept

\* EnterPlace: who gets e.mu has it alone.
LEMMA EnterPlaceInv ==
  ASSUME IInv, NEW h \in Handlers, EnterPlace(h)
  PROVE  IInv'
<1> USE DEF IInv
<1> DEFINE o == task[h].order
<1>1. /\ task[h].at = "enter" /\ mu = Free
      /\ UNCHANGED <<book, trackVars>> /\ UNCHANGED issued
  BY DEF EnterPlace, LockFree, bounds
<1>2. task[h] \in Entering /\ o \in Incoming /\ task[h].hold \in Nat
  BY <1>1, TaskParts
<1>3. o.owner \in Users /\ HoldToken(o.side) \in Tokens
  BY <1>2, IncomingType, HoldTokenType
<1>4. CASE Done(h) /\ UNCHANGED <<balanceVars, mu>>
  <2>1. task[h].at \notin Locking
    BY <1>1 DEF Locking
  <2> QED
    BY <1>1, <1>4, <2>1, Ends, LedgerKept, BookKept
<1>5. CASE /\ Hold(o.owner, HoldToken(o.side), task[h].hold)
           /\ mu' = h
           /\ Goes(h, [task[h] EXCEPT !.at = "match"])
  <2> DEFINE to == [task[h] EXCEPT !.at = "match"]
  <2>1. BalanceInv'
    BY <1>2, <1>3, <1>5, HoldInv
  <2>2. to \in Tasks /\ to.at = "match"
    BY <1>2 DEF Entering, Tasks
  <2>3. to.at \in Locking /\ to.at \notin {"quote", "base"}
    BY <2>2 DEF Locking
  <2>4. issued' \in 0..MaxOrders
    BY <1>1 DEF TaskTypeOK
  <2> HIDE DEF to
  <2>5. TaskTypeOK' /\ Exclusive'
    BY <1>1, <1>5, <2>2, <2>3, <2>4, Moves DEF to
  <2> QED
    BY <1>1, <2>1, <2>5, BookKept
<1> QED
  BY <1>4, <1>5 DEF EnterPlace

\* MatchOrder: the request settles, or gives e.mu back.
LEMMA MatchOrderInv ==
  ASSUME IInv, NEW h \in Handlers, MatchOrder(h)
  PROVE  IInv'
<1> USE DEF IInv
<1> DEFINE o == task[h].order
           queue == book[Opposite(o.side)]
           to == [at |-> IF Fills(o, queue) = <<>> THEN "finish" ELSE "quote",
                  order |-> o, hold |-> task[h].hold, next |-> 1,
                  fills |-> Fills(o, queue), left |-> Unfilled(o, queue)]
<1>1. task[h].at = "match" /\ UNCHANGED trackVars /\ UNCHANGED issued
  BY DEF MatchOrder, bounds
<1>2. task[h] \in Entering /\ o \in Incoming /\ task[h].hold \in Nat
  BY <1>1, TaskParts
<1>3. /\ o.id \in OrderIds /\ o.owner \in Users /\ o.side \in Sides
      /\ o.price \in Nat /\ o.quantity \in Nat /\ HoldToken(o.side) \in Tokens
  BY <1>2, IncomingType, HoldTokenType
<1>4. task[h].at \in Locking /\ mu = h
  BY <1>1 DEF Locking, Exclusive
<1>5. issued' \in 0..MaxOrders
  BY <1>1 DEF TaskTypeOK
<1>6. CASE /\ TryRelease(o.owner, HoldToken(o.side), task[h].hold)
           /\ DoneUnlocking(h)
           /\ UNCHANGED book
  <2>1. BalanceInv'
    BY <1>2, <1>3, <1>6, TryReleaseInv
  <2>2. TaskTypeOK' /\ Exclusive'
    BY <1>1, <1>4, <1>6, Ends DEF DoneUnlocking
  <2> QED
    BY <1>1, <1>6, <2>1, <2>2, BookKept
<1>7. CASE /\ book' = AfterPlace(o, book)
           /\ Goes(h, to)
           /\ UNCHANGED <<balanceVars, mu>>
  <2>1. book \in BookSet(OrderIds, Users)
    BY BookTypes DEF BookTypeOK
  <2>2. book' \in BookSet(OrderIds, Users)
    BY <1>3, <1>7, <2>1, AfterPlaceType
  <2>3. BookTypeOK'
    BY <1>1, <2>2, BookTypes DEF BookTypeOK, trackVars
  <2>4. queue \in Seq(EntrySet(OrderIds, Users))
    BY <1>3, <2>1, OppositeSide DEF BookSet
  <2>5. Fills(o, queue) \in Seq(Matches) /\ Unfilled(o, queue) \in Int
    BY <1>3, <2>4, FillsType, UnfilledType, BookTypes
  <2>6. to.at \in {"quote", "finish"} /\ to \in Settling
    <3> HIDE DEF queue
    <3> QED
      BY <1>2, <2>5 DEF Settling
  <2>7. to \in Tasks /\ to.at \in Locking
    BY <2>6 DEF Tasks, Locking
  <2>8. to.at \in {"quote", "base"} => to.next \in DOMAIN to.fills
    <3>1. to.at = "quote" => Fills(o, queue) # <<>>
      OBVIOUS
    <3>2. to.next = 1 /\ to.fills = Fills(o, queue)
      OBVIOUS
    <3> HIDE DEF to, queue
    <3> QED
      BY <2>5, <2>6, <3>1, <3>2
  <2> HIDE DEF to
  <2>9. TaskTypeOK' /\ Exclusive'
    BY <1>4, <1>5, <1>7, <2>7, <2>8, Moves
  <2> QED
    BY <1>7, <2>3, <2>9, LedgerKept
<1> QED
  BY <1>6, <1>7 DEF MatchOrder

\* The parties of a match.
LEMMA PartiesType ==
  ASSUME TaskTypeOK, NEW h \in Handlers, task[h].at \in {"quote", "base"}
  PROVE  Buyer(h) \in Users /\ Seller(h) \in Users
<1>1. task[h].order.owner \in Users
  BY TaskParts, IncomingType
<1>2. NextFill(h).owner \in Users
  BY TaskParts DEF Matches
<1> QED
  BY <1>1, <1>2 DEF Buyer, Seller

\* SettleQuote: the first transfer.
LEMMA SettleQuoteInv ==
  ASSUME IInv, NEW h \in Handlers, SettleQuote(h)
  PROVE  IInv'
<1> USE DEF IInv
<1> DEFINE to == [task[h] EXCEPT !.at = "base"]
<1>1. /\ task[h].at = "quote" /\ UNCHANGED <<book, trackVars>>
      /\ mu' = mu /\ UNCHANGED issued
  BY DEF SettleQuote, bounds
<1>2. task[h] \in Settling /\ task[h].next \in DOMAIN task[h].fills
  BY <1>1, TaskParts
<1>3. BalanceInv'
  <2>1. Buyer(h) \in Users /\ Seller(h) \in Users
    BY <1>1, PartiesType
  <2>2. Leg("buy", NextFill(h)) \in Nat /\ Quote \in Tokens
    BY <1>1, TaskParts, LegType, PairAssumption DEF Sides
  <2> QED
    BY <2>1, <2>2, TryTransferInv DEF SettleQuote
<1>4. to \in Tasks /\ to.at = "base" /\ to.next \in DOMAIN to.fills
  BY <1>2 DEF Settling, Tasks
<1>5. task[h].at \in Locking /\ mu = h /\ to.at \in Locking
  BY <1>1, <1>4 DEF Locking, Exclusive
<1>6. issued' \in 0..MaxOrders /\ Goes(h, to)
  BY <1>1 DEF TaskTypeOK, SettleQuote
<1> HIDE DEF to
<1>7. TaskTypeOK' /\ Exclusive'
  BY <1>1, <1>4, <1>5, <1>6, Moves
<1> QED
  BY <1>1, <1>3, <1>7, BookKept

\* Panic: the deferred Unlock gives e.mu back.
LEMMA PanicInv ==
  ASSUME IInv, NEW h \in Handlers, Panic(h)
  PROVE  IInv'
<1> USE DEF IInv
<1>1. /\ task[h].at \in Locking /\ UNCHANGED issued
      /\ Done(h) /\ mu' = Free
      /\ UNCHANGED balanceVars /\ UNCHANGED <<book, trackVars>>
  BY DEF Panic, DoneUnlocking, Locking, bounds
<1> QED
  BY <1>1, Ends, LedgerKept, BookKept

\* Taking identities out of the tracked orders, or one in.
LEMMA Untracks ==
  ASSUME BookTypeOK, UNCHANGED book, NEW u, NEW X, NEW Y,
         orders' = orders \ X, userOrders' = [userOrders EXCEPT ![u] = @ \ Y]
  PROVE  BookTypeOK'
<1>1. orders' \subseteq OrderIds /\ book' \in [Sides -> Seq(Entries)]
  BY DEF BookTypeOK
<1>2. userOrders' \in [Users -> SUBSET OrderIds]
  BY DEF BookTypeOK
<1> QED
  BY <1>1, <1>2 DEF BookTypeOK

\* SettleBase: the second transfer, and on to a fill there is, or to the end.
LEMMA SettleBaseInv ==
  ASSUME IInv, NEW h \in Handlers, SettleBase(h)
  PROVE  IInv'
<1> USE DEF IInv
<1> DEFINE onward == [task[h] EXCEPT !.at = "quote", !.next = @ + 1]
           finished == [task[h] EXCEPT !.at = "finish"]
<1>1. /\ task[h].at = "base" /\ UNCHANGED book
      /\ mu' = mu /\ UNCHANGED issued
  BY DEF SettleBase, bounds
<1>2. /\ task[h] \in Settling /\ task[h].next \in DOMAIN task[h].fills
      /\ task[h].fills \in Seq(Matches) /\ task[h].next \in Nat
  BY <1>1, TaskParts
<1>3. BalanceInv'
  <2>1. Buyer(h) \in Users /\ Seller(h) \in Users
    BY <1>1, PartiesType
  <2>2. Leg("sell", NextFill(h)) \in Nat /\ Base \in Tokens
    BY <1>1, TaskParts, LegType, PairAssumption DEF Sides
  <2> QED
    BY <2>1, <2>2, TryTransferInv DEF SettleBase
<1>4. BookTypeOK'
  BY <1>1, Untracks DEF SettleBase
<1>5. task[h].at \in Locking /\ mu = h
  BY <1>1 DEF Locking, Exclusive
<1>6. issued' \in 0..MaxOrders
  BY <1>1 DEF TaskTypeOK
<1>7. CASE task[h].next < Len(task[h].fills) /\ Goes(h, onward)
  <2>1. /\ onward \in Tasks /\ onward.at = "quote"
        /\ onward.next = task[h].next + 1 /\ onward.fills = task[h].fills
    <3> DEFINE k == task[h]
               n == task[h].next + 1
    <3>1. k \in Settling /\ n \in Nat
      BY <1>2
    <3>2. onward = [k EXCEPT !.at = "quote", !.next = n]
      OBVIOUS
    <3> HIDE DEF k, n, onward
    <3>3. onward = [at |-> "quote", order |-> k.order, hold |-> k.hold, next |-> n,
                    fills |-> k.fills, left |-> k.left]
      BY <3>1, <3>2 DEF Settling
    <3>4. onward \in Settling
      BY <3>1, <3>3 DEF Settling
    <3> QED
      BY <3>3, <3>4 DEF Tasks, n, k
  <2>2. onward.next \in DOMAIN onward.fills
    BY <1>2, <1>7, <2>1
  <2>3. onward.at \in Locking
    BY <2>1 DEF Locking
  <2> HIDE DEF onward
  <2>4. TaskTypeOK' /\ Exclusive'
    BY <1>1, <1>5, <1>6, <1>7, <2>1, <2>2, <2>3, Moves
  <2> QED
    BY <1>3, <1>4, <2>4
<1>8. CASE Goes(h, finished)
  <2>1. finished \in Tasks /\ finished.at = "finish"
    BY <1>2 DEF Settling, Tasks
  <2>2. finished.at \in Locking /\ finished.at \notin {"quote", "base"}
    BY <2>1 DEF Locking
  <2> HIDE DEF finished
  <2>3. TaskTypeOK' /\ Exclusive'
    BY <1>1, <1>5, <1>6, <1>8, <2>1, <2>2, Moves
  <2> QED
    BY <1>3, <1>4, <2>3
<1> QED
  BY <1>7, <1>8 DEF SettleBase

\* FinishPlace: the refund and the tracking.
LEMMA FinishPlaceInv ==
  ASSUME IInv, NEW h \in Handlers, FinishPlace(h)
  PROVE  IInv'
<1> USE DEF IInv
<1> DEFINE o == task[h].order
           back == Refund(o, task[h].hold, task[h].fills, task[h].left)
<1>1. task[h].at = "finish" /\ UNCHANGED book /\ UNCHANGED issued
  BY DEF FinishPlace, bounds
<1>2. /\ o \in Incoming /\ task[h].hold \in Nat
      /\ task[h].fills \in Seq(Matches) /\ task[h].left \in Int
  BY <1>1, TaskParts
<1>3. o.id \in OrderIds /\ o.owner \in Users /\ HoldToken(o.side) \in Tokens
  BY <1>2, IncomingType, HoldTokenType
<1>4. BalanceInv'
  <2>1. back \in Nat
    BY <1>2, RefundType
  <2>2. TryRelease(o.owner, HoldToken(o.side), back)
    BY DEF FinishPlace
  <2> HIDE DEF back, o
  <2> QED
    BY <1>3, <2>1, <2>2, TryReleaseInv
<1>5. task[h].at \in Locking /\ mu = h /\ issued' \in 0..MaxOrders
  BY <1>1 DEF Locking, Exclusive, TaskTypeOK
<1>6. CASE /\ orders' = orders \cup {o.id}
           /\ userOrders' = [userOrders EXCEPT ![o.owner] = @ \cup {o.id}]
           /\ Goes(h, [at |-> "evict"])
           /\ UNCHANGED mu
  <2>1. BookTypeOK'
    <3> HIDE DEF o
    <3> QED
      BY <1>1, <1>3, <1>6 DEF BookTypeOK
  <2>2. [at |-> "evict"] \in Tasks /\ [at |-> "evict"].at \in Locking
        /\ [at |-> "evict"].at \notin {"quote", "base"}
    BY DEF Tasks, Locking
  <2>3. TaskTypeOK' /\ Exclusive'
    BY <1>5, <1>6, <2>2, Moves
  <2> QED
    BY <1>4, <2>1, <2>3
<1>7. CASE DoneUnlocking(h) /\ UNCHANGED trackVars
  BY <1>1, <1>4, <1>5, <1>7, Ends, BookKept DEF DoneUnlocking
<1> QED
  BY <1>6, <1>7 DEF FinishPlace

\* EvictLevels: what is put out has the type of an entry.
LEMMA EvictLevelsInv ==
  ASSUME IInv, NEW h \in Handlers, EvictLevels(h)
  PROVE  IInv'
<1> USE DEF IInv
<1> DEFINE gone == UNION {EvictedFrom(s) : s \in Sides}
           to == [at |-> "evicted", gone |-> gone]
<1>1. /\ task[h].at = "evict" /\ UNCHANGED balanceVars
      /\ UNCHANGED trackVars /\ UNCHANGED issued
      /\ book' = AfterEvict(book, MaxLevels)
  BY DEF EvictLevels, bounds
<1>2. book \in BookSet(OrderIds, Users)
  BY BookTypes DEF BookTypeOK
<1>3. BookTypeOK'
  <2>1. book' \in BookSet(OrderIds, Users)
    BY <1>1, <1>2, AfterEvictType
  <2> QED
    BY <1>1, <2>1, BookTypes DEF BookTypeOK, trackVars
<1>4. task[h].at \in Locking /\ mu = h /\ issued' \in 0..MaxOrders
  BY <1>1 DEF Locking, Exclusive, TaskTypeOK
<1>5. CASE DoneUnlocking(h)
  BY <1>1, <1>3, <1>4, <1>5, Ends, LedgerKept DEF DoneUnlocking
<1>6. CASE Goes(h, to) /\ UNCHANGED mu
  <2>1. gone \in SUBSET [side : Sides, entry : Entries]
    <3> SUFFICES ASSUME NEW s \in Sides, NEW e \in ToSet(Evicted(s, book[s], MaxLevels))
                 PROVE  e \in Entries
      BY DEF EvictedFrom
    <3>1. Evicted(s, book[s], MaxLevels) \in Seq(Entries)
      BY <1>2, AfterEvictType, BookTypes
    <3> QED
      BY <3>1 DEF ToSet
  <2> HIDE DEF gone
  <2>2. to \in Tasks /\ to.at = "evicted"
    BY <2>1 DEF Tasks, Evicting
  <2>3. to.at \in Locking /\ to.at \notin {"quote", "base"}
    BY <2>2 DEF Locking
  <2> HIDE DEF to
  <2>4. TaskTypeOK' /\ Exclusive'
    BY <1>4, <1>6, <2>2, <2>3, Moves
  <2> QED
    BY <1>1, <1>3, <2>4, LedgerKept
<1> QED
  BY <1>5, <1>6 DEF EvictLevels

\* RefundEvicted: e.mu is given back with the last order.
LEMMA RefundEvictedInv ==
  ASSUME IInv, NEW h \in Handlers, RefundEvicted(h)
  PROVE  IInv'
<1> USE DEF IInv
<1>1. task[h].at = "evicted" /\ UNCHANGED book /\ UNCHANGED issued
  BY DEF RefundEvicted, bounds
<1>2. task[h] \in Evicting /\ task[h].gone \in SUBSET [side : Sides, entry : Entries]
  BY <1>1, TaskParts, TaskShape DEF Evicting
<1>3. PICK x \in task[h].gone :
        LET rest == task[h].gone \ {x}
        IN  /\ TryRelease(x.entry.owner, HoldToken(x.side),
                          CalculateRelease(x.side, x.entry))
            /\ orders' = orders \ {x.entry.id}
            /\ userOrders' = [userOrders EXCEPT ![x.entry.owner] = @ \ {x.entry.id}]
            /\ IF rest = {}
               THEN DoneUnlocking(h)
               ELSE Goes(h, [task[h] EXCEPT !.gone = rest]) /\ UNCHANGED mu
  BY DEF RefundEvicted
<1>4. x.side \in Sides /\ x.entry \in Entries /\ x.entry.owner \in Users
  BY <1>2 DEF Entries
<1>5. BalanceInv'
  BY <1>3, <1>4, HoldTokenType, ReleaseType, TryReleaseInv
<1>6. BookTypeOK'
  BY <1>1, <1>3, Untracks
<1>7. task[h].at \in Locking /\ mu = h /\ issued' \in 0..MaxOrders
  BY <1>1 DEF Locking, Exclusive, TaskTypeOK
<1>8. CASE DoneUnlocking(h)
  BY <1>1, <1>5, <1>6, <1>7, <1>8, Ends DEF DoneUnlocking
<1>9. CASE Goes(h, [task[h] EXCEPT !.gone = task[h].gone \ {x}]) /\ UNCHANGED mu
  <2> DEFINE to == [task[h] EXCEPT !.gone = task[h].gone \ {x}]
  <2>1. to \in Tasks /\ to.at = "evicted"
    BY <1>1, <1>2 DEF Tasks, Evicting
  <2>2. to.at \in Locking /\ to.at \notin {"quote", "base"}
    BY <2>1 DEF Locking
  <2> HIDE DEF to
  <2>3. TaskTypeOK' /\ Exclusive'
    BY <1>7, <1>9, <2>1, <2>2, Moves DEF to
  <2> QED
    BY <1>5, <1>6, <2>3
<1> QED
  BY <1>3, <1>8, <1>9

-----------------------------------------------------------------------------

\* CancelOrder: a lookup.
LEMMA CancelOrderInv ==
  ASSUME IInv, NEW h \in Handlers, NEW user \in Users, NEW id \in 1..issued,
         CancelOrder(h, user, id)
  PROVE  IInv'
<1> USE DEF IInv
<1> DEFINE to == [at |-> "cancel", user |-> user, id |-> id]
<1>1. /\ task[h].at = "idle" /\ Goes(h, to)
      /\ UNCHANGED balanceVars /\ UNCHANGED <<book, trackVars>>
      /\ mu' = mu /\ UNCHANGED issued
  BY DEF CancelOrder, Idle, bounds
<1>2. issued' \in 0..MaxOrders /\ id \in OrderIds
  BY <1>1, ExtensionAssumption DEF TaskTypeOK, OrderIds
<1>3. to \in Tasks /\ to.at = "cancel"
  BY <1>2 DEF Tasks, LookedUp
<1>4. to.at \notin Locking /\ to.at \notin {"quote", "base"} /\ mu # h
  BY <1>1, <1>3 DEF Locking, Exclusive
<1> HIDE DEF to
<1>5. TaskTypeOK' /\ Exclusive'
  BY <1>1, <1>2, <1>3, <1>4, Moves
<1> QED
  BY <1>1, <1>5, LedgerKept, BookKept

\* CancelInBook.
LEMMA CancelInBookInv ==
  ASSUME IInv, NEW h \in Handlers, CancelInBook(h)
  PROVE  IInv'
<1> USE DEF IInv
<1> DEFINE id == task[h].id
<1>1. /\ task[h].at = "cancel" /\ UNCHANGED balanceVars
      /\ UNCHANGED trackVars /\ mu' = mu /\ UNCHANGED issued
  BY DEF CancelInBook, bounds
<1>2. task[h].at \notin Locking /\ mu # h /\ issued' \in 0..MaxOrders
  BY <1>1 DEF Locking, Exclusive, TaskTypeOK
<1>3. book \in BookSet(OrderIds, Users)
  BY BookTypes DEF BookTypeOK
<1>4. CASE Done(h) /\ UNCHANGED book
  BY <1>1, <1>2, <1>4, Ends, LedgerKept, BookKept
<1>5. CASE \E s \in Sides : \E e \in ToSet(book[s]) :
             /\ e.id = id
             /\ IF e.owner = task[h].user
                THEN /\ book' = Without(id, book)
                     /\ Goes(h, [at |-> "refund", user |-> e.owner, side |-> s, entry |-> e])
                ELSE /\ book' = [Without(id, book) EXCEPT ![s] = Rest(s, @, e)]
                     /\ Done(h)
  <2>a. PICK s \in Sides :
          \E e \in ToSet(book[s]) :
            \/ /\ book' = Without(id, book)
               /\ Goes(h, [at |-> "refund", user |-> e.owner, side |-> s, entry |-> e])
            \/ /\ book' = [Without(id, book) EXCEPT ![s] = Rest(s, @, e)]
               /\ Done(h)
    BY <1>5
  <2>1. PICK e \in ToSet(book[s]) :
          \/ /\ book' = Without(id, book)
             /\ Goes(h, [at |-> "refund", user |-> e.owner, side |-> s, entry |-> e])
          \/ /\ book' = [Without(id, book) EXCEPT ![s] = Rest(s, @, e)]
             /\ Done(h)
    BY <2>a
  <2>2. e \in Entries /\ e \in EntrySet(OrderIds, Users) /\ e.owner \in Users
    <3>1. book[s] \in Seq(Entries)
      BY DEF BookTypeOK
    <3>2. e \in Entries
      BY <3>1 DEF ToSet
    <3> QED
      BY <3>2, BookTypes DEF Entries
  <2>3. Without(id, book) \in BookSet(OrderIds, Users)
    BY <1>3, WithoutType
  <2>4. BookTypeOK'
    <3>1. [Without(id, book) EXCEPT ![s] = Rest(s, @, e)] \in BookSet(OrderIds, Users)
      BY <2>2, <2>3, RestBackType
    <3>2. book' \in BookSet(OrderIds, Users)
      BY <2>1, <2>3, <3>1
    <3> QED
      BY <1>1, <3>2, BookTypes DEF BookTypeOK, trackVars
  <2>5. CASE Done(h)
    BY <1>1, <1>2, <2>4, <2>5, Ends, LedgerKept
  <2>6. CASE Goes(h, [at |-> "refund", user |-> e.owner, side |-> s, entry |-> e])
    <3> DEFINE to == [at |-> "refund", user |-> e.owner, side |-> s, entry |-> e]
    <3>1. to \in Tasks /\ to.at = "refund"
      BY <2>2 DEF Tasks, Cancelled
    <3>2. to.at \notin Locking /\ to.at \notin {"quote", "base"}
      BY <3>1 DEF Locking
    <3> HIDE DEF to
    <3>3. TaskTypeOK' /\ Exclusive'
      BY <1>1, <1>2, <2>6, <3>1, <3>2, Moves DEF to
    <3> QED
      BY <1>1, <2>4, <3>3, LedgerKept
  <2> QED
    BY <2>1, <2>5, <2>6
<1> QED
  BY <1>4, <1>5 DEF CancelInBook

\* CancelRefund.
LEMMA CancelRefundInv ==
  ASSUME IInv, NEW h \in Handlers, CancelRefund(h)
  PROVE  IInv'
<1> USE DEF IInv
<1> DEFINE to == [task[h] EXCEPT !.at = "untrack"]
<1>1. /\ task[h].at = "refund" /\ Goes(h, to) /\ mu' = mu
      /\ UNCHANGED <<book, trackVars>> /\ UNCHANGED issued
  BY DEF CancelRefund, bounds
<1>2. /\ task[h] \in Cancelled /\ task[h].user \in Users
      /\ task[h].side \in Sides /\ task[h].entry \in Entries
  BY <1>1, TaskParts, TaskShape DEF Cancelled
<1>3. BalanceInv'
  BY <1>2, HoldTokenType, ReleaseType, TryReleaseInv DEF CancelRefund
<1>4. to \in Tasks /\ to.at = "untrack"
  BY <1>2 DEF Tasks, Cancelled
<1>5. to.at \notin Locking /\ to.at \notin {"quote", "base"} /\ mu # h
      /\ issued' \in 0..MaxOrders
  BY <1>1, <1>4 DEF Locking, Exclusive, TaskTypeOK
<1> HIDE DEF to
<1>6. TaskTypeOK' /\ Exclusive'
  BY <1>1, <1>4, <1>5, Moves
<1> QED
  BY <1>1, <1>3, <1>6, BookKept

\* CancelUntrack.
LEMMA CancelUntrackInv ==
  ASSUME IInv, NEW h \in Handlers, CancelUntrack(h)
  PROVE  IInv'
<1> USE DEF IInv
<1>1. /\ task[h].at = "untrack" /\ Done(h) /\ mu' = mu
      /\ UNCHANGED balanceVars /\ UNCHANGED book /\ UNCHANGED issued
  BY DEF CancelUntrack, bounds
<1>2. BookTypeOK'
  BY <1>1, Untracks DEF CancelUntrack
<1>3. task[h].at \notin Locking
  BY <1>1 DEF Locking
<1>4. TaskTypeOK' /\ Exclusive'
  BY <1>1, <1>3, Ends
<1> QED
  BY <1>1, <1>2, <1>4, LedgerKept

-----------------------------------------------------------------------------

\* Deposits and withdrawals touch the ledger only.
LEMMA RequestsKept ==
  ASSUME TaskTypeOK, Exclusive, UNCHANGED <<mu, task, issued>>
  PROVE  TaskTypeOK' /\ Exclusive'
<1>1. mu' = mu /\ task' = task /\ issued' = issued
  OBVIOUS
<1>2. TaskTypeOK'
  BY <1>1 DEF TaskTypeOK
<1>3. Exclusive'
  BY <1>1 DEF Exclusive
<1> QED
  BY <1>2, <1>3

\* DepositFunds.
LEMMA DepositFundsInv ==
  ASSUME IInv, NEW u \in Users, NEW t \in Tokens, DepositFunds(u, t)
  PROVE  IInv'
<1>1. BalanceInv'
  BY DepositInv DEF DepositFunds, IInv
<1>2. UNCHANGED <<book, trackVars>> /\ UNCHANGED <<mu, task, issued>>
  BY DEF DepositFunds, External
<1> QED
  BY <1>1, <1>2, BookKept, RequestsKept DEF IInv

\* WithdrawFunds.
LEMMA WithdrawFundsInv ==
  ASSUME IInv, NEW u \in Users, NEW t \in Tokens, WithdrawFunds(u, t)
  PROVE  IInv'
<1>1. BalanceInv'
  BY WithdrawInv DEF WithdrawFunds, IInv
<1>2. UNCHANGED <<book, trackVars>> /\ UNCHANGED <<mu, task, issued>>
  BY DEF WithdrawFunds, External
<1> QED
  BY <1>1, <1>2, BookKept, RequestsKept DEF IInv

\* With no request under way and e.mu free, the lock policy holds.
LEMMA AtRest ==
  ASSUME task = [h \in Handlers |-> Idle], mu = Free
  PROVE  /\ mu \in Handlers \cup {Free}
         /\ task \in [Handlers -> Tasks]
         /\ \A h \in Handlers :
              task[h].at \in {"quote", "base"} => task[h].next \in DOMAIN task[h].fills
         /\ Exclusive
<1>1. \A h \in Handlers : task[h] = Idle
  OBVIOUS
<1>2. Idle \in Tasks /\ Idle.at = "idle"
  BY DEF Tasks, Idle
<1>3. Exclusive
  BY <1>1, <1>2, HandlersAssumption DEF Exclusive, Locking
<1> QED
  BY <1>1, <1>2, <1>3

\* The empty book is a book.
LEMMA EmptyBook == [s \in Sides |-> <<>>] \in [Sides -> Seq(Entries)]
OBVIOUS

\* Loading the ledger gives back what was held and, with it, keeps the custody
\* of every token: the sum of the two parts does not wrap.
LEMMA LoadBalance ==
  ASSUME BalanceInv, UNCHANGED supply,
         balances' = [u \in Users |-> [t \in Tokens |-> Migrated(balances[u][t])]]
  PROVE  BalanceInv'
<1>1. /\ balances' = [u \in Users |-> [t \in Tokens |-> Migrated(balances[u][t])]]
      /\ supply' = supply
  OBVIOUS
<1>2. balances \in Ledger /\ supply \in [Tokens -> 0..MaxSupply] /\ Conserved
  BY DEF BalanceInv, BalanceTypeOK
<1>3. ASSUME NEW u \in Users, NEW t \in Tokens
      PROVE  /\ balances'[u][t] \in TokenBalance
             /\ Equity(balances', u, t) = Equity(balances, u, t)
  <2> DEFINE x == Equity(balances, u, t)
  <2>1. x \in Nat /\ x < Word
    BY <1>2, EquityBound
  <2>2. balances'[u][t] = [available |-> x % Word, held |-> 0]
    BY <1>1 DEF Migrated, Equity
  <2>3. x \in Amount /\ 0 \in Amount /\ x + 0 = x
    <3> HIDE DEF x
    <3> QED
      BY <2>1, SupplyAssumption DEF Amount
  <2>4. x % Word = x
    <3> HIDE DEF x
    <3> QED
      BY <2>1, FitsWord
  <2>5. balances'[u][t].available = x /\ balances'[u][t].held = 0
    <3> HIDE DEF x
    <3> QED
      BY <2>2, <2>4
  <2>6. balances'[u][t] \in TokenBalance
    <3> HIDE DEF x
    <3> QED
      BY <2>2, <2>3, <2>4 DEF TokenBalance
  <2>7. Equity(balances', u, t) = x + 0
    <3> HIDE DEF x
    <3> QED
      BY <2>5 DEF Equity
  <2> QED
    BY <2>3, <2>6, <2>7
<1>4. balances' \in Ledger
  <2>1. balances' = [u \in Users |-> [t \in Tokens |-> balances'[u][t]]]
    BY <1>1
  <2> QED
    BY <1>3, <2>1 DEF Ledger
<1>5. \A t \in Tokens : InCustody(balances', t) = InCustody(balances, t)
  <2> SUFFICES ASSUME NEW t \in Tokens
               PROVE  EquityTable(balances', t) = EquityTable(balances, t)
    BY DEF InCustody
  <2> QED
    BY <1>3 DEF EquityTable
<1> QED
  BY <1>1, <1>2, <1>4, <1>5 DEF BalanceInv, BalanceTypeOK, Conserved

\* A restart begins with the ledger it loads or with an empty one.
LEMMA RestartBalance ==
  ASSUME BalanceInv, Restart
  PROVE  BalanceInv'
<1>1. CASE /\ balances' = [u \in Users |-> [t \in Tokens |-> Migrated(balances[u][t])]]
           /\ UNCHANGED supply
  BY <1>1, LoadBalance
<1>2. CASE balances' = EmptyLedger /\ supply' = [t \in Tokens |-> 0]
  <2>1. supply' \in [Tokens -> 0..MaxSupply]
    BY <1>2, SupplyAssumption
  <2>2. \A t \in Tokens : InCustody(balances', t) = supply'[t]
    BY <1>2, EmptyLedgerFacts
  <2> QED
    BY <1>2, <2>1, <2>2, EmptyLedgerFacts DEF BalanceInv, BalanceTypeOK, Conserved
<1> QED
  BY <1>1, <1>2 DEF Restart

\* Restart: what is loaded is available, and adds up to what is accounted for.
LEMMA RestartInv ==
  ASSUME IInv, Restart
  PROVE  IInv'
<1>1. BalanceInv'
  BY RestartBalance DEF IInv
<1>2. BookTypeOK'
  BY EmptyBook DEF Restart, BookTypeOK
<1>3. task' = [h \in Handlers |-> Idle] /\ mu' = Free
  BY DEF Restart
<1>4. issued' \in 0..MaxOrders
  BY DEF Restart, External, IInv, TaskTypeOK
<1>5. /\ Idle \in Tasks /\ Idle.at = "idle"
      /\ \A h \in Handlers : task'[h] = Idle
  BY <1>3 DEF Tasks, Idle
<1>6. TaskTypeOK'
  BY <1>3, <1>4, <1>5 DEF TaskTypeOK
<1>7. Exclusive'
  BY <1>3, <1>5, HandlersAssumption DEF Exclusive, Locking
<1> QED
  BY <1>1, <1>2, <1>6, <1>7 DEF IInv

\* The initial ledger.
LEMMA InitBalance ==
  ASSUME Init
  PROVE  BalanceInv
<1>1. /\ balances = [u \in Users |-> [t \in Tokens |->
                      [available |-> Funds[u][t], held |-> 0]]]
      /\ supply = [t \in Tokens |-> Total([u \in Users |-> Funds[u][t]])]
  BY DEF Init
<1>2. \A u \in Users, t \in Tokens : Funds[u][t] \in 0..MaxSupply
  BY ExtensionAssumption
<1>3. balances \in Ledger
  <2>1. 0..MaxSupply \subseteq Amount /\ 0 \in Amount
    BY SupplyAssumption DEF Amount
  <2>2. \A u \in Users, t \in Tokens : [available |-> Funds[u][t], held |-> 0] \in TokenBalance
    BY <1>2, <2>1 DEF TokenBalance
  <2> QED
    BY <1>1, <2>2 DEF Ledger
<1>4. \A t \in Tokens : EquityTable(balances, t) = [u \in Users |-> Funds[u][t]]
  <2> SUFFICES ASSUME NEW t \in Tokens, NEW u \in Users
               PROVE  Equity(balances, u, t) = Funds[u][t]
    BY DEF EquityTable
  <2>1. Funds[u][t] \in Nat
    BY <1>2, SupplyAssumption
  <2>2. balances[u][t] = [available |-> Funds[u][t], held |-> 0]
    BY <1>1
  <2> QED
    BY <2>1, <2>2 DEF Equity
<1>5. Conserved
  BY <1>1, <1>4 DEF Conserved, InCustody
<1>6. supply \in [Tokens -> 0..MaxSupply]
  <2> SUFFICES ASSUME NEW t \in Tokens
               PROVE  Total([u \in Users |-> Funds[u][t]]) \in 0..MaxSupply
    BY <1>1
  <2> DEFINE f == [u \in Users |-> Funds[u][t]]
  <2>1. f \in [Users -> Nat]
    BY <1>2, SupplyAssumption
  <2>2. Total(f) <= MaxSupply
    BY ExtensionAssumption
  <2> HIDE DEF f
  <2>3. Total(f) \in Nat
    BY <2>1, UsersAssumption, UnitsFinite
  <2>4. Total(f) \in 0..MaxSupply
    BY <2>2, <2>3, SupplyAssumption
  <2> QED
    BY <2>4 DEF f
<1> QED
  BY <1>3, <1>5, <1>6 DEF BalanceInv, BalanceTypeOK

\* The initial state.
LEMMA InitInv == Init => IInv
<1> SUFFICES ASSUME Init
             PROVE  IInv
  OBVIOUS
<1>1. BalanceInv
  BY InitBalance
<1>2. BookTypeOK
  BY EmptyBook DEF Init, BookTypeOK
<1>3. TaskTypeOK /\ Exclusive
  BY AtRest, ExtensionAssumption DEF Init, TaskTypeOK
<1> QED
  BY <1>1, <1>2, <1>3 DEF IInv

\* Every step keeps the invariant.
LEMMA NextInv == IInv /\ [Next]_vars => IInv'
<1> SUFFICES ASSUME IInv, [Next]_vars
             PROVE  IInv'
  OBVIOUS
<1>1. ASSUME NEW h \in Handlers, NEW o \in Incoming, PlaceOrder(h, o)
      PROVE  IInv'
  BY <1>1, PlaceOrderInv
<1>2. ASSUME NEW h \in Handlers, NEW u \in Users, NEW id \in 1..issued,
             CancelOrder(h, u, id)
      PROVE  IInv'
  BY <1>2, CancelOrderInv
<1>3. CASE UNCHANGED vars
  <2>1. UNCHANGED balanceVars /\ UNCHANGED <<book, trackVars>>
        /\ UNCHANGED <<mu, task, issued>>
    BY <1>3 DEF vars, balanceVars, trackVars
  <2> QED
    BY <2>1, LedgerKept, BookKept, RequestsKept DEF IInv
<1>4. ASSUME NEW h \in Handlers, Step(h)
      PROVE  IInv'
  BY <1>4, EnterPlaceInv, MatchOrderInv, SettleQuoteInv, PanicInv, SettleBaseInv,
     FinishPlaceInv, EvictLevelsInv, RefundEvictedInv, CancelInBookInv,
     CancelRefundInv, CancelUntrackInv DEF Step
<1>5. ASSUME NEW u \in Users, NEW t \in Tokens, DepositFunds(u, t)
      PROVE  IInv'
  BY <1>5, DepositFundsInv
<1>6. ASSUME NEW u \in Users, NEW t \in Tokens, WithdrawFunds(u, t)
      PROVE  IInv'
  BY <1>6, WithdrawFundsInv
<1>7. CASE Restart
  BY <1>7, RestartInv
<1>8. \A h \in Handlers, id \in 1..MaxOrders : CancelRejected(h, id) => UNCHANGED vars
  BY DEF CancelRejected
<1> QED
  BY <1>1, <1>2, <1>3, <1>4, <1>5, <1>6, <1>7, <1>8 DEF Next

\* The inductive invariant holds throughout.
THEOREM Invariance == Spec => []IInv
BY InitInv, NextInv, PTL DEF Spec

\* Every part of the state keeps its type, and a settling request stands at one
\* of its fills, through every interleaving of requests.
THEOREM TypeCorrect == Spec => []TypeOK
<1>1. IInv => TypeOK
  BY DEF IInv, BalanceInv, TypeOK
<1> QED
  BY <1>1, Invariance, PTL

\* Conservation, processPlaceOrder to issueWithdrawal: no interleaving of
\* placements, settlements, refunds, cancels, deposits and withdrawals, with
\* transfers that fail, panics and restarts among them, makes or loses a unit.
THEOREM Conservation == Spec => []Conserved
<1>1. IInv => Conserved
  BY DEF IInv, BalanceInv
<1> QED
  BY <1>1, Invariance, PTL

\* The lock policy: e.mu is held exactly by the request that is between its
\* hold and its return, so no two placements are.
THEOREM LockPolicy == Spec => []Exclusive
<1>1. IInv => Exclusive
  BY DEF IInv
<1> QED
  BY <1>1, Invariance, PTL

-----------------------------------------------------------------------------
(***************************************************************************)
(* Which orders the handlers know of, for any number of users, requests,   *)
(* orders and prices, limit, market and invalid orders together: when e.mu *)
(* is free every order that rests is tracked under its owner and the caps  *)
(* of a user and of a side hold, whatever steps of cancels come between,   *)
(* whatever request panics and whenever the process restarts.              *)
(*                                                                         *)
(* First, what calculateHold has vetted (VetInv).  Then, who knows of an   *)
(* order: the book, e.orders, e.userOrders and the requests that place it, *)
(* settle it, evict it or cancel it agree on its owner (Agreed), and an    *)
(* order is in the hands of one of them in a way the others cannot disturb *)
(* (Apart, OneEach).                                                       *)
(***************************************************************************)

\* Products of natural numbers grow with their factors.
LEMMA TimesMonotone ==
  ASSUME NEW a \in Nat, NEW b \in Nat, NEW c \in Nat, NEW d \in Nat, a <= c, b <= d
  PROVE  a * b <= c * d
<1>1. a * b <= c * b
  <2>1. (c - a) * b \in Nat
    OBVIOUS
  <2>2. c * b = a * b + (c - a) * b
    OBVIOUS
  <2> QED
    BY <2>1, <2>2
<1>2. c * b <= c * d
  <2>1. c * (d - b) \in Nat
    OBVIOUS
  <2>2. c * d = c * b + c * (d - b)
    OBVIOUS
  <2> QED
    BY <2>1, <2>2
<1> QED
  BY <1>1, <1>2

\* A level's rank is a number, and what is evicted in one go is finite.
LEMMA RankType ==
  ASSUME NEW queue \in Seq(Entries), NEW side, NEW i
  PROVE  Rank(side, queue, i) \in Nat
<1> DEFINE D == DOMAIN queue
           f == [j \in D |-> queue[j].price]
           better == {p \in Levels(queue) : Better(side, p, queue[i].price)}
<1>1. IsFiniteSet(D)
  BY PositionsFinite
<1>2. f \in Surjection(D, Levels(queue))
  BY DEF Surjection, Levels
<1>3. IsFiniteSet(Levels(queue))
  <2> HIDE DEF f, D
  <2> QED
    BY <1>1, <1>2, FS_Surjection
<1>4. better \in SUBSET Levels(queue)
  OBVIOUS
<1> HIDE DEF better
<1>5. IsFiniteSet(better)
  BY <1>3, <1>4, FS_Subset
<1>6. Cardinality(better) \in Nat
  BY <1>5, FS_CardinalityType
<1> QED
  BY <1>6 DEF Rank, better

\* What is put out of the book at one eviction is finitely many orders.
LEMMA GoneFinite ==
  ASSUME BookTypeOK
  PROVE  IsFiniteSet(UNION {EvictedFrom(s) : s \in Sides})
<1>1. ASSUME NEW s \in Sides
      PROVE  IsFiniteSet(EvictedFrom(s))
  <2> DEFINE ev == Evicted(s, book[s], MaxLevels)
             f == [i \in DOMAIN ev |-> [side |-> s, entry |-> ev[i]]]
  <2>1. ev \in Seq(Entries)
    <3>1. book \in BookSet(OrderIds, Users)
      BY BookTypes DEF BookTypeOK
    <3> QED
      BY <3>1, AfterEvictType, BookTypes
  <2>2. f \in Surjection(DOMAIN ev, EvictedFrom(s))
    <3> HIDE DEF ev
    <3>1. EvictedFrom(s) = {[side |-> s, entry |-> ev[i]] : i \in DOMAIN ev}
      BY DEF EvictedFrom, ToSet, ev
    <3> QED
      BY <3>1 DEF Surjection
  <2>3. IsFiniteSet(DOMAIN ev)
    <3> HIDE DEF ev
    <3> QED
      BY <2>1, PositionsFinite
  <2> HIDE DEF ev, f
  <2> QED
    BY <2>2, <2>3, FS_Surjection
<1>2. UNION {EvictedFrom(s) : s \in Sides} = EvictedFrom("buy") \cup EvictedFrom("sell")
  BY DEF Sides
<1>3. IsFiniteSet(EvictedFrom("buy")) /\ IsFiniteSet(EvictedFrom("sell"))
  BY <1>1 DEF Sides
<1>4. IsFiniteSet(EvictedFrom("buy") \cup EvictedFrom("sell"))
  BY <1>3, FS_Union
<1> QED
  BY <1>2, <1>4

\* The request as it goes on once its order has been matched.
Matched(o, hold, queue) ==
  [at |-> IF Fills(o, queue) = <<>> THEN "finish" ELSE "quote",
   order |-> o, hold |-> hold, next |-> 1,
   fills |-> Fills(o, queue), left |-> Unfilled(o, queue)]

\* Where matching leaves the two sides of the book.
LEMMA PlacedSides ==
  ASSUME BookTypeOK, NEW o \in Incoming
  PROVE  LET opp == Opposite(o.side)
             left == Unfilled(o, book[opp])
         IN  /\ AfterPlace(o, book)[opp] = AfterFills(o, book[opp])
             /\ AfterPlace(o, book)[o.side] =
                  IF o.type = "limit" /\ left > 0
                  THEN Rest(o.side, book[o.side], Entry(o, left))
                  ELSE book[o.side]
<1>1. o.side \in Sides
  BY IncomingType
<1>2. Opposite(o.side) \in Sides /\ Opposite(o.side) # o.side
  BY <1>1, OppositeSide
<1> QED
  BY <1>1, <1>2 DEF AfterPlace, BookTypeOK

\* An empty book and no request under way.
AllIdle == book = [s \in Sides |-> <<>>] /\ task = [h \in Handlers |-> Idle]

\* What calculateHold has vetted at the moment a limit buy comes in covers every
\* product taken later, of what rests of it and of every match it makes,
\* whichever of the two orders came in first.
VettedOrder(o) == o.type # "market" /\ o.side = "buy" => ~Overflows(o.quantity, o.price)

VettedFills(fills) ==
  \A j \in DOMAIN fills :
    fills[j].quantity > 0 /\ ~Overflows(fills[j].quantity, fills[j].price)

VettedBids(queue) ==
  \A i \in DOMAIN queue : ~Overflows(queue[i].remaining, queue[i].price)

VettedTask(k) ==
  /\ k.at \in {"enter", "match"} => VettedOrder(k.order)
  /\ k.at \in {"quote", "base"} /\ k.order.type # "market" => VettedFills(k.fills)

Vetted == VettedBids(book["buy"]) /\ \A h \in Handlers : VettedTask(task[h])

VetInv == IInv /\ Vetted

\* A smaller product does not overflow if the larger does not.
LEMMA SmallerFits ==
  ASSUME NEW a \in Nat, NEW b \in Nat, NEW c \in Nat, NEW d \in Nat, a <= c, b <= d,
         ~Overflows(c, d)
  PROVE  ~Overflows(a, b)
<1> DEFINE x == a * b
           y == c * d
<1>1. x \in Nat /\ y \in Nat /\ x <= y
  BY TimesMonotone
<1>2. ~(y >= Word) /\ Word \in Nat
  BY SupplyAssumption DEF Overflows
<1> HIDE DEF x, y
<1>3. ~(x >= Word)
  BY <1>1, <1>2
<1> QED
  BY <1>3 DEF Overflows, x

\* The bids stay vetted when some go, when a vetted one comes to rest, and when
\* a match leaves less of them.
LEMMA SubVetted ==
  ASSUME NEW queue \in Seq(Entries), NEW P \in SUBSET (DOMAIN queue), VettedBids(queue)
  PROVE  VettedBids(Sub(queue, P))
BY SubMembers DEF VettedBids

\* A bid that fits, behind bids that fit.
LEMMA RestVetted ==
  ASSUME NEW queue \in Seq(Entries), NEW e \in Entries, NEW side, VettedBids(queue),
         ~Overflows(e.remaining, e.price)
  PROVE  VettedBids(Rest(side, queue, e))
<1> DEFINE r == Rest(side, queue, e)
<1>1. PICK at : Inserted(r, queue, e, at)
  BY RestMembers
<1>2. r \in Seq(Entries)
  BY RestMembers
<1> HIDE DEF r
<1> SUFFICES ASSUME NEW k \in DOMAIN r
             PROVE  ~Overflows(r[k].remaining, r[k].price)
  BY DEF VettedBids, r
<1>3. k \in 1..(Len(queue) + 1) /\ Len(queue) \in Nat /\ DOMAIN queue = 1..Len(queue)
  BY <1>1, <1>2, PositionsFinite DEF Inserted
<1>4. at \in 1..(Len(queue) + 1)
      /\ r[k] = IF k < at THEN queue[k] ELSE IF k = at THEN e ELSE queue[k - 1]
  BY <1>1, <1>3 DEF Inserted
<1>5. CASE k < at
  BY <1>3, <1>4, <1>5 DEF VettedBids
<1>6. CASE k = at
  BY <1>4, <1>6
<1>7. CASE k > at
  <2>1. k - 1 \in DOMAIN queue
    BY <1>3, <1>4, <1>7
  <2>2. r[k] = queue[k - 1]
    BY <1>3, <1>4, <1>7
  <2> QED
    BY <2>1, <2>2 DEF VettedBids
<1> QED
  BY <1>3, <1>4, <1>5, <1>6, <1>7

\* Matching leaves of each bid no more than there was.
LEMMA LeftVetted ==
  ASSUME NEW queue \in Seq(Entries), NEW o \in Incoming, VettedBids(queue)
  PROVE  VettedBids(AfterFills(o, queue))
<1> DEFINE left == AllLeft(o, queue)
<1>1. queue \in Seq(EntrySet(OrderIds, Users)) /\ o.quantity \in Nat
  BY IncomingType, BookTypes
<1>2. /\ left \in Seq(Entries) /\ DOMAIN left = DOMAIN queue
      /\ Remains(o, queue) \in SUBSET (DOMAIN left)
      /\ AfterFills(o, queue) = Sub(left, Remains(o, queue))
  BY <1>1, FillsParts, BookTypes
<1>3. ASSUME NEW i \in DOMAIN queue
      PROVE  ~Overflows(left[i].remaining, left[i].price)
  <2> DEFINE e == queue[i]
             n == Taken(o, queue)[i]
             l == left[i]
  <2>1. l = [e EXCEPT !.remaining = e.remaining - n]
    BY DEF AllLeft, LeftAt
  <2>2. e \in Entries /\ n \in Nat /\ n <= e.remaining
    BY <1>1, TakenType
  <2>3. e.remaining \in Nat /\ e.price \in Nat
    <3> HIDE DEF e
    <3> QED
      BY <2>2 DEF Entries
  <2>4. l.remaining = e.remaining - n /\ l.price = e.price
    <3> HIDE DEF e, l, n
    <3> QED
      BY <2>1, <2>2 DEF Entries
  <2>5. ~Overflows(e.remaining, e.price)
    BY DEF VettedBids
  <2> HIDE DEF e, l, n
  <2>6. l.remaining \in Nat /\ l.remaining <= e.remaining
    BY <2>2, <2>3, <2>4
  <2>7. ~Overflows(l.remaining, l.price)
    BY <2>3, <2>4, <2>5, <2>6, SmallerFits
  <2> QED
    BY <2>7 DEF l
<1>4. VettedBids(left)
  <2> HIDE DEF left
  <2> QED
    BY <1>2, <1>3 DEF VettedBids
<1> HIDE DEF left
<1> QED
  BY <1>2, <1>4, SubVetted

\* The types of the orders that come in.
LEMMA TypesOf ==
  ASSUME NEW o \in Incoming
  PROVE  o.type \in {"limit", "market", "other"}
BY ExtensionAssumption DEF Incoming

\* The matches of a vetted limit order with vetted bids are vetted, and so are
\* those with whatever asks there are.
LEMMA FillsVetted ==
  ASSUME NEW o \in Incoming, o.type = "limit", VettedOrder(o), NEW queue \in Seq(Entries),
         o.side = "sell" => VettedBids(queue)
  PROVE  VettedFills(Fills(o, queue))
<1> DEFINE F == Fills(o, queue)
<1> SUFFICES ASSUME NEW j \in DOMAIN F
             PROVE  F[j].quantity > 0 /\ ~Overflows(F[j].quantity, F[j].price)
  BY DEF VettedFills
<1> DEFINE i == Nth(Hit(o, queue), j)
           n == Taken(o, queue)[i]
           e == queue[i]
<1>1. queue \in Seq(EntrySet(OrderIds, Users)) /\ o.quantity \in Nat /\ o.price \in Nat
      /\ o.side \in {"buy", "sell"}
  BY IncomingType, BookTypes DEF Sides
<1>2. /\ i \in Hit(o, queue) /\ F[j] = FillAt(o, queue, i) /\ Crosses(o, e.price)
      /\ n \in 1..o.quantity /\ n <= e.remaining
  BY <1>1, FillsMembers
<1>3. i \in DOMAIN queue
  BY <1>2 DEF Hit
<1>4. e.price \in Nat /\ e.remaining \in Nat
  <2>1. e \in Entries
    BY <1>3
  <2> QED
    BY <2>1 DEF Entries
<1>5. F[j].quantity = n /\ F[j].price = e.price
  BY <1>2 DEF FillAt
<1>6. o.side = "sell" => ~Overflows(e.remaining, e.price)
  BY <1>3 DEF VettedBids
<1>7. o.side = "buy" => e.price <= o.price
  <2> HIDE DEF e
  <2> QED
    BY <1>1, <1>2, <1>4 DEF Crosses, Better, Opposite
<1> HIDE DEF F, i, n, e
<1>8. n \in Nat /\ n > 0 /\ n <= o.quantity
  BY <1>1, <1>2
<1>9. CASE o.side = "buy"
  BY <1>1, <1>4, <1>5, <1>7, <1>8, <1>9, SmallerFits DEF VettedOrder
<1>10. CASE o.side = "sell"
  BY <1>2, <1>4, <1>5, <1>6, <1>8, <1>10, SmallerFits
<1> QED
  BY <1>1, <1>9, <1>10

\* A request goes on vetted, and the bids stay so.
LEMMA VetMoves ==
  ASSUME VetInv, IInv', NEW h \in Handlers, NEW to, Goes(h, to), VettedTask(to),
         VettedBids(book'["buy"])
  PROVE  VetInv'
<1>1. task'[h] = to /\ \A g \in Handlers \ {h} : task'[g] = task[g]
  BY DEF VetInv, IInv, TaskTypeOK, Goes
<1>2. \A g \in Handlers : VettedTask(task[g])
  BY DEF VetInv, Vetted
<1>3. \A g \in Handlers : VettedTask(task'[g])
  BY <1>1, <1>2
<1>4. Vetted'
  BY <1>3 DEF Vetted
<1> QED
  BY <1>4 DEF VetInv

\* A request that ends has nothing to vet.
LEMMA IdleVetted == VettedTask(Idle)
BY DEF VettedTask, Idle

\* The bids, with their type and vetted.
LEMMA BidsType ==
  ASSUME VetInv
  PROVE  /\ book["buy"] \in Seq(Entries) /\ VettedBids(book["buy"])
         /\ book \in [Sides -> Seq(Entries)] /\ "buy" \in Sides
BY DEF VetInv, Vetted, IInv, BookTypeOK, Sides

\* PlaceOrder: calculateHold vets the order it lets in.
LEMMA PlaceOrderVet ==
  ASSUME VetInv, NEW h \in Handlers, NEW o \in Incoming, PlaceOrder(h, o)
  PROVE  VetInv'
<1>1. IInv' /\ UNCHANGED book
  BY PlaceOrderInv DEF VetInv, PlaceOrder
<1>3. \/ Goes(h, Idle)
      \/ ~HoldRefused(o) /\ Goes(h, [at |-> "enter", order |-> o, hold |-> CalculateHold(o)])
  BY DEF PlaceOrder, Done
<1>4. ~HoldRefused(o) => VettedOrder(o)
  BY DEF HoldRefused, VettedOrder
<1>5. VettedBids(book'["buy"])
  BY <1>1, BidsType
<1>6. CASE Goes(h, Idle)
  BY <1>1, <1>5, <1>6, IdleVetted, VetMoves
<1>7. CASE ~HoldRefused(o) /\ Goes(h, [at |-> "enter", order |-> o, hold |-> CalculateHold(o)])
  <2> DEFINE to == [at |-> "enter", order |-> o, hold |-> CalculateHold(o)]
  <2>1. VettedTask(to)
    BY <1>4, <1>7 DEF VettedTask
  <2> HIDE DEF to
  <2> QED
    BY <1>1, <1>5, <1>7, <2>1, VetMoves DEF to
<1> QED
  BY <1>3, <1>6, <1>7

\* MatchOrder: the fills of a vetted order fit, and so does what of it rests.
LEMMA MatchOrderVet ==
  ASSUME VetInv, NEW h \in Handlers, MatchOrder(h)
  PROVE  VetInv'
<1> DEFINE o == task[h].order
           queue == book[Opposite(o.side)]
           to == Matched(o, task[h].hold, queue)
<1>1. IInv'
  BY MatchOrderInv DEF VetInv
<1>2. task[h].at = "match"
  BY DEF MatchOrder
<1>3. o \in Incoming /\ o.side \in Sides /\ VettedOrder(o)
  BY <1>2, TaskParts, IncomingType DEF VetInv, IInv, Vetted, VettedTask
<1>4. CASE DoneUnlocking(h) /\ UNCHANGED book
  <2>1. Goes(h, Idle) /\ VettedBids(book'["buy"])
    BY <1>4, BidsType DEF DoneUnlocking, Done
  <2> QED
    BY <1>1, <2>1, IdleVetted, VetMoves
<1>5. CASE ~OrderRejected(o) /\ book' = AfterPlace(o, book) /\ Goes(h, to)
  <2>1. o.type = "limit" \/ o.type = "market"
    BY <1>3, <1>5, TypesOf DEF OrderRejected
  <2>2. Opposite(o.side) \in Sides /\ queue \in Seq(Entries)
    BY <1>3, OppositeSide, BidsType
  <2>3. o.side = "sell" => VettedBids(queue)
    BY BidsType DEF Opposite
  <2>4. o.type = "limit" => VettedFills(Fills(o, queue))
    <3> HIDE DEF o, queue
    <3> QED
      BY <1>3, <2>2, <2>3, FillsVetted
  <2>5. VettedTask(to)
    BY <2>1, <2>4 DEF VettedTask, Matched
  <2>6. VettedBids(book'["buy"])
    <3> DEFINE left == Unfilled(o, queue)
               e == Entry(o, left)
    <3>0. BookTypeOK
      BY DEF VetInv, IInv
    <3>1. CASE o.side = "sell"
      <4>1. book'["buy"] = AfterFills(o, book["buy"])
        BY <1>3, <1>5, <3>0, <3>1, PlacedSides DEF Opposite
      <4> QED
        BY <1>3, <4>1, BidsType, LeftVetted
    <3>2. CASE o.side = "buy"
      <4>1. \/ o.type = "limit" /\ book'["buy"] = Rest("buy", book["buy"], e)
            \/ book'["buy"] = book["buy"]
        BY <1>3, <1>5, <3>0, <3>2, PlacedSides
      <4>2. left \in 0..o.quantity
        <5>1. queue \in Seq(EntrySet(OrderIds, Users)) /\ o.quantity \in Nat
          BY <1>3, <2>2, IncomingType, BookTypes
        <5> HIDE DEF queue, o
        <5> QED
          BY <5>1, TakenTotal
      <4>3. left \in Nat /\ left <= o.quantity /\ o.quantity \in Nat /\ o.price \in Nat
        <5>1. o.quantity \in Nat /\ o.price \in Nat
          BY <1>3, IncomingType
        <5> HIDE DEF left, o
        <5> QED
          BY <4>2, <5>1
      <4>4. e \in Entries /\ e.remaining = left /\ e.price = o.price
        <5>1. o.owner \in Users /\ o.id \in OrderIds
          BY <1>3, IncomingType
        <5> HIDE DEF left, o
        <5> QED
          BY <4>3, <5>1 DEF Entry, Entries
      <4>5. o.type = "limit" => ~Overflows(e.remaining, e.price)
        <5>1. o.type = "limit" => ~Overflows(o.quantity, o.price)
          BY <1>3, <3>2 DEF VettedOrder
        <5> HIDE DEF left, o, e
        <5> QED
          BY <4>3, <4>4, <5>1, SmallerFits
      <4> HIDE DEF e
      <4> QED
        BY <4>1, <4>4, <4>5, BidsType, RestVetted
    <3> QED
      BY <1>3, <3>1, <3>2 DEF Sides
  <2> HIDE DEF to
  <2> QED
    BY <1>1, <1>5, <2>5, <2>6, VetMoves
<1> QED
  BY <1>4, <1>5 DEF MatchOrder, Matched

\* Every other step of a request: its order and its matches stay, and of the
\* bids some may go or stand elsewhere.
LEMMA PlacementVet ==
  ASSUME VetInv, NEW h \in Handlers,
         EnterPlace(h) \/ SettleQuote(h) \/ Panic(h) \/ SettleBase(h) \/ FinishPlace(h)
  PROVE  VetInv'
<1>1. IInv'
  BY EnterPlaceInv, SettleQuoteInv, PanicInv, SettleBaseInv, FinishPlaceInv DEF VetInv
<1>2. UNCHANGED book
  BY DEF EnterPlace, SettleQuote, Panic, SettleBase, FinishPlace
<1>3. task[h] \in Tasks /\ VettedTask(task[h])
  BY DEF VetInv, IInv, TaskTypeOK, Vetted
<1>4. VettedBids(book'["buy"])
  BY <1>2, BidsType
<1>5. \E to : Goes(h, to) /\ VettedTask(to)
  <2>1. CASE EnterPlace(h)
    <3>1. task[h].at = "enter" /\ (Goes(h, Idle) \/ Goes(h, [task[h] EXCEPT !.at = "match"]))
      BY <2>1 DEF EnterPlace, Done
    <3>2. VettedTask([task[h] EXCEPT !.at = "match"])
      BY <1>3, <3>1, TaskShape DEF VettedTask, Entering
    <3> QED
      BY <3>1, <3>2, IdleVetted
  <2>2. CASE SettleQuote(h)
    <3>1. task[h].at = "quote" /\ Goes(h, [task[h] EXCEPT !.at = "base"])
      BY <2>2 DEF SettleQuote
    <3>2. VettedTask([task[h] EXCEPT !.at = "base"])
      BY <1>3, <3>1, TaskShape DEF VettedTask, Settling
    <3> QED
      BY <3>1, <3>2
  <2>3. CASE Panic(h)
    <3>1. Goes(h, Idle)
      BY <2>3 DEF Panic, DoneUnlocking, Done
    <3> QED
      BY <3>1, IdleVetted
  <2>4. CASE SettleBase(h)
    <3>1. /\ task[h].at = "base"
          /\ \/ Goes(h, [task[h] EXCEPT !.at = "quote", !.next = @ + 1])
             \/ Goes(h, [task[h] EXCEPT !.at = "finish"])
      BY <2>4 DEF SettleBase
    <3>2. /\ VettedTask([task[h] EXCEPT !.at = "quote", !.next = @ + 1])
          /\ VettedTask([task[h] EXCEPT !.at = "finish"])
      BY <1>3, <3>1, TaskShape DEF VettedTask, Settling
    <3> QED
      BY <3>1, <3>2
  <2>5. CASE FinishPlace(h)
    <3>1. Goes(h, Idle) \/ Goes(h, [at |-> "evict"])
      BY <2>5 DEF FinishPlace, DoneUnlocking, Done
    <3>2. VettedTask([at |-> "evict"])
      BY DEF VettedTask
    <3> QED
      BY <3>1, <3>2, IdleVetted
  <2> QED
    BY <2>1, <2>2, <2>3, <2>4, <2>5
<1> QED
  BY <1>1, <1>4, <1>5, VetMoves

\* EvictLevels: fewer bids.
LEMMA EvictLevelsVet ==
  ASSUME VetInv, NEW h \in Handlers, EvictLevels(h)
  PROVE  VetInv'
<1> DEFINE q == book["buy"]
           P == {i \in DOMAIN q : Rank("buy", q, i) < MaxLevels}
           gone == UNION {EvictedFrom(s) : s \in Sides}
           full == [at |-> "evicted", gone |-> gone]
<1>1. IInv'
  BY EvictLevelsInv DEF VetInv
<1>2. VettedBids(book'["buy"])
  <2>1. book'["buy"] = Sub(q, P)
    BY BidsType DEF EvictLevels, AfterEvict, Kept
  <2> QED
    BY <2>1, BidsType, SubVetted
<1>3. Goes(h, Idle) \/ Goes(h, full)
  BY DEF EvictLevels, DoneUnlocking, Done
<1>4. VettedTask(full)
  BY DEF VettedTask
<1> HIDE DEF full
<1> QED
  BY <1>1, <1>2, <1>3, <1>4, IdleVetted, VetMoves

\* CancelInBook: fewer bids, or the same ones in another order.
LEMMA CancelInBookVet ==
  ASSUME VetInv, NEW h \in Handlers, CancelInBook(h)
  PROVE  VetInv'
<1> DEFINE id == task[h].id
           q == book["buy"]
           P == {i \in DOMAIN q : q[i].id # id}
           out == Without(id, book)
<1>1. IInv'
  BY CancelInBookInv DEF VetInv
<1>2. VettedBids(out["buy"]) /\ out \in [Sides -> Seq(Entries)]
  <2>1. out["buy"] = Sub(q, P)
    BY BidsType DEF Without
  <2>2. VettedBids(Sub(q, P))
    BY BidsType, SubVetted
  <2> QED
    BY <2>1, <2>2, BidsType, WithoutType, BookTypes
<1> HIDE DEF out, id
<1>3. ASSUME NEW s \in Sides, NEW e \in ToSet(book[s]),
             \/ /\ book' = out
                /\ Goes(h, [at |-> "refund", user |-> e.owner, side |-> s, entry |-> e])
             \/ /\ book' = [out EXCEPT ![s] = Rest(s, @, e)]
                /\ Done(h)
      PROVE  VetInv'
  <2> DEFINE to == [at |-> "refund", user |-> e.owner, side |-> s, entry |-> e]
  <2>1. VettedTask(to)
    BY DEF VettedTask
  <2>2. e \in Entries
    <3>1. book[s] \in Seq(Entries)
      BY BidsType
    <3> QED
      BY <3>1 DEF ToSet
  <2>3. CASE book' = out /\ Goes(h, to)
    <3> HIDE DEF to
    <3> QED
      BY <1>1, <1>2, <2>1, <2>3, VetMoves
  <2>4. CASE book' = [out EXCEPT ![s] = Rest(s, @, e)] /\ Done(h)
    <3>1. VettedBids(book'["buy"])
      <4>1. CASE s = "buy"
        <5>1. book'["buy"] = Rest("buy", out["buy"], e)
          BY <1>2, <2>4, <4>1
        <5>2. ~Overflows(e.remaining, e.price)
          BY <4>1, BidsType DEF ToSet, VettedBids
        <5>3. out["buy"] \in Seq(Entries)
          BY <1>2, BidsType
        <5> QED
          BY <1>2, <2>2, <5>1, <5>2, <5>3, RestVetted
      <4>2. CASE s # "buy"
        <5>1. book'["buy"] = out["buy"]
          BY <1>2, <2>4, <4>2, BidsType
        <5> QED
          BY <1>2, <5>1
      <4> QED
        BY <4>1, <4>2
    <3> QED
      BY <1>1, <2>4, <3>1, IdleVetted, VetMoves DEF Done
  <2> QED
    BY <1>3, <2>3, <2>4
<1>4. CASE Done(h) /\ UNCHANGED book
  <2>1. VettedBids(book'["buy"]) /\ Goes(h, Idle)
    BY <1>4, BidsType DEF Done
  <2> QED
    BY <1>1, <2>1, IdleVetted, VetMoves
<1>5. CASE \E s \in Sides : \E e \in ToSet(book[s]) :
             /\ e.id = id
             /\ IF e.owner = task[h].user
                THEN /\ book' = Without(id, book)
                     /\ Goes(h, [at |-> "refund", user |-> e.owner, side |-> s, entry |-> e])
                ELSE /\ book' = [Without(id, book) EXCEPT ![s] = Rest(s, @, e)]
                     /\ Done(h)
  <2>1. PICK s \in Sides : \E e \in ToSet(book[s]) :
          \/ /\ book' = out
             /\ Goes(h, [at |-> "refund", user |-> e.owner, side |-> s, entry |-> e])
          \/ /\ book' = [out EXCEPT ![s] = Rest(s, @, e)]
             /\ Done(h)
    BY <1>5 DEF out
  <2>2. PICK e \in ToSet(book[s]) :
          \/ /\ book' = out
             /\ Goes(h, [at |-> "refund", user |-> e.owner, side |-> s, entry |-> e])
          \/ /\ book' = [out EXCEPT ![s] = Rest(s, @, e)]
             /\ Done(h)
    BY <2>1
  <2> QED
    BY <1>3, <2>2
<1> QED
  BY <1>4, <1>5 DEF CancelInBook, id

\* RefundEvicted, CancelRefund and CancelUntrack leave the book alone.
LEMMA RefundVet ==
  ASSUME VetInv, NEW h \in Handlers, RefundEvicted(h) \/ CancelRefund(h) \/ CancelUntrack(h)
  PROVE  VetInv'
<1>1. IInv'
  BY RefundEvictedInv, CancelRefundInv, CancelUntrackInv DEF VetInv
<1>2. UNCHANGED book
  BY DEF RefundEvicted, CancelRefund, CancelUntrack
<1>3. task[h] \in Tasks
  BY DEF VetInv, IInv, TaskTypeOK
<1>4. VettedBids(book'["buy"])
  BY <1>2, BidsType
<1>5. \E to : Goes(h, to) /\ VettedTask(to)
  <2>1. CASE RefundEvicted(h)
    <3>1. task[h].at = "evicted"
          /\ \E rest : Goes(h, Idle) \/ Goes(h, [task[h] EXCEPT !.gone = rest])
      BY <2>1 DEF RefundEvicted, DoneUnlocking, Done
    <3>2. PICK rest : Goes(h, Idle) \/ Goes(h, [task[h] EXCEPT !.gone = rest])
      BY <3>1
    <3>3. VettedTask([task[h] EXCEPT !.gone = rest])
      BY <1>3, <3>1, TaskShape DEF VettedTask, Evicting
    <3> QED
      BY <3>2, <3>3, IdleVetted
  <2>2. CASE CancelRefund(h)
    <3>1. task[h].at = "refund" /\ Goes(h, [task[h] EXCEPT !.at = "untrack"])
      BY <2>2 DEF CancelRefund
    <3>2. VettedTask([task[h] EXCEPT !.at = "untrack"])
      BY <1>3, <3>1, TaskShape DEF VettedTask, Cancelled
    <3> QED
      BY <3>1, <3>2
  <2>3. CASE CancelUntrack(h)
    BY <2>3, IdleVetted DEF CancelUntrack, Done
  <2> QED
    BY <2>1, <2>2, <2>3
<1> QED
  BY <1>1, <1>4, <1>5, VetMoves

\* CancelOrder: a lookup.
LEMMA CancelOrderVet ==
  ASSUME VetInv, NEW h \in Handlers, NEW u \in Users, NEW id \in 1..issued,
         CancelOrder(h, u, id)
  PROVE  VetInv'
<1>1. IInv' /\ UNCHANGED book
  BY CancelOrderInv DEF VetInv, CancelOrder
<1>2. Goes(h, [at |-> "cancel", user |-> u, id |-> id])
      /\ VettedTask([at |-> "cancel", user |-> u, id |-> id])
  BY DEF CancelOrder, VettedTask
<1>3. VettedBids(book'["buy"])
  BY <1>1, BidsType
<1> QED
  BY <1>1, <1>2, <1>3, VetMoves

\* Nothing to vet with an empty book and no request under way.
LEMMA AtRestVetted == AllIdle => Vetted
<1> SUFFICES ASSUME AllIdle
             PROVE  Vetted
  OBVIOUS
<1>1. book["buy"] = <<>>
  BY DEF AllIdle, Sides
<1>2. VettedBids(book["buy"])
  BY <1>1 DEF VettedBids
<1> QED
  BY <1>2, IdleVetted DEF Vetted, AllIdle

\* The same after a restart.
LEMMA AtRestVettedNext == AllIdle' => Vetted'
BY AtRestVetted, PTL

\* Every step keeps what calculateHold has vetted.
LEMMA NextVet == VetInv /\ [Next]_vars => VetInv'
<1> SUFFICES ASSUME VetInv, [Next]_vars
             PROVE  VetInv'
  OBVIOUS
<1>1. ASSUME NEW h \in Handlers, NEW o \in Incoming, PlaceOrder(h, o)
      PROVE  VetInv'
  BY <1>1, PlaceOrderVet
<1>2. ASSUME NEW h \in Handlers, NEW u \in Users, NEW id \in 1..issued,
             CancelOrder(h, u, id)
      PROVE  VetInv'
  BY <1>2, CancelOrderVet
<1>3. ASSUME NEW h \in Handlers, Step(h)
      PROVE  VetInv'
  BY <1>3, MatchOrderVet, PlacementVet, EvictLevelsVet, CancelInBookVet, RefundVet DEF Step
<1>4. IInv'
  BY NextInv DEF VetInv
<1>5. CASE UNCHANGED <<book, task>>
  BY <1>4, <1>5 DEF VetInv, Vetted
<1>6. ASSUME NEW u \in Users, NEW t \in Tokens, DepositFunds(u, t) \/ WithdrawFunds(u, t)
      PROVE  VetInv'
  BY <1>5, <1>6 DEF DepositFunds, WithdrawFunds
<1>7. CASE UNCHANGED vars
  BY <1>5, <1>7 DEF vars
<1>8. CASE Restart
  <2>1. AllIdle'
    BY <1>8 DEF Restart, AllIdle
  <2> QED
    BY <1>4, <2>1, AtRestVettedNext DEF VetInv
<1>9. \A h \in Handlers, id \in 1..MaxOrders : CancelRejected(h, id) => UNCHANGED vars
  BY DEF CancelRejected
<1> QED
  BY <1>1, <1>2, <1>3, <1>6, <1>7, <1>8, <1>9 DEF Next

\* At the start nothing has come in.
LEMMA InitVet == Init => VetInv
BY InitInv, AtRestVetted DEF Init, AllIdle, VetInv

\* What calculateHold has vetted holds at all times.
LEMMA VetInvariance == Spec => []VetInv
BY InitVet, NextVet, PTL DEF Spec

-----------------------------------------------------------------------------

Settles == {"quote", "base", "finish"}

\* The order a request places: its ID while e.orders does not have it, while it
\* cannot rest yet, and once it rests or may rest but is not tracked yet.
Placed(k) == IF k.at \in {"enter", "match"} \cup Settles THEN {k.order.id} ELSE {}

Unrested(k) == IF k.at \in {"enter", "match"} THEN {k.order.id} ELSE {}

Comes(k) == k.at \in Settles /\ k.left > 0 /\ k.order.type # "market"

Coming(k) == IF Comes(k) THEN {k.order.id} ELSE {}

\* The order a cancel has looked up, and those a request has taken out of the
\* book and not taken off the tracking yet.
Looked(k) == IF k.at = "cancel" THEN {k.id} ELSE {}

Out(k) ==
  CASE k.at = "evicted" -> {x.entry.id : x \in k.gone}
    [] k.at \in {"refund", "untrack"} -> {k.entry.id}
    [] OTHER -> {}

\* Which order belongs to whom, as a request has it.
Named(k) ==
  CASE k.at \in {"enter", "match"} -> {<<k.order.id, k.order.owner>>}
    [] k.at \in Settles ->
         {<<k.order.id, k.order.owner>>}
         \cup {<<k.fills[j].maker, k.fills[j].owner>> : j \in DOMAIN k.fills}
    [] k.at = "evicted" -> {<<x.entry.id, x.entry.owner>> : x \in k.gone}
    [] k.at \in {"refund", "untrack"} ->
         {<<k.entry.id, k.user>>, <<k.entry.id, k.entry.owner>>}
    [] OTHER -> {}

UserClaims == UNION {{<<i, u>> : i \in userOrders[u]} : u \in Users}

\* Which order belongs to whom, as the book, e.userOrders and the requests have
\* it together.
Claims ==
  QueueOwners(book["buy"]) \cup QueueOwners(book["sell"])
  \cup UserClaims \cup UNION {Named(task[h]) : h \in Handlers}

\* All that is known of an order names one owner, and IDs are given in turn.
Agreed ==
  /\ \A p, q \in Claims : p[1] = q[1] => p[2] = q[2]
  /\ \A p \in Claims : p[1] <= issued
  /\ \A h \in Handlers : \A i \in Looked(task[h]) : i <= issued

\* An order that is being placed is not tracked, not looked up, not taken out,
\* not in the book before it is matched, and placed by one request; and an order
\* that was taken out is not in the book.
Apart ==
  /\ \A g \in Handlers : Placed(task[g]) \cap orders = {}
  /\ \A g, h \in Handlers : Placed(task[g]) \cap (Out(task[h]) \cup Looked(task[h])) = {}
  /\ \A g \in Handlers : Unrested(task[g]) \cap RestingIds = {}
  /\ \A g, h \in Handlers : g # h => Placed(task[g]) \cap Placed(task[h]) = {}
  /\ \A h \in Handlers : Out(task[h]) \cap RestingIds = {}

\* No ID is twice in the book.
OneEach ==
  /\ \A s \in Sides : Once(book[s])
  /\ QueueIds(book["buy"]) \cap QueueIds(book["sell"]) = {}

\* e.orders and e.userOrders name the same orders, and what rests is tracked but
\* for the order that is being settled.
Tracked ==
  /\ orders = UNION {userOrders[u] : u \in Users}
  /\ RestingIds \subseteq orders \cup UNION {Coming(task[h]) : h \in Handlers}

\* Whoever is past the cap's check leaves room for one more, and the levels of a
\* side exceed the cap only until the eviction.
Unevicted(k) == k.at = "evict" \/ Comes(k)

LevelsFit == \A s \in Sides : Cardinality(Levels(book[s])) <= MaxLevels

OrdersFit == \A u \in Users : Cardinality(userOrders[u]) <= MaxOrdersPerUser

Admitted(k) ==
  k.at \in {"match"} \cup Settles
    => Cardinality(userOrders[k.order.owner]) < MaxOrdersPerUser

WithinCaps ==
  /\ OrdersFit
  /\ \A h \in Handlers : Admitted(task[h])
  /\ LevelsFit \/ \E h \in Handlers : Unevicted(task[h])

TrackInv == VetInv /\ Agreed /\ Apart /\ OneEach /\ Tracked /\ WithinCaps

-----------------------------------------------------------------------------

\* The IDs of the book, side by side.
LEMMA RestingSides == RestingIds = QueueIds(book["buy"]) \cup QueueIds(book["sell"])
BY DEF RestingIds, Resting, QueueIds, Sides

\* The same after a step.
LEMMA NextRestingSides == RestingIds' = QueueIds(book'["buy"]) \cup QueueIds(book'["sell"])
BY DEF RestingIds, Resting, QueueIds, Sides

\* What the request of h becomes, and that the others stay.
LEMMA OneGoes ==
  ASSUME TaskTypeOK, NEW h \in Handlers, NEW to, Goes(h, to)
  PROVE  task'[h] = to /\ \A g \in Handlers : g # h => task'[g] = task[g]
BY DEF TaskTypeOK, Goes

\* A request that ends knows of no order.
LEMMA IdleKnows ==
  /\ Placed(Idle) = {} /\ Unrested(Idle) = {} /\ Coming(Idle) = {} /\ Looked(Idle) = {}
  /\ Out(Idle) = {} /\ Named(Idle) = {} /\ ~Unevicted(Idle)
  /\ Admitted(Idle) /\ (Idle.at = "idle")
BY DEF Idle, Placed, Unrested, Comes, Coming, Looked, Out, Named, Unevicted, Admitted, Settles

\* The parts of what the requests know.
LEMMA UnrestedIsPlaced ==
  ASSUME NEW k
  PROVE  Unrested(k) \subseteq Placed(k) /\ Coming(k) \subseteq Placed(k)
BY DEF Unrested, Placed, Coming, Comes

\* A step that claims no more keeps the claims in agreement.
LEMMA AgreedMoves ==
  ASSUME TaskTypeOK, Agreed, NEW h \in Handlers, NEW to, Goes(h, to), UNCHANGED issued,
         Named(to) \subseteq Claims, UserClaims' \subseteq Claims,
         QueueOwners(book'["buy"]) \subseteq Claims, QueueOwners(book'["sell"]) \subseteq Claims,
         \A i \in Looked(to) : i <= issued
  PROVE  Agreed'
<1>1. task'[h] = to /\ \A g \in Handlers : g # h => task'[g] = task[g]
  BY OneGoes
<1>2. \A g \in Handlers : Named(task'[g]) \subseteq Claims
  <2>1. \A g \in Handlers : Named(task[g]) \subseteq Claims
    BY DEF Claims
  <2> QED
    BY <1>1, <2>1
<1>3. Claims' \subseteq Claims
  BY <1>2 DEF Claims
<1>4. \A g \in Handlers : \A i \in Looked(task'[g]) : i <= issued
  BY <1>1 DEF Agreed
<1> QED
  BY <1>3, <1>4 DEF Agreed

\* What a step may do to the IDs that are placed, looked up and taken out.
LEMMA ApartMoves ==
  ASSUME TaskTypeOK, Apart, NEW h \in Handlers, NEW to, Goes(h, to),
         Placed(to) \subseteq Placed(task[h]), Unrested(to) \subseteq Unrested(task[h]),
         Looked(to) \subseteq orders \cup Looked(task[h]),
         Out(to) \subseteq orders \cup Looked(task[h]) \cup Out(task[h]),
         Out(to) \cap RestingIds' = {},
         orders' \subseteq orders \cup (Placed(task[h]) \ Placed(to)),
         RestingIds' \subseteq RestingIds \cup (Unrested(task[h]) \ Unrested(to))
  PROVE  Apart'
<1>1. task'[h] = to /\ \A g \in Handlers : g # h => task'[g] = task[g]
  BY OneGoes
<1>2. \A g \in Handlers : Unrested(task[g]) \subseteq Placed(task[g])
  BY UnrestedIsPlaced
<1>3. \A g \in Handlers : /\ Placed(task'[g]) \subseteq Placed(task[g])
                          /\ Unrested(task'[g]) \subseteq Unrested(task[g])
  BY <1>1
<1>4. ASSUME NEW g \in Handlers
      PROVE  Placed(task'[g]) \cap orders' = {}
  <2>1. Placed(task[g]) \cap orders = {}
    BY DEF Apart
  <2>2. CASE g = h
    BY <1>1, <1>3, <2>1, <2>2
  <2>3. CASE g # h
    <3>1. Placed(task[g]) \cap Placed(task[h]) = {}
      BY <2>3 DEF Apart
    <3> QED
      BY <1>3, <2>1, <3>1
  <2> QED
    BY <2>2, <2>3
<1>5. ASSUME NEW g \in Handlers, NEW f \in Handlers
      PROVE  Placed(task'[g]) \cap (Out(task'[f]) \cup Looked(task'[f])) = {}
  <2>1. /\ Placed(task[g]) \cap (Out(task[f]) \cup Looked(task[f])) = {}
        /\ Placed(task[g]) \cap orders = {}
    BY DEF Apart
  <2>2. Out(task'[f]) \cup Looked(task'[f]) \subseteq orders \cup Out(task[f]) \cup Looked(task[f])
    BY <1>1
  <2> QED
    BY <1>3, <2>1, <2>2
<1>6. ASSUME NEW g \in Handlers
      PROVE  Unrested(task'[g]) \cap RestingIds' = {}
  <2>1. Unrested(task[g]) \cap RestingIds = {}
    BY DEF Apart
  <2>2. CASE g = h
    BY <1>1, <1>3, <2>1, <2>2
  <2>3. CASE g # h
    <3>1. Placed(task[g]) \cap Placed(task[h]) = {}
      BY <2>3 DEF Apart
    <3> QED
      BY <1>2, <1>3, <2>1, <3>1
  <2> QED
    BY <2>2, <2>3
<1>7. ASSUME NEW g \in Handlers, NEW f \in Handlers, g # f
      PROVE  Placed(task'[g]) \cap Placed(task'[f]) = {}
  <2>1. Placed(task[g]) \cap Placed(task[f]) = {}
    BY <1>7 DEF Apart
  <2> QED
    BY <1>3, <2>1
<1>8. ASSUME NEW g \in Handlers
      PROVE  Out(task'[g]) \cap RestingIds' = {}
  <2>1. CASE g = h
    BY <1>1, <2>1
  <2>2. CASE g # h
    <3>1. Out(task'[g]) = Out(task[g])
      BY <1>1, <2>2
    <3>2. Out(task[g]) \cap RestingIds = {} /\ Placed(task[h]) \cap Out(task[g]) = {}
      BY DEF Apart
    <3> QED
      BY <1>2, <3>1, <3>2
  <2> QED
    BY <2>1, <2>2
<1> QED
  BY <1>4, <1>5, <1>6, <1>7, <1>8 DEF Apart

\* What rests after a step is tracked, or comes, or was already left to another
\* request that tracks it.
LEMMA TrackedMoves ==
  ASSUME TaskTypeOK, Tracked, NEW h \in Handlers, NEW to, Goes(h, to),
         orders' = UNION {userOrders'[u] : u \in Users},
         \A i \in RestingIds' : \/ i \in orders' \cup Coming(to)
                                \/ i \in RestingIds /\ i \notin orders \cup Coming(task[h])
  PROVE  Tracked'
<1>1. task'[h] = to /\ \A g \in Handlers : g # h => task'[g] = task[g]
  BY OneGoes
<1>2. ASSUME NEW i \in RestingIds', i \notin orders'
      PROVE  \E g \in Handlers : i \in Coming(task'[g])
  <2>1. CASE i \in Coming(to)
    BY <1>1, <2>1
  <2>2. CASE i \in RestingIds /\ i \notin orders \cup Coming(task[h])
    <3>1. PICK g \in Handlers : i \in Coming(task[g])
      BY <2>2 DEF Tracked
    <3>2. g # h
      BY <2>2, <3>1
    <3> QED
      BY <1>1, <3>1, <3>2
  <2> QED
    BY <1>2, <2>1, <2>2
<1> QED
  BY <1>2 DEF Tracked

\* The tracked orders of a user are finitely many.
LEMMA OrdersFinite ==
  ASSUME BookTypeOK, NEW u \in Users
  PROVE  /\ IsFiniteSet(userOrders[u]) /\ Cardinality(userOrders[u]) \in Nat
         /\ \A X \in SUBSET userOrders[u] :
              Cardinality(X) \in Nat /\ Cardinality(X) <= Cardinality(userOrders[u])
<1>1. userOrders[u] \in SUBSET OrderIds
  BY DEF BookTypeOK
<1>2. IsFiniteSet(OrderIds)
  BY ExtensionAssumption, FS_Interval DEF OrderIds
<1>3. IsFiniteSet(userOrders[u])
  BY <1>1, <1>2, FS_Subset
<1> QED
  BY <1>3, FS_Subset, FS_CardinalityType

\* A step that tracks no more, with the caps watched by the request that makes it.
LEMMA CapMoves ==
  ASSUME IInv, WithinCaps, NEW h \in Handlers, NEW to, Goes(h, to),
         \A u \in Users : userOrders'[u] \subseteq userOrders[u],
         to.at \in {"match"} \cup Settles =>
           to.order.owner \in Users /\ Cardinality(userOrders[to.order.owner]) < MaxOrdersPerUser,
         \/ Unevicted(to) \/ LevelsFit'
         \/ ~Unevicted(task[h]) /\ (LevelsFit => LevelsFit')
  PROVE  WithinCaps'
<1>1. task'[h] = to /\ \A g \in Handlers : g # h => task'[g] = task[g]
  BY OneGoes DEF IInv
<1>2. \A u \in Users : /\ Cardinality(userOrders'[u]) <= Cardinality(userOrders[u])
                       /\ Cardinality(userOrders'[u]) \in Nat /\ Cardinality(userOrders[u]) \in Nat
  BY OrdersFinite DEF IInv
<1>3. MaxOrdersPerUser \in Nat
  BY ExtensionAssumption
<1>4. OrdersFit'
  BY <1>2, <1>3 DEF WithinCaps, OrdersFit
<1>5. ASSUME NEW g \in Handlers
      PROVE  Admitted(task[g])'
  <2> DEFINE k == task'[g]
             u == k.order.owner
  <2> SUFFICES ASSUME k.at \in {"match"} \cup Settles
               PROVE  Cardinality(userOrders'[u]) < MaxOrdersPerUser
    BY DEF Admitted
  <2>1. u \in Users /\ Cardinality(userOrders[u]) < MaxOrdersPerUser
    <3>1. CASE g = h
      BY <1>1, <3>1
    <3>2. CASE g # h
      <4>1. k = task[g] /\ task[g].order \in Incoming
        BY <1>1, <3>2, TaskParts DEF IInv, Settles
      <4>2. task[g].order.owner \in Users
        BY <4>1, IncomingType
      <4>3. Admitted(task[g])
        BY DEF WithinCaps
      <4> QED
        BY <4>1, <4>2, <4>3 DEF Admitted
    <3> QED
      BY <3>1, <3>2
  <2> HIDE DEF k, u
  <2> QED
    BY <1>2, <1>3, <2>1
<1>6. LevelsFit' \/ \E g \in Handlers : Unevicted(task'[g])
  <2>1. CASE Unevicted(to)
    BY <1>1, <2>1
  <2>2. CASE ~Unevicted(task[h]) /\ (LevelsFit => LevelsFit')
    <3>1. LevelsFit \/ \E g \in Handlers : Unevicted(task[g])
      BY DEF WithinCaps
    <3> QED
      BY <1>1, <2>2, <3>1
  <2> QED
    BY <2>1, <2>2
<1> QED
  BY <1>4, <1>5, <1>6 DEF WithinCaps

-----------------------------------------------------------------------------

\* Every order a request knows is one it claims.
LEMMA NamedIds ==
  ASSUME NEW k, NEW i \in Placed(k) \cup Out(k)
  PROVE  \E p \in Named(k) : p[1] = i
<1>1. CASE i \in Placed(k)
  <2>1. k.at \in {"enter", "match"} \cup Settles /\ i = k.order.id
    BY <1>1 DEF Placed
  <2>2. <<k.order.id, k.order.owner>> \in Named(k)
    BY <2>1 DEF Named, Settles
  <2> QED
    BY <2>1, <2>2
<1>2. CASE i \in Out(k)
  <2>1. CASE k.at = "evicted"
    <3>1. PICK x \in k.gone : i = x.entry.id
      BY <1>2, <2>1 DEF Out
    <3>2. <<x.entry.id, x.entry.owner>> \in Named(k)
      BY <2>1 DEF Named, Settles
    <3> QED
      BY <3>1, <3>2
  <2>2. CASE k.at \in {"refund", "untrack"}
    <3>1. i = k.entry.id /\ <<k.entry.id, k.user>> \in Named(k)
      BY <1>2, <2>2 DEF Out, Named, Settles
    <3> QED
      BY <3>1
  <2> QED
    BY <1>2, <2>1, <2>2 DEF Out
<1> QED
  BY <1>1, <1>2

\* An order of the book is claimed by its owner, a tracked one by its user.
LEMMA BookIds ==
  ASSUME NEW i \in RestingIds
  PROVE  \E p \in Claims : p[1] = i
<1>1. PICK s \in Sides : i \in QueueIds(book[s])
  BY RestingSides DEF Sides
<1>2. PICK j \in DOMAIN book[s] : i = book[s][j].id
  BY <1>1 DEF QueueIds
<1>3. <<book[s][j].id, book[s][j].owner>> \in Claims
  BY DEF QueueOwners, Claims, Sides
<1> QED
  BY <1>2, <1>3

\* A tracked order is claimed for the user it is tracked for.
LEMMA UserIds ==
  ASSUME NEW u \in Users, NEW i \in userOrders[u]
  PROVE  <<i, u>> \in Claims
BY DEF UserClaims, Claims

\* An ID that was not given yet is known nowhere.
LEMMA NewIsUnknown ==
  ASSUME Agreed, Tracked, NEW i, ~(i <= issued)
  PROVE  /\ i \notin orders /\ i \notin RestingIds
         /\ \A g \in Handlers :
              i \notin Placed(task[g]) /\ i \notin Out(task[g]) /\ i \notin Looked(task[g])
         /\ \A p \in Claims : p[1] # i
<1>1. \A p \in Claims : p[1] # i
  BY DEF Agreed
<1>2. i \notin orders
  <2> SUFFICES ASSUME i \in orders
               PROVE  FALSE
    OBVIOUS
  <2>1. PICK u \in Users : i \in userOrders[u]
    BY DEF Tracked
  <2>2. <<i, u>> \in Claims
    BY <2>1, UserIds
  <2> QED
    BY <1>1, <2>2
<1>3. i \notin RestingIds
  BY <1>1, BookIds
<1>4. \A g \in Handlers : i \notin Placed(task[g]) /\ i \notin Out(task[g])
  <2>1. \A g \in Handlers : Named(task[g]) \subseteq Claims
    BY DEF Claims
  <2> QED
    BY <1>1, <2>1, NamedIds
<1>5. \A g \in Handlers : i \notin Looked(task[g])
  BY DEF Agreed
<1> QED
  BY <1>1, <1>2, <1>3, <1>4, <1>5

\* A step that leaves the book alone and at most takes orders off the tracking
\* that do not rest, its request going on with what it knew.
LEMMA QuietTrack ==
  ASSUME TrackInv, VetInv', NEW h \in Handlers, NEW to, Goes(h, to), UNCHANGED <<book, issued>>,
         orders' = UNION {userOrders'[u] : u \in Users},
         \A u \in Users : userOrders'[u] \subseteq userOrders[u],
         \A i \in orders \ orders' : i \notin RestingIds,
         Named(to) \subseteq Claims,
         Placed(to) \subseteq Placed(task[h]), Unrested(to) \subseteq Unrested(task[h]),
         Looked(to) \subseteq {i \in orders : i <= issued} \cup Looked(task[h]),
         Out(to) \subseteq Out(task[h]),
         Coming(task[h]) \subseteq Coming(to), Unevicted(task[h]) => Unevicted(to),
         to.at \in {"match"} \cup Settles =>
           to.order.owner \in Users /\ Cardinality(userOrders[to.order.owner]) < MaxOrdersPerUser
  PROVE  TrackInv'
<1>1. /\ IInv /\ TaskTypeOK /\ Agreed /\ Apart /\ OneEach /\ Tracked /\ WithinCaps
  BY DEF TrackInv, VetInv, IInv
<1>2. RestingIds' = RestingIds
  BY DEF RestingIds
<1>3. orders' \subseteq orders
  BY <1>1 DEF Tracked
<1>4. Agreed'
  <2>1. UserClaims' \subseteq UserClaims
    BY DEF UserClaims
  <2>2. /\ UserClaims \subseteq Claims
        /\ QueueOwners(book["buy"]) \subseteq Claims /\ QueueOwners(book["sell"]) \subseteq Claims
    BY DEF Claims
  <2>3. \A i \in Looked(to) : i <= issued
    BY <1>1 DEF Agreed
  <2> QED
    BY <1>1, <2>1, <2>2, <2>3, AgreedMoves
<1>5. Apart'
  <2>1. Out(to) \cap RestingIds' = {}
    BY <1>1, <1>2 DEF Apart
  <2> QED
    BY <1>1, <1>2, <1>3, <2>1, ApartMoves
<1>6. OneEach'
  BY <1>1 DEF OneEach
<1>7. Tracked'
  <2>1. \A i \in RestingIds' : \/ i \in orders' \cup Coming(to)
                               \/ i \in RestingIds /\ i \notin orders \cup Coming(task[h])
    BY <1>2
  <2> QED
    BY <1>1, <2>1, TrackedMoves
<1>8. WithinCaps'
  <2>1. LevelsFit => LevelsFit'
    BY DEF LevelsFit
  <2> QED
    BY <1>1, <2>1, CapMoves
<1> QED
  BY <1>4, <1>5, <1>6, <1>7, <1>8 DEF TrackInv

\* The same for a step that takes nothing off the tracking.
LEMMA SilentTrack ==
  ASSUME TrackInv, VetInv', NEW h \in Handlers, NEW to, Goes(h, to),
         UNCHANGED <<book, trackVars, issued>>,
         Named(to) \subseteq Claims,
         Placed(to) \subseteq Placed(task[h]), Unrested(to) \subseteq Unrested(task[h]),
         Looked(to) \subseteq {i \in orders : i <= issued} \cup Looked(task[h]),
         Out(to) \subseteq Out(task[h]),
         Coming(task[h]) \subseteq Coming(to), Unevicted(task[h]) => Unevicted(to),
         to.at \in {"match"} \cup Settles =>
           to.order.owner \in Users /\ Cardinality(userOrders[to.order.owner]) < MaxOrdersPerUser
  PROVE  TrackInv'
<1>1. orders' = UNION {userOrders'[u] : u \in Users}
  BY DEF TrackInv, Tracked, trackVars
<1>2. \A u \in Users : userOrders'[u] \subseteq userOrders[u]
  BY DEF trackVars
<1>3. \A i \in orders \ orders' : i \notin RestingIds
  BY DEF trackVars
<1>4. UNCHANGED <<book, issued>>
  OBVIOUS
<1> QED
  BY <1>1, <1>2, <1>3, <1>4, QuietTrack

\* A request that ends knows of nothing any more, which needs care only while
\* its order comes or its levels are still to be evicted.
LEMMA EndTrack ==
  ASSUME TrackInv, VetInv', NEW h \in Handlers, Goes(h, Idle),
         UNCHANGED <<book, trackVars, issued>>, Coming(task[h]) = {}, ~Unevicted(task[h])
  PROVE  TrackInv'
<1>1. Idle.at \notin {"match"} \cup Settles
  BY IdleKnows DEF Settles
<1> QED
  BY <1>1, IdleKnows, SilentTrack

\* The claims of a request are among the claims.
LEMMA NamedClaims ==
  ASSUME NEW h \in Handlers
  PROVE  Named(task[h]) \subseteq Claims
BY DEF Claims

\* EnterPlace: the cap is checked before the request may go on.
LEMMA EnterPlaceTrack ==
  ASSUME TrackInv, NEW h \in Handlers, EnterPlace(h)
  PROVE  TrackInv'
<1> DEFINE k == task[h]
           to == [k EXCEPT !.at = "match"]
<1>1. VetInv' /\ IInv /\ UNCHANGED <<book, trackVars, issued>> /\ k.at = "enter"
  <2>1. VetInv'
    BY PlacementVet DEF TrackInv
  <2>2. IInv
    BY DEF TrackInv, VetInv
  <2>3. UNCHANGED <<book, trackVars, issued>> /\ k.at = "enter"
    BY DEF EnterPlace, bounds
  <2> QED
    BY <2>1, <2>2, <2>3
<1>2. Goes(h, Idle) \/ (Goes(h, to) /\ ~AtCap(k.order.owner))
  <2>1. \/ Done(h)
        \/ ~AtCap(k.order.owner) /\ Goes(h, to)
    BY Zenon DEF EnterPlace
  <2> QED
    BY <2>1 DEF Done
<1>3. Coming(k) = {} /\ ~Unevicted(k) /\ Named(k) \subseteq Claims
  BY <1>1, NamedClaims DEF Coming, Comes, Unevicted, Settles
<1>4. CASE Goes(h, Idle)
  BY <1>1, <1>3, <1>4, EndTrack
<1>5. CASE Goes(h, to) /\ ~AtCap(k.order.owner)
  <2>1. k \in Entering /\ k.order.owner \in Users
    BY <1>1, TaskParts, IncomingType DEF IInv
  <2>2. to.at = "match" /\ to.order = k.order
    BY <2>1 DEF Entering
  <2>3. Cardinality(userOrders[k.order.owner]) < MaxOrdersPerUser
    <3>1. Cardinality(userOrders[k.order.owner]) \in Nat /\ MaxOrdersPerUser \in Nat
      BY <1>1, <2>1, OrdersFinite, ExtensionAssumption DEF IInv
    <3> QED
      BY <1>5, <3>1 DEF AtCap
  <2> HIDE DEF to, k
  <2>4. /\ Placed(to) = Placed(k) /\ Unrested(to) = Unrested(k) /\ Named(to) = Named(k)
        /\ Looked(to) = {} /\ Out(to) = {}
    BY <1>1, <2>2 DEF Placed, Unrested, Named, Looked, Out, Settles
  <2> QED
    BY <1>1, <1>3, <1>5, <2>1, <2>2, <2>3, <2>4, SilentTrack DEF k
<1> QED
  BY <1>2, <1>4, <1>5

\* Every claimed ID is a number.
LEMMA ClaimIds ==
  ASSUME IInv
  PROVE  \A p \in Claims : p[1] \in Nat
<1>1. OrderIds \subseteq Nat
  BY ExtensionAssumption DEF OrderIds
<1>2. \A s \in Sides : \A p \in QueueOwners(book[s]) : p[1] \in Nat
  <2> SUFFICES ASSUME NEW s \in Sides, NEW i \in DOMAIN book[s]
               PROVE  book[s][i].id \in Nat
    BY DEF QueueOwners
  <2>1. book[s] \in Seq(Entries)
    BY DEF IInv, BookTypeOK
  <2>2. book[s][i] \in Entries
    BY <2>1
  <2> QED
    BY <1>1, <2>2 DEF Entries
<1>3. \A p \in UserClaims : p[1] \in Nat
  <2> SUFFICES ASSUME NEW u \in Users, NEW i \in userOrders[u]
               PROVE  i \in Nat
    BY DEF UserClaims
  <2> QED
    BY <1>1 DEF IInv, BookTypeOK
<1>4. ASSUME NEW h \in Handlers
      PROVE  \A p \in Named(task[h]) : p[1] \in Nat
  <2> DEFINE k == task[h]
  <2>1. k \in Tasks
    BY DEF IInv, TaskTypeOK
  <2>2. CASE k.at \in {"enter", "match"} \cup Settles
    <3>1. k.order.id \in Nat
      BY <1>1, <2>2, TaskParts, IncomingType DEF IInv, Settles
    <3>2. k.at \in Settles => \A j \in DOMAIN k.fills : k.fills[j].maker \in Nat
      <4> SUFFICES ASSUME k.at \in Settles, NEW j \in DOMAIN k.fills
                   PROVE  k.fills[j].maker \in Nat
        OBVIOUS
      <4>1. k.fills \in Seq(Matches)
        BY TaskParts DEF IInv, Settles
      <4>2. k.fills[j] \in Matches
        BY <4>1
      <4> QED
        BY <1>1, <4>2 DEF Matches
    <3> QED
      BY <2>2, <3>1, <3>2 DEF Named, Settles
  <2>3. CASE k.at = "evicted"
    <3>1. k.gone \in SUBSET [side : Sides, entry : Entries]
      BY <2>1, <2>3, TaskShape DEF Evicting
    <3>2. \A x \in k.gone : x.entry.id \in Nat
      BY <1>1, <3>1 DEF Entries
    <3> QED
      BY <2>3, <3>2 DEF Named, Settles
  <2>4. CASE k.at \in {"refund", "untrack"}
    <3>1. k.entry.id \in Nat
      BY <1>1, <2>1, <2>4, TaskShape DEF Cancelled, Entries
    <3> QED
      BY <2>4, <3>1 DEF Named, Settles
  <2>5. CASE k.at \notin {"enter", "match", "evicted", "refund", "untrack"} \cup Settles
    BY <2>5 DEF Named, Settles
  <2> QED
    BY <2>2, <2>3, <2>4, <2>5
<1>5. \A s \in {"buy", "sell"} : s \in Sides
  BY DEF Sides
<1> QED
  BY <1>2, <1>3, <1>4, <1>5 DEF Claims

\* A request that goes on settling the same matches knows what it knew.
LEMMA SettlingKnows ==
  ASSUME NEW k, NEW to, k.at \in Settles, to.at \in Settles,
         to.order = k.order, to.fills = k.fills, to.left = k.left
  PROVE  /\ Placed(to) = Placed(k) /\ Unrested(to) = {} /\ Coming(to) = Coming(k)
         /\ Looked(to) = {} /\ Out(to) = {} /\ Named(to) = Named(k)
         /\ Unevicted(to) = Unevicted(k)
<1>1. /\ to.at \notin {"enter", "match", "evicted", "refund", "untrack", "cancel", "evict"}
      /\ k.at \notin {"enter", "match", "evicted", "refund", "untrack", "cancel", "evict"}
  BY DEF Settles
<1>2. Placed(to) = Placed(k) /\ Unrested(to) = {} /\ Looked(to) = {} /\ Out(to) = {}
  BY <1>1 DEF Placed, Unrested, Looked, Out
<1>3. Comes(to) <=> Comes(k)
  BY <1>1 DEF Comes
<1>4. Coming(to) = Coming(k)
  BY <1>3 DEF Coming
<1>5. Named(to) = Named(k)
  BY <1>1 DEF Named
<1>6. Unevicted(to) = Unevicted(k)
  BY <1>1, <1>3 DEF Unevicted
<1> QED
  BY <1>2, <1>4, <1>5, <1>6

\* Who settles was admitted.
LEMMA SettlingAdmitted ==
  ASSUME IInv, WithinCaps, NEW h \in Handlers, task[h].at \in {"match"} \cup Settles
  PROVE  /\ task[h].order.owner \in Users
         /\ Cardinality(userOrders[task[h].order.owner]) < MaxOrdersPerUser
<1>1. task[h].order \in Incoming
  BY TaskParts DEF IInv, Settles
<1>2. task[h].order.owner \in Users
  BY <1>1, IncomingType
<1> QED
  BY <1>2 DEF WithinCaps, Admitted

\* SettleQuote: nothing is tracked or untracked between the transfers.
LEMMA SettleQuoteTrack ==
  ASSUME TrackInv, NEW h \in Handlers, SettleQuote(h)
  PROVE  TrackInv'
<1> DEFINE k == task[h]
           to == [k EXCEPT !.at = "base"]
<1>1. IInv /\ WithinCaps /\ TaskTypeOK
  BY DEF TrackInv, VetInv, IInv
<1>2. VetInv'
  BY PlacementVet DEF TrackInv
<1>3. UNCHANGED <<book, trackVars, issued>> /\ k.at = "quote" /\ Goes(h, to)
  BY DEF SettleQuote, bounds
<1>4. k \in Settling
  BY <1>1, <1>3, TaskParts
<1>5. to.at = "base" /\ to.order = k.order /\ to.fills = k.fills /\ to.left = k.left
  BY <1>4 DEF Settling
<1>6. k.at \in Settles /\ to.at \in Settles
  BY <1>3, <1>5 DEF Settles
<1>7. /\ k.order.owner \in Users
      /\ Cardinality(userOrders[k.order.owner]) < MaxOrdersPerUser
  BY <1>1, <1>6, SettlingAdmitted
<1>8. Named(k) \subseteq Claims
  BY NamedClaims
<1> HIDE DEF to
<1>9. /\ Placed(to) = Placed(k) /\ Unrested(to) = {} /\ Coming(to) = Coming(k)
      /\ Looked(to) = {} /\ Out(to) = {} /\ Named(to) = Named(k)
      /\ Unevicted(to) = Unevicted(k)
  BY <1>5, <1>6, SettlingKnows
<1> QED
  BY <1>2, <1>3, <1>5, <1>7, <1>8, <1>9, SilentTrack

\* Only the settlement of a market order panics, and a market order never rests.
LEMMA PanicTrack ==
  ASSUME TrackInv, NEW h \in Handlers, Panic(h)
  PROVE  TrackInv'
<1> DEFINE k == task[h]
<1>1. IInv /\ TaskTypeOK /\ Vetted
  BY DEF TrackInv, VetInv, IInv
<1>2. VetInv'
  BY PlacementVet DEF TrackInv
<1>3. /\ UNCHANGED <<book, trackVars, issued>> /\ k.at = "quote" /\ Goes(h, Idle)
      /\ Overflows(NextFill(h).quantity, NextFill(h).price)
  BY DEF Panic, DoneUnlocking, Done, bounds
<1>4. k.next \in DOMAIN k.fills
  BY <1>1, <1>3, TaskParts
<1>5. k.order.type = "market"
  <2> SUFFICES ASSUME k.order.type # "market"
               PROVE  FALSE
    OBVIOUS
  <2>1. VettedFills(k.fills)
    BY <1>1, <1>3 DEF Vetted, VettedTask
  <2> QED
    BY <1>3, <1>4, <2>1 DEF VettedFills, NextFill
<1>6. Coming(k) = {} /\ ~Unevicted(k)
  BY <1>3, <1>5 DEF Coming, Comes, Unevicted
<1> QED
  BY <1>2, <1>3, <1>6, EndTrack

\* CancelOrder: what is looked up is tracked, so nobody is placing it.
LEMMA CancelOrderTrack ==
  ASSUME TrackInv, NEW h \in Handlers, NEW u \in Users, NEW id \in 1..issued,
         CancelOrder(h, u, id)
  PROVE  TrackInv'
<1> DEFINE to == [at |-> "cancel", user |-> u, id |-> id]
<1>1. VetInv'
  BY CancelOrderVet DEF TrackInv
<1>2. /\ UNCHANGED <<book, trackVars, issued>> /\ Goes(h, to) /\ task[h] = Idle
      /\ id \in orders
  BY DEF CancelOrder, bounds
<1>3. id <= issued
  <2>1. issued \in Nat
    BY DEF TrackInv, VetInv, IInv, TaskTypeOK
  <2> QED
    BY <2>1
<1>4. to.at = "cancel" /\ to.id = id
  OBVIOUS
<1> HIDE DEF to
<1>5. /\ Placed(to) = {} /\ Unrested(to) = {} /\ Looked(to) = {id} /\ Out(to) = {}
      /\ Named(to) = {} /\ to.at \notin {"match"} \cup Settles
  BY <1>4 DEF Placed, Unrested, Looked, Out, Named, Settles
<1>6. Coming(task[h]) = {} /\ ~Unevicted(task[h])
  BY <1>2, IdleKnows
<1> QED
  BY <1>1, <1>2, <1>3, <1>5, <1>6, SilentTrack

\* CancelRefund: the order taken out is still tracked.
LEMMA CancelRefundTrack ==
  ASSUME TrackInv, NEW h \in Handlers, CancelRefund(h)
  PROVE  TrackInv'
<1> DEFINE k == task[h]
           to == [k EXCEPT !.at = "untrack"]
<1>1. VetInv'
  BY RefundVet DEF TrackInv
<1>2. UNCHANGED <<book, trackVars, issued>> /\ k.at = "refund" /\ Goes(h, to)
  BY DEF CancelRefund, bounds
<1>3. k \in Cancelled
  BY <1>2, TaskParts, TaskShape DEF TrackInv, VetInv, IInv
<1>4. to.at = "untrack" /\ to.entry = k.entry /\ to.user = k.user
  BY <1>3 DEF Cancelled
<1>5. Named(k) \subseteq Claims
  BY NamedClaims
<1> HIDE DEF to
<1>6. /\ Placed(to) = {} /\ Unrested(to) = {} /\ Looked(to) = {} /\ Out(to) = Out(k)
      /\ to.at \notin {"match"} \cup Settles
  BY <1>2, <1>4 DEF Placed, Unrested, Looked, Out, Settles
<1>7. Named(to) = Named(k) /\ Coming(k) = {} /\ ~Unevicted(k)
  BY <1>2, <1>4 DEF Named, Coming, Comes, Unevicted, Settles
<1> QED
  BY <1>1, <1>2, <1>5, <1>6, <1>7, SilentTrack

\* PlaceOrder: the ID of the order is new to everyone.
LEMMA PlaceOrderTrack ==
  ASSUME TrackInv, NEW h \in Handlers, NEW o \in Incoming, PlaceOrder(h, o)
  PROVE  TrackInv'
<1> DEFINE full == [at |-> "enter", order |-> o, hold |-> CalculateHold(o)]
           c == <<o.id, o.owner>>
<1>1. IInv /\ TaskTypeOK /\ Agreed /\ Apart /\ OneEach /\ Tracked /\ WithinCaps
  BY DEF TrackInv, VetInv, IInv
<1>2. VetInv'
  BY PlaceOrderVet DEF TrackInv
<1>3. /\ UNCHANGED <<book, trackVars>> /\ task[h] = Idle
      /\ o.id = issued + 1 /\ issued' = o.id /\ (Goes(h, Idle) \/ Goes(h, full))
  BY DEF PlaceOrder, Done
<1>4. PICK to \in {Idle, full} : Goes(h, to)
  BY <1>3
<1>5. /\ Placed(to) \subseteq {o.id} /\ Unrested(to) \subseteq {o.id} /\ Looked(to) = {}
      /\ Out(to) = {} /\ Named(to) \subseteq {c} /\ to.at \notin {"match"} \cup Settles
  <2>1. CASE to = Idle
    BY <2>1, IdleKnows DEF Settles
  <2>2. CASE to = full
    <3>1. to.at = "enter" /\ to.order = o
      BY <2>2
    <3> HIDE DEF full
    <3> QED
      BY <3>1 DEF Placed, Unrested, Looked, Out, Named, Settles
  <2> QED
    BY <2>1, <2>2
<1> HIDE DEF full
<1>6. task'[h] = to /\ \A g \in Handlers : g # h => task'[g] = task[g]
  BY <1>1, <1>4, OneGoes
<1>7. issued \in Nat /\ ~(o.id <= issued)
  BY <1>1, <1>3 DEF TaskTypeOK
<1>8. /\ o.id \notin orders /\ o.id \notin RestingIds
      /\ \A g \in Handlers : o.id \notin Placed(task[g]) /\ o.id \notin Out(task[g])
                             /\ o.id \notin Looked(task[g])
      /\ \A p \in Claims : p[1] # o.id
  BY <1>1, <1>7, NewIsUnknown
<1>9. UNCHANGED <<RestingIds, orders, userOrders, book>>
  BY <1>3 DEF RestingIds, trackVars
<1>10. Agreed'
  <2>1. Claims' \subseteq Claims \cup {c}
    <3>1. \A g \in Handlers : Named(task'[g]) \subseteq Claims \cup {c}
      BY <1>5, <1>6, NamedClaims
    <3>2. UserClaims' = UserClaims
      BY <1>9 DEF UserClaims
    <3> QED
      BY <1>9, <3>1, <3>2 DEF Claims
  <2>2. c[1] = o.id
    OBVIOUS
  <2> HIDE DEF c
  <2>3. \A p \in Claims \cup {c} : \A q \in Claims \cup {c} : p[1] = q[1] => p[2] = q[2]
    BY <1>1, <1>8, <2>2 DEF Agreed
  <2>4. \A g \in Handlers : \A i \in Looked(task[g]) : i \in Nat
    <3> SUFFICES ASSUME NEW g \in Handlers, task[g].at = "cancel"
                 PROVE  task[g].id \in Nat
      BY DEF Looked
    <3>1. task[g] \in LookedUp
      BY <1>1, TaskParts, TaskShape
    <3> QED
      BY <3>1, ExtensionAssumption DEF LookedUp, OrderIds
  <2>5. \A p \in Claims : p[1] \in Nat
    BY <1>1, ClaimIds
  <2>6. \A p \in Claims \cup {c} : p[1] <= issued'
    BY <1>1, <1>3, <1>7, <2>2, <2>5 DEF Agreed
  <2>7. \A g \in Handlers : \A i \in Looked(task'[g]) : i <= issued'
    <3> SUFFICES ASSUME NEW g \in Handlers, NEW i \in Looked(task'[g])
                 PROVE  i <= issued'
      OBVIOUS
    <3>1. i \in Looked(task[g])
      BY <1>5, <1>6
    <3>2. i <= issued /\ i \in Nat
      BY <1>1, <2>4, <3>1 DEF Agreed
    <3> QED
      BY <1>3, <1>7, <3>2
  <2> QED
    BY <2>1, <2>3, <2>6, <2>7 DEF Agreed
<1>11. Apart'
  <2>1. /\ \A g \in Handlers : Placed(task'[g]) \subseteq Placed(task[g]) \cup {o.id}
        /\ \A g \in Handlers : g # h => Placed(task'[g]) = Placed(task[g])
        /\ \A g \in Handlers : Unrested(task'[g]) \subseteq Unrested(task[g]) \cup {o.id}
        /\ \A g \in Handlers : Out(task'[g]) \subseteq Out(task[g])
        /\ \A g \in Handlers : Looked(task'[g]) \subseteq Looked(task[g])
    BY <1>5, <1>6
  <2>2. \A g \in Handlers : Placed(task'[g]) \cap orders = {}
    BY <1>1, <1>8, <2>1 DEF Apart
  <2>3. ASSUME NEW g \in Handlers, NEW f \in Handlers
        PROVE  Placed(task'[g]) \cap (Out(task'[f]) \cup Looked(task'[f])) = {}
    <3>1. Placed(task[g]) \cap (Out(task[f]) \cup Looked(task[f])) = {}
      BY <1>1 DEF Apart
    <3> QED
      BY <1>8, <2>1, <3>1
  <2>4. \A g \in Handlers : Unrested(task'[g]) \cap RestingIds = {}
    BY <1>1, <1>8, <2>1 DEF Apart
  <2>5. ASSUME NEW g \in Handlers, NEW f \in Handlers, g # f
        PROVE  Placed(task'[g]) \cap Placed(task'[f]) = {}
    <3>1. Placed(task[g]) \cap Placed(task[f]) = {}
      BY <1>1, <2>5 DEF Apart
    <3> QED
      BY <1>8, <2>1, <2>5, <3>1
  <2>6. \A g \in Handlers : Out(task'[g]) \cap RestingIds = {}
    BY <1>1, <2>1 DEF Apart
  <2> QED
    BY <1>9, <2>2, <2>3, <2>4, <2>5, <2>6 DEF Apart
<1>12. OneEach'
  BY <1>1, <1>9 DEF OneEach
<1>13. Tracked'
  <2>1. orders' = UNION {userOrders'[u] : u \in Users}
    BY <1>1, <1>9 DEF Tracked
  <2>2. Coming(task[h]) = {}
    BY <1>3, IdleKnows
  <2> QED
    BY <1>1, <1>4, <1>9, <2>1, <2>2, TrackedMoves
<1>14. WithinCaps'
  <2>1. ~Unevicted(task[h]) /\ (LevelsFit => LevelsFit')
    BY <1>3, <1>9, IdleKnows DEF LevelsFit
  <2> QED
    BY <1>1, <1>4, <1>5, <1>9, <2>1, CapMoves
<1> QED
  BY <1>2, <1>10, <1>11, <1>12, <1>13, <1>14 DEF TrackInv

\* The levels of a side that has lost orders.
LEMMA LevelsShrink ==
  ASSUME BookTypeOK, NEW s \in Sides
  PROVE  /\ IsFiniteSet(Levels(book[s])) /\ Cardinality(Levels(book[s])) \in Nat
         /\ \A L \in SUBSET Levels(book[s]) :
              Cardinality(L) \in Nat /\ Cardinality(L) <= Cardinality(Levels(book[s]))
<1> DEFINE queue == book[s]
           f == [i \in DOMAIN queue |-> queue[i].price]
<1>1. queue \in Seq(Entries)
  BY DEF BookTypeOK
<1>2. f \in Surjection(DOMAIN queue, Levels(queue))
  BY DEF Surjection, Levels
<1>3. IsFiniteSet(DOMAIN queue)
  BY <1>1, PositionsFinite
<1>4. IsFiniteSet(Levels(queue))
  <2> HIDE DEF f, queue
  <2> QED
    BY <1>2, <1>3, FS_Surjection
<1> HIDE DEF queue
<1>5. \A L \in SUBSET Levels(queue) : IsFiniteSet(L) /\ Cardinality(L) <= Cardinality(Levels(queue))
  BY <1>4, FS_Subset
<1> QED
  BY <1>4, <1>5, FS_CardinalityType DEF queue

\* With no new level on either side the levels fit as they did.
LEMMA FewerLevels ==
  ASSUME BookTypeOK, \A s \in Sides : Levels(book'[s]) \subseteq Levels(book[s]), LevelsFit
  PROVE  LevelsFit'
<1> SUFFICES ASSUME NEW s \in Sides
             PROVE  Cardinality(Levels(book'[s])) <= MaxLevels
  BY DEF LevelsFit
<1> DEFINE a == Cardinality(Levels(book'[s]))
           b == Cardinality(Levels(book[s]))
<1>1. a \in Nat /\ b \in Nat /\ a <= b
  BY LevelsShrink
<1>2. b <= MaxLevels /\ MaxLevels \in Nat
  BY ExtensionAssumption DEF LevelsFit
<1> HIDE DEF a, b
<1>3. a <= MaxLevels
  BY <1>1, <1>2
<1> QED
  BY <1>3 DEF a

\* What matching does to the book: the opposite side loses orders, and the own
\* side gains the order, if it is a limit order and not filled.
LEMMA MatchedBook ==
  ASSUME BookTypeOK, NEW o \in Incoming, book' = AfterPlace(o, book)
  PROVE  LET s == o.side
             opp == Opposite(s)
             left == Unfilled(o, book[opp])
         IN  /\ s \in Sides /\ opp \in Sides /\ opp # s
             /\ QueueIds(book'[opp]) \subseteq QueueIds(book[opp])
             /\ QueueOwners(book'[opp]) \subseteq QueueOwners(book[opp])
             /\ Levels(book'[opp]) \subseteq Levels(book[opp])
             /\ Once(book[opp]) => Once(book'[opp])
             /\ \/ book'[s] = book[s]
                \/ /\ o.type = "limit" /\ left > 0
                   /\ QueueIds(book'[s]) = QueueIds(book[s]) \cup {o.id}
                   /\ QueueOwners(book'[s]) = QueueOwners(book[s]) \cup {<<o.id, o.owner>>}
                   /\ Once(book[s]) /\ o.id \notin QueueIds(book[s]) => Once(book'[s])
<1> DEFINE s == o.side
           opp == Opposite(s)
           left == Unfilled(o, book[opp])
           e == Entry(o, left)
<1>1. s \in Sides /\ opp \in Sides /\ opp # s
  BY IncomingType, OppositeSide
<1>2. book[opp] \in Seq(EntrySet(OrderIds, Users)) /\ book[s] \in Seq(Entries)
      /\ o.quantity \in Nat
  BY <1>1, IncomingType, BookTypes DEF BookTypeOK
<1>3. /\ book'[opp] = AfterFills(o, book[opp])
      /\ book'[s] = IF o.type = "limit" /\ left > 0 THEN Rest(s, book[s], e) ELSE book[s]
  BY PlacedSides
<1>4. left \in Nat
  BY <1>2, TakenTotal
<1>5. e \in Entries /\ e.id = o.id /\ e.owner = o.owner
  BY <1>4, IncomingType DEF Entry, Entries
<1> HIDE DEF s, opp, left, e
<1>6. /\ QueueIds(book'[opp]) \subseteq QueueIds(book[opp])
      /\ QueueOwners(book'[opp]) \subseteq QueueOwners(book[opp])
      /\ Levels(book'[opp]) \subseteq Levels(book[opp])
      /\ Once(book[opp]) => Once(book'[opp])
  BY <1>2, <1>3, LeftParts
<1>7. CASE o.type = "limit" /\ left > 0
  <2>1. book'[s] = Rest(s, book[s], e)
    BY <1>3, <1>7
  <2>2. /\ QueueIds(book'[s]) = QueueIds(book[s]) \cup {o.id}
        /\ QueueOwners(book'[s]) = QueueOwners(book[s]) \cup {<<o.id, o.owner>>}
        /\ Once(book[s]) /\ o.id \notin QueueIds(book[s]) => Once(book'[s])
    BY <1>2, <1>5, <2>1, RestParts
  <2> QED
    BY <1>1, <1>6, <1>7, <2>2 DEF s, opp, left
<1>8. CASE ~(o.type = "limit" /\ left > 0)
  <2>1. book'[s] = book[s]
    BY <1>3, <1>8
  <2> QED
    BY <1>1, <1>6, <2>1 DEF s, opp, left
<1> QED
  BY <1>7, <1>8

\* MatchOrder: what of the order rests comes, and every maker of the other side is
\* claimed as it was in the book.
LEMMA MatchOrderTrack ==
  ASSUME TrackInv, NEW h \in Handlers, MatchOrder(h)
  PROVE  TrackInv'
<1> DEFINE k == task[h]
           o == k.order
           s == o.side
           opp == Opposite(s)
           queue == book[opp]
           to == Matched(o, k.hold, queue)
           left == Unfilled(o, queue)
<1>1. /\ IInv /\ TaskTypeOK /\ BookTypeOK /\ Agreed /\ Apart /\ OneEach /\ Tracked
      /\ WithinCaps
  BY DEF TrackInv, VetInv, IInv
<1>2. VetInv'
  BY MatchOrderVet DEF TrackInv
<1>3. k.at = "match" /\ UNCHANGED trackVars /\ UNCHANGED issued
  BY DEF MatchOrder, bounds
<1>4. o \in Incoming
  BY <1>1, <1>3, TaskParts
<1>5. Coming(k) = {} /\ ~Unevicted(k) /\ Named(k) = {<<o.id, o.owner>>}
      /\ Placed(k) = {o.id} /\ Unrested(k) = {o.id}
  BY <1>3 DEF Coming, Comes, Unevicted, Named, Placed, Unrested, Settles
<1>6. CASE DoneUnlocking(h) /\ UNCHANGED book
  <2>1. Goes(h, Idle) /\ UNCHANGED <<book, trackVars, issued>>
    BY <1>3, <1>6 DEF DoneUnlocking, Done
  <2> QED
    BY <1>2, <1>5, <2>1, EndTrack
<1>7. CASE book' = AfterPlace(o, book) /\ Goes(h, to)
  <2>1. /\ s \in Sides /\ opp \in Sides /\ opp # s
        /\ QueueIds(book'[opp]) \subseteq QueueIds(book[opp])
        /\ QueueOwners(book'[opp]) \subseteq QueueOwners(book[opp])
        /\ Levels(book'[opp]) \subseteq Levels(book[opp])
        /\ Once(book[opp]) => Once(book'[opp])
        /\ \/ book'[s] = book[s]
           \/ /\ o.type = "limit" /\ left > 0
              /\ QueueIds(book'[s]) = QueueIds(book[s]) \cup {o.id}
              /\ QueueOwners(book'[s]) = QueueOwners(book[s]) \cup {<<o.id, o.owner>>}
              /\ Once(book[s]) /\ o.id \notin QueueIds(book[s]) => Once(book'[s])
    <3> HIDE DEF o
    <3> QED
      BY <1>1, <1>4, <1>7, MatchedBook
  <2>2. /\ to.at \in Settles /\ to.order = o /\ to.fills = Fills(o, queue) /\ to.left = left
    BY DEF Matched, Settles
  <2>3. {<<to.fills[j].maker, to.fills[j].owner>> : j \in DOMAIN to.fills} \subseteq QueueOwners(queue)
    <3>1. queue \in Seq(EntrySet(OrderIds, Users)) /\ o.quantity \in Nat
      BY <1>1, <1>4, <2>1, IncomingType, BookTypes DEF BookTypeOK
    <3> HIDE DEF queue, o
    <3>2. {<<Fills(o, queue)[j].maker, Fills(o, queue)[j].owner>> : j \in DOMAIN Fills(o, queue)}
            \subseteq QueueOwners(queue)
      BY <3>1, FillsOwners
    <3> HIDE DEF to
    <3> QED
      BY <2>2, <3>2
  <2> HIDE DEF to, left
  <2>4. /\ Placed(to) = {o.id} /\ Unrested(to) = {} /\ Looked(to) = {} /\ Out(to) = {}
        /\ Named(to) \subseteq {<<o.id, o.owner>>} \cup QueueOwners(queue)
        /\ left > 0 /\ o.type = "limit" => Coming(to) = {o.id} /\ Unevicted(to)
    <3>1. to.at \notin {"enter", "match", "cancel", "evicted", "refund", "untrack"}
      BY <2>2 DEF Settles
    <3>2. Placed(to) = {o.id} /\ Unrested(to) = {} /\ Looked(to) = {} /\ Out(to) = {}
      BY <2>2, <3>1 DEF Placed, Unrested, Looked, Out
    <3>3. Named(to) \subseteq {<<o.id, o.owner>>} \cup QueueOwners(queue)
      BY <2>2, <2>3, <3>1 DEF Named
    <3>4. left > 0 /\ o.type = "limit" => Coming(to) = {o.id} /\ Unevicted(to)
      BY <2>2 DEF Coming, Comes, Unevicted
    <3> QED
      BY <3>2, <3>3, <3>4
  <2>5. /\ RestingIds = QueueIds(book[s]) \cup QueueIds(queue)
        /\ RestingIds' = QueueIds(book'[s]) \cup QueueIds(book'[opp])
        /\ (s = "buy" /\ opp = "sell") \/ (s = "sell" /\ opp = "buy")
    <3>1. (s = "buy" /\ opp = "sell") \/ (s = "sell" /\ opp = "buy")
      <4> HIDE DEF o, s, opp
      <4> QED
        BY <2>1 DEF Sides
    <3> HIDE DEF s, opp
    <3> QED
      BY <3>1, RestingSides, NextRestingSides
  <2>6. o.id \notin RestingIds
    BY <1>1, <1>5 DEF Apart
  <2>7. Agreed'
    <3>1. QueueOwners(book["buy"]) \subseteq Claims /\ QueueOwners(book["sell"]) \subseteq Claims
          /\ UserClaims' \subseteq Claims /\ <<o.id, o.owner>> \in Claims
      <4>1. UserClaims' = UserClaims
        BY <1>3 DEF UserClaims, trackVars
      <4>2. <<o.id, o.owner>> \in Claims
        BY <1>5, NamedClaims
      <4> QED
        BY <4>1, <4>2 DEF Claims
    <3>2. \A r \in Sides : QueueOwners(book[r]) \subseteq Claims
      BY <3>1 DEF Sides
    <3>3. QueueOwners(book'[s]) \subseteq Claims /\ QueueOwners(book'[opp]) \subseteq Claims
      <4> HIDE DEF o, s, opp
      <4> QED
        BY <2>1, <3>1, <3>2
    <3>4. QueueOwners(book'["buy"]) \subseteq Claims /\ QueueOwners(book'["sell"]) \subseteq Claims
      BY <2>1, <3>3 DEF Sides
    <3>5. Named(to) \subseteq Claims
      BY <2>1, <2>4, <3>1, <3>2
    <3>6. \A i \in Looked(to) : i <= issued
      BY <2>4
    <3> QED
      BY <1>1, <1>3, <1>7, <3>1, <3>4, <3>5, <3>6, AgreedMoves
  <2>8. Apart'
    <3>1. RestingIds' \subseteq RestingIds \cup (Unrested(k) \ Unrested(to))
      BY <1>5, <2>1, <2>4, <2>5
    <3>2. orders' = orders
      BY <1>3 DEF trackVars
    <3> QED
      BY <1>1, <1>5, <1>7, <2>4, <3>1, <3>2, ApartMoves
  <2>9. OneEach'
    <3>1. \A r \in Sides : Once(book[r])
      BY <1>1 DEF OneEach
    <3>2. QueueIds(book[s]) \cap QueueIds(queue) = {}
      BY <1>1, <2>1 DEF OneEach, Sides
    <3>3. Once(book'[s]) /\ Once(book'[opp])
      BY <2>1, <2>5, <2>6, <3>1
    <3>4. QueueIds(book'[s]) \cap QueueIds(book'[opp]) = {}
      BY <2>1, <2>5, <2>6, <3>2
    <3> QED
      <4>1. (s = "buy" /\ opp = "sell") \/ (s = "sell" /\ opp = "buy")
        BY <2>5
      <4>2. Once(book'["buy"]) /\ Once(book'["sell"])
        BY <3>3, <4>1
      <4>3. QueueIds(book'["buy"]) \cap QueueIds(book'["sell"]) = {}
        BY <3>4, <4>1
      <4> QED
        BY <4>2, <4>3 DEF OneEach, Sides
  <2>10. Tracked'
    <3>1. orders' = orders /\ orders' = UNION {userOrders'[u] : u \in Users}
      BY <1>1, <1>3 DEF trackVars, Tracked
    <3>2. \A i \in RestingIds' : i \in RestingIds \/ i \in Coming(to)
      BY <2>1, <2>4, <2>5
    <3> QED
      BY <1>1, <1>5, <1>7, <3>1, <3>2, TrackedMoves
  <2>11. WithinCaps'
    <3>1. o.owner \in Users /\ Cardinality(userOrders[o.owner]) < MaxOrdersPerUser
      BY <1>1, <1>3, SettlingAdmitted
    <3>2. \/ Unevicted(to)
          \/ LevelsFit => LevelsFit'
      <4>1. CASE book'[s] = book[s]
        <5>1. \A r \in Sides : Levels(book'[r]) \subseteq Levels(book[r])
          BY <2>1, <4>1 DEF Sides
        <5> QED
          BY <1>1, <5>1, FewerLevels
      <4>2. CASE o.type = "limit" /\ left > 0
        BY <2>4, <4>2
      <4> QED
        BY <2>1, <4>1, <4>2
    <3>3. \A u \in Users : userOrders'[u] \subseteq userOrders[u]
      BY <1>3 DEF trackVars
    <3> QED
      BY <1>1, <1>5, <1>7, <2>2, <3>1, <3>2, <3>3, CapMoves
  <2> QED
    BY <1>2, <2>7, <2>8, <2>9, <2>10, <2>11 DEF TrackInv
<1> QED
  BY <1>6, <1>7 DEF MatchOrder, Matched

\* Taking an order off the tracking, for the user who has it.
LEMMA Untracking ==
  ASSUME BookTypeOK, Agreed, Tracked, NEW i, NEW u \in Users, <<i, u>> \in Claims,
         NEW X \in SUBSET {i}, NEW Y \in SUBSET X, X \cap orders \subseteq Y,
         orders' = orders \ X, userOrders' = [userOrders EXCEPT ![u] = @ \ Y]
  PROVE  /\ orders' = UNION {userOrders'[w] : w \in Users}
         /\ \A w \in Users : userOrders'[w] \subseteq userOrders[w]
         /\ orders \ orders' \subseteq X
<1>1. /\ userOrders'[u] = userOrders[u] \ Y
      /\ \A w \in Users : w # u => userOrders'[w] = userOrders[w]
  BY DEF BookTypeOK
<1>2. \A w \in Users : userOrders[w] \subseteq orders
  BY DEF Tracked
<1>3. ASSUME NEW w \in Users, i \in userOrders[w]
      PROVE  w = u
  <2> DEFINE p == <<i, w>>
             q == <<i, u>>
  <2>1. p \in Claims /\ q \in Claims
    <3>1. p \in Claims
      BY <1>3, UserIds
    <3> QED
      BY <3>1
  <2>2. p[1] = q[1] /\ p[2] = w /\ q[2] = u
    OBVIOUS
  <2> HIDE DEF p, q
  <2> QED
    BY <2>1, <2>2 DEF Agreed
<1>4. \A w \in Users : userOrders'[w] = userOrders[w] \ X
  <2> SUFFICES ASSUME NEW w \in Users
               PROVE  userOrders'[w] = userOrders[w] \ X
    OBVIOUS
  <2>1. CASE w = u
    BY <1>1, <1>2, <2>1
  <2>2. CASE w # u
    BY <1>1, <1>3, <2>2
  <2> QED
    BY <2>1, <2>2
<1>5. orders = UNION {userOrders[w] : w \in Users}
  BY DEF Tracked
<1>6. orders' = UNION {userOrders'[w] : w \in Users}
  BY <1>4, <1>5
<1> QED
  BY <1>4, <1>6

\* SettleBase: a maker that is cleaned up rests no more.
LEMMA SettleBaseTrack ==
  ASSUME TrackInv, NEW h \in Handlers, SettleBase(h)
  PROVE  TrackInv'
<1> DEFINE k == task[h]
           m == NextFill(h)
           gone == FilledMaker(h)
           next == [k EXCEPT !.at = "quote", !.next = @ + 1]
           last == [k EXCEPT !.at = "finish"]
<1>1. IInv /\ TaskTypeOK /\ BookTypeOK /\ Agreed /\ Tracked /\ WithinCaps
  BY DEF TrackInv, VetInv, IInv
<1>2. VetInv'
  BY PlacementVet DEF TrackInv
<1>3. /\ k.at = "base" /\ UNCHANGED <<book, issued>>
      /\ orders' = orders \ gone
      /\ userOrders' = [userOrders EXCEPT ![m.owner] = @ \ (gone \cap orders)]
      /\ Goes(h, next) \/ Goes(h, last)
  BY DEF SettleBase, bounds
<1>4. k \in Settling /\ k.next \in DOMAIN k.fills /\ m \in Matches /\ m = k.fills[k.next]
  BY <1>1, <1>3, TaskParts DEF NextFill
<1>5. PICK to \in {next, last} : Goes(h, to)
  BY <1>3
<1>6. to.at \in Settles /\ to.order = k.order /\ to.fills = k.fills /\ to.left = k.left
  BY <1>4 DEF Settling, Settles
<1>7. k.at \in Settles
  BY <1>3 DEF Settles
<1> HIDE DEF next, last
<1>8. /\ Placed(to) = Placed(k) /\ Unrested(to) = {} /\ Coming(to) = Coming(k)
      /\ Looked(to) = {} /\ Out(to) = {} /\ Named(to) = Named(k)
      /\ Unevicted(to) = Unevicted(k)
  BY <1>6, <1>7, SettlingKnows
<1>9. /\ k.order.owner \in Users
      /\ Cardinality(userOrders[k.order.owner]) < MaxOrdersPerUser
  BY <1>1, <1>7, SettlingAdmitted
<1>10. Named(k) \subseteq Claims
  BY NamedClaims
<1>11. <<m.maker, m.owner>> \in Claims /\ m.owner \in Users
  <2>1. <<m.maker, m.owner>> \in Named(k)
    BY <1>3, <1>4 DEF Named, Settles
  <2>2. m.owner \in Users
    BY <1>4 DEF Matches
  <2> QED
    BY <1>10, <2>1, <2>2
<1>12. gone \in SUBSET {m.maker} /\ gone \cap RestingIds = {}
  BY DEF FilledMaker
<1> HIDE DEF gone, m
<1>13. /\ orders' = UNION {userOrders'[w] : w \in Users}
       /\ \A w \in Users : userOrders'[w] \subseteq userOrders[w]
       /\ orders \ orders' \subseteq gone
  <2> DEFINE Y == gone \cap orders
             i == m.maker
             u == m.owner
  <2>1. Y \in SUBSET gone /\ gone \cap orders \subseteq Y
        /\ userOrders' = [userOrders EXCEPT ![u] = @ \ Y]
        /\ orders' = orders \ gone
    BY <1>3
  <2>2. u \in Users /\ <<i, u>> \in Claims /\ gone \in SUBSET {i}
    BY <1>11, <1>12
  <2> HIDE DEF Y, i, u
  <2> QED
    BY <1>1, <2>1, <2>2, Untracking
<1>14. \A i \in orders \ orders' : i \notin RestingIds
  BY <1>12, <1>13
<1>15. to.at \in {"match"} \cup Settles =>
           to.order.owner \in Users /\ Cardinality(userOrders[to.order.owner]) < MaxOrdersPerUser
  BY <1>6, <1>9
<1> HIDE DEF k
<1> QED
  BY <1>2, <1>3, <1>5, <1>8, <1>10, <1>13, <1>14, <1>15, QuietTrack DEF k

\* RefundEvicted: an evicted order is taken off the tracking of its owner.
LEMMA RefundEvictedTrack ==
  ASSUME TrackInv, NEW h \in Handlers, RefundEvicted(h)
  PROVE  TrackInv'
<1> DEFINE k == task[h]
<1>1. IInv /\ TaskTypeOK /\ BookTypeOK /\ Agreed /\ Apart /\ Tracked
  BY DEF TrackInv, VetInv, IInv
<1>2. VetInv'
  BY RefundVet DEF TrackInv
<1>3. k.at = "evicted" /\ UNCHANGED <<book, issued>>
  BY DEF RefundEvicted, bounds
<1>4. PICK x \in k.gone :
        /\ orders' = orders \ {x.entry.id}
        /\ userOrders' = [userOrders EXCEPT ![x.entry.owner] = @ \ {x.entry.id}]
        /\ Goes(h, Idle) \/ Goes(h, [k EXCEPT !.gone = k.gone \ {x}])
  BY DEF RefundEvicted, DoneUnlocking, Done
<1> DEFINE full == [k EXCEPT !.gone = k.gone \ {x}]
<1>5. k \in Evicting
  BY <1>1, <1>3, TaskParts, TaskShape
<1>6. full.at = "evicted" /\ full.gone \subseteq k.gone
  BY <1>3, <1>5 DEF Evicting
<1>7. PICK to \in {Idle, full} : Goes(h, to)
  BY <1>4
<1> HIDE DEF full
<1>8. /\ Placed(to) = {} /\ Unrested(to) = {} /\ Looked(to) = {} /\ Out(to) \subseteq Out(k)
      /\ Named(to) \subseteq Named(k) /\ to.at \notin {"match"} \cup Settles
  <2>1. CASE to = Idle
    BY <2>1, IdleKnows DEF Settles
  <2>2. CASE to = full
    <3>1. Out(to) = {y.entry.id : y \in full.gone} /\ Out(k) = {y.entry.id : y \in k.gone}
      BY <1>3, <1>6, <2>2 DEF Out
    <3>2. /\ Named(to) = {<<y.entry.id, y.entry.owner>> : y \in full.gone}
          /\ Named(k) = {<<y.entry.id, y.entry.owner>> : y \in k.gone}
      BY <1>3, <1>6, <2>2 DEF Named, Settles
    <3>3. /\ Placed(to) = {} /\ Unrested(to) = {} /\ Looked(to) = {}
          /\ to.at \notin {"match"} \cup Settles
      BY <1>6, <2>2 DEF Placed, Unrested, Looked, Settles
    <3>4. Out(to) \subseteq Out(k)
      BY <1>6, <3>1
    <3>5. Named(to) \subseteq Named(k)
      BY <1>6, <3>2
    <3> QED
      BY <3>3, <3>4, <3>5
  <2> QED
    BY <2>1, <2>2
<1>9. Named(k) \subseteq Claims /\ Coming(k) = {} /\ ~Unevicted(k)
  BY <1>3, NamedClaims DEF Coming, Comes, Unevicted, Settles
<1>10. /\ <<x.entry.id, x.entry.owner>> \in Claims /\ x.entry.owner \in Users
       /\ x.entry.id \notin RestingIds
  <2>1. <<x.entry.id, x.entry.owner>> \in Named(k) /\ x.entry.id \in Out(k)
    BY <1>3 DEF Named, Out, Settles
  <2>2. x.entry \in Entries
    BY <1>5 DEF Evicting
  <2>3. x.entry.owner \in Users
    BY <2>2 DEF Entries
  <2> QED
    BY <1>1, <1>9, <2>1, <2>3 DEF Apart
<1>11. /\ orders' = UNION {userOrders'[w] : w \in Users}
       /\ \A w \in Users : userOrders'[w] \subseteq userOrders[w]
       /\ orders \ orders' \subseteq {x.entry.id}
  <2> DEFINE i == x.entry.id
             u == x.entry.owner
             X == {i}
  <2>1. X \in SUBSET {i} /\ X \in SUBSET X /\ X \cap orders \subseteq X
        /\ orders' = orders \ X /\ userOrders' = [userOrders EXCEPT ![u] = @ \ X]
    BY <1>4
  <2>2. u \in Users /\ <<i, u>> \in Claims
    BY <1>10
  <2> HIDE DEF i, u, X
  <2>3. /\ orders' = UNION {userOrders'[w] : w \in Users}
        /\ \A w \in Users : userOrders'[w] \subseteq userOrders[w]
        /\ orders \ orders' \subseteq X
    BY <1>1, <2>1, <2>2, Untracking
  <2> QED
    BY <2>3 DEF X, i
<1>12. \A i \in orders \ orders' : i \notin RestingIds
  BY <1>10, <1>11
<1>13. Named(to) \subseteq Claims
  BY <1>8, <1>9
<1> HIDE DEF k
<1> QED
  BY <1>2, <1>3, <1>7, <1>8, <1>9, <1>11, <1>12, <1>13, QuietTrack DEF k

\* CancelUntrack: the cancelled order is taken off the tracking.
LEMMA CancelUntrackTrack ==
  ASSUME TrackInv, NEW h \in Handlers, CancelUntrack(h)
  PROVE  TrackInv'
<1> DEFINE k == task[h]
           i == k.entry.id
           u == k.user
           X == {i}
<1>1. IInv /\ TaskTypeOK /\ BookTypeOK /\ Agreed /\ Apart /\ Tracked
  BY DEF TrackInv, VetInv, IInv
<1>2. VetInv'
  BY RefundVet DEF TrackInv
<1>3. /\ k.at = "untrack" /\ UNCHANGED <<book, issued>> /\ Goes(h, Idle)
      /\ orders' = orders \ X /\ userOrders' = [userOrders EXCEPT ![u] = @ \ X]
  BY DEF CancelUntrack, Done, bounds
<1>4. k \in Cancelled
  BY <1>1, <1>3, TaskParts, TaskShape
<1>5. u \in Users /\ <<i, u>> \in Claims /\ i \notin RestingIds
  <2>1. <<i, u>> \in Named(k) /\ i \in Out(k)
    BY <1>3 DEF Named, Out, Settles
  <2>2. u \in Users
    BY <1>4 DEF Cancelled
  <2> QED
    BY <1>1, <2>1, <2>2, NamedClaims DEF Apart
<1>6. Coming(k) = {} /\ ~Unevicted(k)
  BY <1>3 DEF Coming, Comes, Unevicted, Settles
<1>7. X \in SUBSET {i} /\ X \in SUBSET X /\ X \cap orders \subseteq X
  OBVIOUS
<1>8. Idle.at \notin {"match"} \cup Settles
  BY IdleKnows DEF Settles
<1> HIDE DEF i, u, X, k
<1>9. /\ orders' = UNION {userOrders'[w] : w \in Users}
      /\ \A w \in Users : userOrders'[w] \subseteq userOrders[w]
      /\ orders \ orders' \subseteq X
  BY <1>1, <1>3, <1>5, <1>7, Untracking
<1>10. \A j \in orders \ orders' : j \notin RestingIds
  BY <1>5, <1>9 DEF X
<1> QED
  BY <1>2, <1>3, <1>6, <1>8, <1>9, <1>10, IdleKnows, QuietTrack DEF k

\* processPlaceOrder tracks what is left of the order it has placed: the user had
\* room for it at the cap's check, and nobody else has tracked an order since.
LEMMA FinishPlaceTrack ==
  ASSUME TrackInv, NEW h \in Handlers, FinishPlace(h)
  PROVE  TrackInv'
<1> DEFINE k == task[h]
           i == k.order.id
           u == k.order.owner
           to == [at |-> "evict"]
<1>1. /\ IInv /\ TaskTypeOK /\ BookTypeOK /\ Exclusive
      /\ Agreed /\ Apart /\ OneEach /\ Tracked /\ WithinCaps
  BY DEF TrackInv, VetInv, IInv
<1>2. VetInv'
  BY PlacementVet DEF TrackInv
<1>3. /\ k.at = "finish" /\ UNCHANGED <<book, issued>>
      /\ \/ /\ orders' = orders \cup {i}
            /\ userOrders' = [userOrders EXCEPT ![u] = @ \cup {i}]
            /\ Goes(h, to)
         \/ ~(k.left > 0) /\ Goes(h, Idle) /\ UNCHANGED trackVars
  BY DEF FinishPlace, DoneUnlocking, Done, bounds
<1>4. k.at \in Settles
  BY <1>3 DEF Settles
<1>5. u \in Users /\ Cardinality(userOrders[u]) < MaxOrdersPerUser
  BY <1>1, <1>4, SettlingAdmitted
<1>6. CASE ~(k.left > 0) /\ Goes(h, Idle) /\ UNCHANGED trackVars
  <2>1. Coming(k) = {} /\ ~Unevicted(k)
    BY <1>3, <1>6 DEF Coming, Comes, Unevicted
  <2>2. UNCHANGED <<book, trackVars, issued>>
    BY <1>3, <1>6
  <2> QED
    BY <1>2, <1>6, <2>1, <2>2, EndTrack
<1>7. CASE /\ orders' = orders \cup {i}
           /\ userOrders' = [userOrders EXCEPT ![u] = @ \cup {i}]
           /\ Goes(h, to)
  <2>1. to.at = "evict"
    OBVIOUS
  <2> HIDE DEF to
  <2>2. /\ Placed(to) = {} /\ Unrested(to) = {} /\ Looked(to) = {} /\ Out(to) = {}
        /\ Named(to) = {} /\ Coming(to) = {} /\ Unevicted(to)
        /\ to.at \notin {"match"} \cup Settles
    BY <2>1 DEF Placed, Unrested, Looked, Out, Named, Coming, Comes, Unevicted, Settles
  <2>3. Placed(k) = {i} /\ Coming(k) \subseteq {i} /\ <<i, u>> \in Named(k)
    BY <1>3 DEF Placed, Coming, Named, Settles
  <2>4. Named(k) \subseteq Claims
    BY NamedClaims
  <2>5. RestingIds' = RestingIds
    BY <1>3 DEF RestingIds
  <2> HIDE DEF i, u, k
  <2>6. /\ userOrders'[u] = userOrders[u] \cup {i}
        /\ \A w \in Users : w # u => userOrders'[w] = userOrders[w]
    BY <1>1, <1>5, <1>7 DEF BookTypeOK
  <2>7. Agreed'
    <3>1. UserClaims' \subseteq UserClaims \cup {<<i, u>>}
      <4> SUFFICES ASSUME NEW w \in Users, NEW j \in userOrders'[w]
                   PROVE  <<j, w>> \in UserClaims \/ <<j, w>> = <<i, u>>
        BY DEF UserClaims
      <4>1. j \in userOrders[w] \/ (j = i /\ w = u)
        BY <2>6
      <4> QED
        BY <4>1 DEF UserClaims
    <3>2. UserClaims' \subseteq Claims
      BY <2>3, <2>4, <3>1 DEF Claims
    <3>3. QueueOwners(book'["buy"]) \subseteq Claims /\ QueueOwners(book'["sell"]) \subseteq Claims
      BY <1>3 DEF Claims
    <3> QED
      BY <1>1, <1>3, <1>7, <2>2, <3>2, <3>3, AgreedMoves
  <2>8. Apart'
    <3>1. /\ Out(to) \cap RestingIds' = {} /\ Out(to) \subseteq orders
          /\ Looked(to) \subseteq orders
          /\ orders' \subseteq orders \cup (Placed(k) \ Placed(to))
          /\ RestingIds' \subseteq RestingIds
          /\ Placed(to) \subseteq Placed(k) /\ Unrested(to) \subseteq Unrested(k)
      BY <1>7, <2>2, <2>3, <2>5
    <3> QED
      BY <1>1, <1>7, <3>1, ApartMoves DEF k
  <2>9. OneEach'
    BY <1>1, <1>3 DEF OneEach
  <2>10. Tracked'
    <3>1. orders' = UNION {userOrders'[w] : w \in Users}
      <4>1. orders = UNION {userOrders[w] : w \in Users}
        BY <1>1 DEF Tracked
      <4>2. \A j : j \in orders' <=> j \in orders \/ j = i
        BY <1>7
      <4>3. \A j : (\E w \in Users : j \in userOrders'[w])
                   <=> (\E w \in Users : j \in userOrders[w]) \/ j = i
        BY <1>5, <2>6
      <4> QED
        BY <4>1, <4>2, <4>3
    <3>2. \A j \in RestingIds' : \/ j \in orders' \cup Coming(to)
                                 \/ j \in RestingIds /\ j \notin orders \cup Coming(k)
      BY <1>7, <2>3, <2>5
    <3> QED
      BY <1>1, <1>7, <3>1, <3>2, TrackedMoves DEF k
  <2>11. WithinCaps'
    <3>1. OrdersFit'
      <4> SUFFICES ASSUME NEW w \in Users
                   PROVE  Cardinality(userOrders'[w]) <= MaxOrdersPerUser
        BY DEF OrdersFit
      <4>1. CASE w = u
        <5> DEFINE S == userOrders[u]
                   n == Cardinality(S)
                   c == Cardinality(S \cup {i})
        <5>1. IsFiniteSet(S) /\ n \in Nat /\ n < MaxOrdersPerUser /\ MaxOrdersPerUser \in Nat
          BY <1>1, <1>5, OrdersFinite, ExtensionAssumption
        <5>2. c = n \/ c = n + 1
          <6> HIDE DEF S
          <6> QED
            BY <5>1, FS_AddElement
        <5> HIDE DEF n, c
        <5>3. c <= MaxOrdersPerUser
          BY <5>1, <5>2
        <5> QED
          BY <2>6, <4>1, <5>3 DEF c
      <4>2. CASE w # u
        BY <1>1, <2>6, <4>2 DEF WithinCaps, OrdersFit
      <4> QED
        BY <4>1, <4>2
    <3>2. task'[h] = to /\ \A g \in Handlers : g # h => task'[g] = task[g]
      BY <1>1, <1>7, OneGoes
    <3>3. ASSUME NEW g \in Handlers
          PROVE  task'[g].at \notin {"match"} \cup Settles
      <4>1. CASE g = h
        BY <2>2, <3>2, <4>1
      <4>2. CASE g # h
        <5>1. mu = h
          BY <1>1, <1>3 DEF Exclusive, Locking, k
        <5>2. task[g].at \notin Locking
          BY <1>1, <4>2, <5>1 DEF Exclusive
        <5> QED
          BY <3>2, <4>2, <5>2 DEF Locking, Settles
      <4> QED
        BY <4>1, <4>2
    <3>4. \A g \in Handlers : Admitted(task[g])'
      BY <3>3 DEF Admitted
    <3>5. \E g \in Handlers : Unevicted(task'[g])
      BY <2>2, <3>2
    <3> QED
      BY <3>1, <3>4, <3>5 DEF WithinCaps
  <2> QED
    BY <1>2, <2>7, <2>8, <2>9, <2>10, <2>11 DEF TrackInv
<1> QED
  BY <1>3, <1>6, <1>7

\* A step that takes orders out of the book, or puts one back, and nothing else.
LEMMA BookShrinks ==
  ASSUME TrackInv, VetInv', NEW h \in Handlers, NEW to, Goes(h, to),
         UNCHANGED <<orders, userOrders, issued>>,
         \A s \in Sides : /\ QueueIds(book'[s]) \subseteq QueueIds(book[s])
                          /\ QueueOwners(book'[s]) \subseteq QueueOwners(book[s]),
         OneEach',
         Named(to) \subseteq Claims, Placed(to) = {}, Looked(to) = {}, Unrested(to) = {},
         to.at \notin {"match"} \cup Settles,
         Out(to) \subseteq orders \cup Looked(task[h]) \cup Out(task[h]),
         Out(to) \cap RestingIds' = {},
         Coming(task[h]) = {},
         \/ LevelsFit'
         \/ ~Unevicted(task[h]) /\ \A s \in Sides : Levels(book'[s]) \subseteq Levels(book[s])
  PROVE  TrackInv'
<1>1. /\ IInv /\ TaskTypeOK /\ BookTypeOK
      /\ Agreed /\ Apart /\ OneEach /\ Tracked /\ WithinCaps
  BY DEF TrackInv, VetInv, IInv
<1>2. "buy" \in Sides /\ "sell" \in Sides
  BY DEF Sides
<1>3. RestingIds' \subseteq RestingIds
  BY <1>2, RestingSides, NextRestingSides
<1>4. Agreed'
  <2>1. UserClaims' = UserClaims
    BY DEF UserClaims
  <2>2. /\ UserClaims \subseteq Claims
        /\ QueueOwners(book["buy"]) \subseteq Claims /\ QueueOwners(book["sell"]) \subseteq Claims
    BY DEF Claims
  <2>3. QueueOwners(book'["buy"]) \subseteq Claims /\ QueueOwners(book'["sell"]) \subseteq Claims
    BY <1>2, <2>2
  <2>4. \A i \in Looked(to) : i <= issued
    OBVIOUS
  <2> QED
    BY <1>1, <2>1, <2>2, <2>3, <2>4, AgreedMoves
<1>5. Apart'
  <2>1. /\ Placed(to) \subseteq Placed(task[h]) /\ Unrested(to) \subseteq Unrested(task[h])
        /\ Looked(to) \subseteq orders \cup Looked(task[h])
        /\ orders' \subseteq orders \cup (Placed(task[h]) \ Placed(to))
        /\ RestingIds' \subseteq RestingIds \cup (Unrested(task[h]) \ Unrested(to))
    BY <1>3
  <2> QED
    BY <1>1, <2>1, ApartMoves
<1>6. Tracked'
  <2>1. orders' = UNION {userOrders'[u] : u \in Users}
    BY <1>1 DEF Tracked
  <2>2. \A i \in RestingIds' : \/ i \in orders' \cup Coming(to)
                               \/ i \in RestingIds /\ i \notin orders \cup Coming(task[h])
    BY <1>3
  <2> QED
    BY <1>1, <2>1, <2>2, TrackedMoves
<1>7. WithinCaps'
  <2>1. LevelsFit' \/ (~Unevicted(task[h]) /\ (LevelsFit => LevelsFit'))
    BY <1>1, FewerLevels
  <2>2. \A u \in Users : userOrders'[u] \subseteq userOrders[u]
    OBVIOUS
  <2> QED
    BY <1>1, <2>1, <2>2, CapMoves
<1> QED
  BY <1>4, <1>5, <1>6, <1>7 DEF TrackInv

\* EvictExcessLevels: what it takes out was there, with its owner, and is there
\* no more.
LEMMA EvictedBook ==
  ASSUME BookTypeOK, OneEach, book' = AfterEvict(book, MaxLevels)
  PROVE  /\ OneEach' /\ LevelsFit'
         /\ \A s \in Sides : /\ QueueIds(book'[s]) \subseteq QueueIds(book[s])
                             /\ QueueOwners(book'[s]) \subseteq QueueOwners(book[s])
         /\ \A s \in Sides : \A x \in EvictedFrom(s) :
              /\ x.entry.id \in QueueIds(book[s]) /\ x.entry.id \notin QueueIds(book'[s])
              /\ <<x.entry.id, x.entry.owner>> \in QueueOwners(book[s])
<1>1. ASSUME NEW s \in Sides
      PROVE  /\ QueueIds(book'[s]) \subseteq QueueIds(book[s])
             /\ QueueOwners(book'[s]) \subseteq QueueOwners(book[s])
             /\ Once(book'[s]) /\ Cardinality(Levels(book'[s])) <= MaxLevels
             /\ \A x \in EvictedFrom(s) :
                  /\ x.entry.id \in QueueIds(book[s]) /\ x.entry.id \notin QueueIds(book'[s])
                  /\ <<x.entry.id, x.entry.owner>> \in QueueOwners(book[s])
  <2> DEFINE queue == book[s]
             P == {i \in DOMAIN queue : Rank(s, queue, i) < MaxLevels}
             Q == {i \in DOMAIN queue : Rank(s, queue, i) >= MaxLevels}
             out == Sub(queue, Q)
  <2>1. queue \in Seq(EntrySet(OrderIds, Users)) /\ Once(queue) /\ MaxLevels \in Nat
    BY BookTypes, ExtensionAssumption DEF BookTypeOK, OneEach
  <2>2. book'[s] = Kept(s, queue, MaxLevels) /\ book'[s] = Sub(queue, P)
    BY DEF AfterEvict, Kept
  <2>3. P \in SUBSET (DOMAIN queue) /\ Q \in SUBSET (DOMAIN queue) /\ P \cap Q = {}
    <3>1. \A i \in DOMAIN queue : Rank(s, queue, i) \in Nat
      BY <2>1, BookTypes, RankType
    <3> QED
      BY <2>1, <3>1
  <2> HIDE DEF P, Q
  <2>4. Cardinality(Levels(book'[s])) <= MaxLevels
    BY <2>1, <2>2, KeptLevels
  <2>5. /\ QueueIds(book'[s]) = {queue[i].id : i \in P}
        /\ QueueIds(book'[s]) \subseteq QueueIds(queue) /\ QueueOwners(book'[s]) \subseteq QueueOwners(queue)
        /\ Once(book'[s])
    BY <2>1, <2>2, <2>3, SubParts
  <2>6. /\ QueueIds(out) = {queue[i].id : i \in Q}
        /\ QueueIds(out) \subseteq QueueIds(queue) /\ QueueOwners(out) \subseteq QueueOwners(queue)
    BY <2>1, <2>3, SubParts
  <2>7. QueueIds(out) \cap QueueIds(book'[s]) = {}
    <3> HIDE DEF queue, out
    <3> QED
      BY <2>1, <2>3, <2>5, <2>6 DEF Once
  <2>8. ASSUME NEW x \in EvictedFrom(s)
        PROVE  /\ x.entry.id \in QueueIds(book[s]) /\ x.entry.id \notin QueueIds(book'[s])
               /\ <<x.entry.id, x.entry.owner>> \in QueueOwners(book[s])
    <3>1. PICK j \in DOMAIN out : x.entry = out[j]
      BY DEF EvictedFrom, Evicted, ToSet, Q
    <3>2. x.entry.id \in QueueIds(out) /\ <<x.entry.id, x.entry.owner>> \in QueueOwners(out)
      BY <3>1 DEF QueueIds, QueueOwners
    <3> QED
      BY <2>6, <2>7, <3>2
  <2> QED
    BY <2>4, <2>5, <2>8
<1>2. OneEach'
  <2>1. QueueIds(book["buy"]) \cap QueueIds(book["sell"]) = {}
    BY DEF OneEach
  <2>2. "buy" \in Sides /\ "sell" \in Sides
    BY DEF Sides
  <2> QED
    BY <1>1, <2>1, <2>2 DEF OneEach
<1>3. LevelsFit'
  BY <1>1 DEF LevelsFit
<1> QED
  BY <1>1, <1>2, <1>3

\* EvictLevels: with nobody else settling, what is put out was tracked.
LEMMA EvictLevelsTrack ==
  ASSUME TrackInv, NEW h \in Handlers, EvictLevels(h)
  PROVE  TrackInv'
<1> DEFINE k == task[h]
           gone == UNION {EvictedFrom(s) : s \in Sides}
           full == [at |-> "evicted", gone |-> gone]
<1>1. /\ IInv /\ TaskTypeOK /\ BookTypeOK /\ Exclusive
      /\ Agreed /\ Apart /\ OneEach /\ Tracked /\ WithinCaps
  BY DEF TrackInv, VetInv, IInv
<1>2. VetInv'
  BY EvictLevelsVet DEF TrackInv
<1>3. /\ k.at = "evict" /\ UNCHANGED <<orders, userOrders, issued>>
      /\ book' = AfterEvict(book, MaxLevels)
      /\ Goes(h, Idle) \/ Goes(h, full)
  BY DEF EvictLevels, DoneUnlocking, Done, trackVars, bounds
<1>4. PICK to \in {Idle, full} : Goes(h, to)
  BY <1>3
<1>5. /\ OneEach' /\ LevelsFit'
      /\ \A s \in Sides : /\ QueueIds(book'[s]) \subseteq QueueIds(book[s])
                          /\ QueueOwners(book'[s]) \subseteq QueueOwners(book[s])
      /\ \A s \in Sides : \A x \in EvictedFrom(s) :
           /\ x.entry.id \in QueueIds(book[s]) /\ x.entry.id \notin QueueIds(book'[s])
           /\ <<x.entry.id, x.entry.owner>> \in QueueOwners(book[s])
  BY <1>1, <1>3, EvictedBook
<1>6. ASSUME NEW x \in gone
      PROVE  /\ x.entry.id \in RestingIds /\ x.entry.id \notin RestingIds'
             /\ <<x.entry.id, x.entry.owner>> \in Claims
  <2>1. PICK s \in Sides : x \in EvictedFrom(s)
    OBVIOUS
  <2>2. /\ x.entry.id \in QueueIds(book[s]) /\ x.entry.id \notin QueueIds(book'[s])
        /\ <<x.entry.id, x.entry.owner>> \in QueueOwners(book[s])
    BY <1>5, <2>1
  <2> DEFINE i == x.entry.id
             c == <<x.entry.id, x.entry.owner>>
  <2> HIDE DEF i, c
  <2>3. i \in RestingIds /\ c \in Claims
    BY <2>2, RestingSides DEF Claims, Sides, i, c
  <2>4. i \notin RestingIds'
    <3>1. QueueIds(book["buy"]) \cap QueueIds(book["sell"]) = {}
      BY <1>1 DEF OneEach
    <3>2. \A t \in Sides : QueueIds(book'[t]) \subseteq QueueIds(book[t])
      BY <1>5
    <3>3. i \in QueueIds(book[s]) /\ i \notin QueueIds(book'[s])
      BY <2>2 DEF i
    <3> QED
      BY <3>1, <3>2, <3>3, NextRestingSides DEF Sides
  <2> QED
    BY <2>3, <2>4 DEF i, c
<1>7. Coming(k) = {}
  BY <1>3 DEF Coming, Comes, Settles
<1>8. RestingIds \subseteq orders
  <2>1. ASSUME NEW g \in Handlers
        PROVE  Coming(task[g]) = {}
    <3>1. CASE g = h
      BY <1>7, <3>1
    <3>2. CASE g # h
      <4>1. mu = h
        BY <1>1, <1>3 DEF Exclusive, Locking
      <4>2. task[g].at \notin Locking
        BY <1>1, <3>2, <4>1 DEF Exclusive
      <4> QED
        BY <4>2 DEF Coming, Comes, Locking, Settles
    <3> QED
      BY <3>1, <3>2
  <2> QED
    BY <1>1, <2>1 DEF Tracked
<1> HIDE DEF gone
<1>9. /\ Placed(to) = {} /\ Unrested(to) = {} /\ Looked(to) = {}
      /\ to.at \notin {"match"} \cup Settles
      /\ Out(to) \subseteq {x.entry.id : x \in gone}
      /\ Named(to) \subseteq {<<x.entry.id, x.entry.owner>> : x \in gone}
  <2>1. CASE to = Idle
    BY <2>1, IdleKnows DEF Settles
  <2>2. CASE to = full
    <3>1. to.at = "evicted" /\ to.gone = gone
      BY <2>2
    <3> HIDE DEF full
    <3> QED
      BY <3>1 DEF Placed, Unrested, Looked, Out, Named, Settles
  <2> QED
    BY <2>1, <2>2
<1>10. /\ Out(to) \subseteq orders /\ Out(to) \cap RestingIds' = {}
       /\ Named(to) \subseteq Claims
  BY <1>6, <1>8, <1>9
<1> HIDE DEF full
<1> QED
  BY <1>2, <1>3, <1>4, <1>5, <1>7, <1>9, <1>10, BookShrinks

\* Taking one order out of the book, and putting it back behind its level.
LEMMA WithoutBook ==
  ASSUME BookTypeOK, OneEach, NEW id, NEW out, out = Without(id, book)
  PROVE  /\ out \in [Sides -> Seq(Entries)]
         /\ \A s \in Sides : /\ QueueIds(out[s]) \subseteq QueueIds(book[s]) \ {id}
                             /\ QueueOwners(out[s]) \subseteq QueueOwners(book[s])
                             /\ Levels(out[s]) \subseteq Levels(book[s])
                             /\ Once(out[s])
<1>1. out \in [Sides -> Seq(Entries)]
  BY WithoutType, BookTypes DEF BookTypeOK
<1>2. ASSUME NEW s \in Sides
      PROVE  /\ QueueIds(out[s]) \subseteq QueueIds(book[s]) \ {id}
             /\ QueueOwners(out[s]) \subseteq QueueOwners(book[s])
             /\ Levels(out[s]) \subseteq Levels(book[s])
             /\ Once(out[s])
  <2> DEFINE queue == book[s]
             P == {i \in DOMAIN queue : queue[i].id # id}
  <2>1. queue \in Seq(Entries) /\ Once(queue) /\ P \in SUBSET (DOMAIN queue)
    BY DEF BookTypeOK, OneEach
  <2>2. out[s] = Sub(queue, P)
    BY DEF Without
  <2>3. \A i \in P : queue[i].id # id
    OBVIOUS
  <2> HIDE DEF P, queue
  <2>4. /\ QueueIds(out[s]) = {queue[i].id : i \in P}
        /\ QueueIds(out[s]) \subseteq QueueIds(queue) /\ QueueOwners(out[s]) \subseteq QueueOwners(queue)
        /\ Levels(out[s]) \subseteq Levels(queue) /\ Once(out[s])
    BY <2>1, <2>2, SubParts
  <2>5. id \notin QueueIds(out[s])
    BY <2>3, <2>4
  <2> QED
    BY <2>4, <2>5 DEF queue
<1> QED
  BY <1>1, <1>2

\* Putting it back behind its level: the book has the same orders as before.
LEMMA BackInBook ==
  ASSUME BookTypeOK, OneEach, NEW s \in Sides, NEW e \in ToSet(book[s]), NEW out,
         out = Without(e.id, book), book' = [out EXCEPT ![s] = Rest(s, @, e)]
  PROVE  /\ \A t \in Sides : /\ QueueIds(book'[t]) \subseteq QueueIds(book[t])
                             /\ QueueOwners(book'[t]) \subseteq QueueOwners(book[t])
                             /\ Levels(book'[t]) \subseteq Levels(book[t])
                             /\ Once(book'[t])
<1>1. /\ out \in [Sides -> Seq(Entries)]
      /\ \A t \in Sides : /\ QueueIds(out[t]) \subseteq QueueIds(book[t]) \ {e.id}
                          /\ QueueOwners(out[t]) \subseteq QueueOwners(book[t])
                          /\ Levels(out[t]) \subseteq Levels(book[t])
                          /\ Once(out[t])
  BY WithoutBook
<1>2. PICK i \in DOMAIN book[s] : e = book[s][i]
  BY DEF ToSet
<1>3. e.id \in QueueIds(book[s]) /\ <<e.id, e.owner>> \in QueueOwners(book[s])
      /\ e.price \in Levels(book[s])
  BY <1>2 DEF QueueIds, QueueOwners, Levels
<1>4. book[s] \in Seq(Entries)
  BY DEF BookTypeOK
<1>5. e \in Entries
  BY <1>2, <1>4
<1>6. /\ book'[s] = Rest(s, out[s], e) /\ out[s] \in Seq(Entries)
      /\ \A t \in Sides : t # s => book'[t] = out[t]
  BY <1>1
<1>7. /\ QueueIds(book'[s]) = QueueIds(out[s]) \cup {e.id}
      /\ QueueOwners(book'[s]) = QueueOwners(out[s]) \cup {<<e.id, e.owner>>}
      /\ Levels(book'[s]) = Levels(out[s]) \cup {e.price}
      /\ Once(book'[s])
  <2>1. e.id \notin QueueIds(out[s]) /\ Once(out[s])
    BY <1>1
  <2> QED
    BY <1>5, <1>6, <2>1, RestParts
<1> SUFFICES ASSUME NEW t \in Sides
             PROVE  /\ QueueIds(book'[t]) \subseteq QueueIds(book[t])
                    /\ QueueOwners(book'[t]) \subseteq QueueOwners(book[t])
                    /\ Levels(book'[t]) \subseteq Levels(book[t])
                    /\ Once(book'[t])
  OBVIOUS
<1>8. CASE t = s
  <2>1. QueueIds(book'[s]) \subseteq QueueIds(book[s])
    BY <1>1, <1>3, <1>7
  <2>2. QueueOwners(book'[s]) \subseteq QueueOwners(book[s])
    BY <1>1, <1>3, <1>7
  <2>3. Levels(book'[s]) \subseteq Levels(book[s])
    BY <1>1, <1>3, <1>7
  <2> QED
    BY <1>7, <1>8, <2>1, <2>2, <2>3
<1>9. CASE t # s
  BY <1>1, <1>6, <1>9
<1> QED
  BY <1>8, <1>9

\* With fewer IDs on each side no ID gets on both.
LEMMA FewerIds ==
  ASSUME OneEach, \A s \in Sides : QueueIds(book'[s]) \subseteq QueueIds(book[s]) /\ Once(book'[s])
  PROVE  OneEach'
<1>1. "buy" \in Sides /\ "sell" \in Sides
  BY DEF Sides
<1> QED
  BY <1>1 DEF OneEach

\* OrderBook.CancelOrder: the order taken out was looked up, so nobody places it;
\* another's goes back to where it was but for its place in the level.
LEMMA CancelInBookTrack ==
  ASSUME TrackInv, NEW h \in Handlers, CancelInBook(h)
  PROVE  TrackInv'
<1> DEFINE k == task[h]
           id == k.id
           out == Without(id, book)
<1>1. /\ BookTypeOK /\ Agreed /\ Apart /\ OneEach
  BY DEF TrackInv, VetInv, IInv
<1>2. VetInv'
  BY CancelInBookVet DEF TrackInv
<1>3. k.at = "cancel" /\ UNCHANGED <<orders, userOrders, issued>>
  BY DEF CancelInBook, trackVars, bounds
<1>4. Looked(k) = {id} /\ Coming(k) = {} /\ ~Unevicted(k)
  BY <1>3 DEF Looked, Coming, Comes, Unevicted, Settles
<1>5. \/ Done(h) /\ UNCHANGED book
      \/ \E s \in Sides : \E e \in ToSet(book[s]) :
           /\ e.id = id
           /\ \/ /\ book' = out
                 /\ Goes(h, [at |-> "refund", user |-> e.owner, side |-> s, entry |-> e])
              \/ /\ book' = [out EXCEPT ![s] = Rest(s, @, e)]
                 /\ Done(h)
  BY Zenon DEF CancelInBook
<1> HIDE DEF id
<1>6. CASE Done(h) /\ UNCHANGED book
  <2>1. Goes(h, Idle) /\ UNCHANGED <<book, trackVars, issued>>
    BY <1>3, <1>6 DEF Done, trackVars
  <2> QED
    BY <1>2, <1>4, <2>1, EndTrack
<1>7. ASSUME NEW s \in Sides, NEW e \in ToSet(book[s]), e.id = id, book' = out,
             Goes(h, [at |-> "refund", user |-> e.owner, side |-> s, entry |-> e])
      PROVE  TrackInv'
  <2> DEFINE to == [at |-> "refund", user |-> e.owner, side |-> s, entry |-> e]
  <2>1. \A t \in Sides : /\ QueueIds(book'[t]) \subseteq QueueIds(book[t]) \ {id}
                         /\ QueueOwners(book'[t]) \subseteq QueueOwners(book[t])
                         /\ Levels(book'[t]) \subseteq Levels(book[t])
                         /\ Once(book'[t])
    BY <1>1, <1>7, WithoutBook
  <2>2. OneEach'
    BY <1>1, <2>1, FewerIds
  <2>3. id \notin RestingIds'
    BY <2>1, NextRestingSides DEF Sides
  <2>4. to.at = "refund" /\ to.entry = e /\ to.user = e.owner
    OBVIOUS
  <2> HIDE DEF to
  <2>5. /\ Placed(to) = {} /\ Unrested(to) = {} /\ Looked(to) = {} /\ Out(to) = {id}
        /\ Named(to) = {<<e.id, e.owner>>} /\ to.at \notin {"match"} \cup Settles
    BY <1>7, <2>4 DEF Placed, Unrested, Looked, Out, Named, Settles
  <2>6. <<e.id, e.owner>> \in Claims
    <3>1. PICK i \in DOMAIN book[s] : e = book[s][i]
      BY DEF ToSet
    <3>2. <<e.id, e.owner>> \in QueueOwners(book[s])
      BY <3>1 DEF QueueOwners
    <3> QED
      BY <3>2 DEF Claims, Sides
  <2>7. /\ Named(to) \subseteq Claims /\ Out(to) \cap RestingIds' = {}
        /\ Out(to) \subseteq orders \cup Looked(k) \cup Out(k)
    BY <1>4, <2>3, <2>5, <2>6
  <2>8. \A t \in Sides : QueueIds(book'[t]) \subseteq QueueIds(book[t])
    BY <2>1
  <2>9. Goes(h, to)
    BY <1>7 DEF to
  <2> QED
    BY <1>2, <1>3, <1>4, <2>1, <2>2, <2>5, <2>7, <2>8, <2>9, BookShrinks
<1>8. ASSUME NEW s \in Sides, NEW e \in ToSet(book[s]), e.id = id,
             book' = [out EXCEPT ![s] = Rest(s, @, e)], Done(h)
      PROVE  TrackInv'
  <2>1. \A t \in Sides : /\ QueueIds(book'[t]) \subseteq QueueIds(book[t])
                         /\ QueueOwners(book'[t]) \subseteq QueueOwners(book[t])
                         /\ Levels(book'[t]) \subseteq Levels(book[t])
                         /\ Once(book'[t])
    BY <1>1, <1>8, BackInBook
  <2>2. OneEach'
    BY <1>1, <2>1, FewerIds
  <2>3. Goes(h, Idle) /\ Idle.at \notin {"match"} \cup Settles
    BY <1>8, IdleKnows DEF Done, Settles
  <2> QED
    BY <1>2, <1>3, <1>4, <2>1, <2>2, <2>3, IdleKnows, BookShrinks
<1>9. CASE \E s \in Sides : \E e \in ToSet(book[s]) :
             /\ e.id = id
             /\ \/ /\ book' = out
                   /\ Goes(h, [at |-> "refund", user |-> e.owner, side |-> s, entry |-> e])
                \/ /\ book' = [out EXCEPT ![s] = Rest(s, @, e)]
                   /\ Done(h)
  BY <1>7, <1>8, <1>9
<1> QED
  BY <1>5, <1>6, <1>9

\* A process that has just started.
AtStart == AllIdle /\ orders = {} /\ userOrders = [u \in Users |-> {}] /\ issued \in Nat

\* At the start nothing is known of any order.
LEMMA StartTracks == AtStart => Agreed /\ Apart /\ OneEach /\ Tracked /\ WithinCaps
<1> SUFFICES ASSUME AtStart
             PROVE  Agreed /\ Apart /\ OneEach /\ Tracked /\ WithinCaps
  OBVIOUS
<1>1. /\ \A s \in Sides : book[s] = <<>>
      /\ \A h \in Handlers : task[h] = Idle
      /\ orders = {} /\ \A u \in Users : userOrders[u] = {}
  BY DEF AtStart, AllIdle
<1>2. \A s \in Sides : QueueIds(book[s]) = {} /\ QueueOwners(book[s]) = {} /\ Once(book[s])
                       /\ Levels(book[s]) = {}
  BY <1>1 DEF QueueIds, QueueOwners, Once, Levels
<1>3. "buy" \in Sides /\ "sell" \in Sides
  BY DEF Sides
<1>4. UserClaims = {}
  BY <1>1 DEF UserClaims
<1>5. Claims = {}
  BY <1>1, <1>2, <1>3, <1>4, IdleKnows DEF Claims
<1>6. RestingIds = {}
  BY <1>2, <1>3, RestingSides
<1>7. Agreed
  BY <1>1, <1>5, IdleKnows DEF Agreed
<1>8. Apart
  BY <1>1, IdleKnows DEF Apart
<1>9. OneEach
  BY <1>2, <1>3 DEF OneEach
<1>10. Tracked
  BY <1>1, <1>6 DEF Tracked
<1>11. WithinCaps
  <2>1. Cardinality({}) = 0 /\ MaxLevels \in Nat /\ MaxOrdersPerUser \in Nat
    BY FS_EmptySet, ExtensionAssumption
  <2>2. OrdersFit
    <3>1. ASSUME NEW u \in Users
          PROVE  Cardinality(userOrders[u]) <= MaxOrdersPerUser
      <4>1. userOrders[u] = {}
        BY <1>1
      <4> QED
        BY <2>1, <4>1
    <3> QED
      BY <3>1 DEF OrdersFit
  <2>3. LevelsFit
    <3>1. ASSUME NEW s \in Sides
          PROVE  Cardinality(Levels(book[s])) <= MaxLevels
      <4>1. Levels(book[s]) = {}
        BY <1>2
      <4> QED
        BY <2>1, <4>1
    <3> QED
      BY <3>1 DEF LevelsFit
  <2> QED
    BY <1>1, <2>2, <2>3, IdleKnows DEF WithinCaps
<1> QED
  BY <1>7, <1>8, <1>9, <1>10, <1>11

\* The same after a restart.
LEMMA StartTracksNext == AtStart' => (Agreed /\ Apart /\ OneEach /\ Tracked /\ WithinCaps)'
BY StartTracks, PTL

\* The initial state.
LEMMA InitTrack == Init => TrackInv
<1> SUFFICES ASSUME Init
             PROVE  TrackInv
  OBVIOUS
<1>1. AtStart
  BY DEF Init, AtStart, AllIdle
<1> QED
  BY <1>1, InitVet, StartTracks DEF TrackInv

\* What tracking says depends on the book, the requests and the tracking alone.
LEMMA TrackKept ==
  ASSUME TrackInv, VetInv', UNCHANGED <<book, orders, userOrders, task, issued>>
  PROVE  TrackInv'
<1>1. RestingIds' = RestingIds /\ Claims' = Claims
  BY DEF RestingIds, Claims, UserClaims
<1>2. Agreed'
  BY <1>1 DEF TrackInv, Agreed
<1>3. Apart'
  BY <1>1 DEF TrackInv, Apart
<1>4. OneEach'
  BY DEF TrackInv, OneEach
<1>5. Tracked'
  BY <1>1 DEF TrackInv, Tracked
<1>6. WithinCaps'
  BY DEF TrackInv, WithinCaps, OrdersFit, LevelsFit, Admitted
<1> QED
  BY <1>2, <1>3, <1>4, <1>5, <1>6 DEF TrackInv

\* Every step of every request, and a restart at any moment, keeps the invariant.
LEMMA NextTrack == TrackInv /\ [Next]_vars => TrackInv'
<1> SUFFICES ASSUME TrackInv, [Next]_vars
             PROVE  TrackInv'
  OBVIOUS
<1>1. ASSUME NEW h \in Handlers, NEW o \in Incoming, PlaceOrder(h, o)
      PROVE  TrackInv'
  BY <1>1, PlaceOrderTrack
<1>2. ASSUME NEW h \in Handlers, NEW u \in Users, NEW id \in 1..issued,
             CancelOrder(h, u, id)
      PROVE  TrackInv'
  BY <1>2, CancelOrderTrack
<1>3. ASSUME NEW h \in Handlers, Step(h)
      PROVE  TrackInv'
  BY <1>3, EnterPlaceTrack, MatchOrderTrack, SettleQuoteTrack, PanicTrack, SettleBaseTrack,
     FinishPlaceTrack, EvictLevelsTrack, RefundEvictedTrack, CancelInBookTrack,
     CancelRefundTrack, CancelUntrackTrack DEF Step
<1>4. VetInv'
  BY NextVet DEF TrackInv
<1>5. CASE UNCHANGED <<book, orders, userOrders, task, issued>>
  BY <1>4, <1>5, TrackKept
<1>6. ASSUME NEW u \in Users, NEW t \in Tokens, DepositFunds(u, t) \/ WithdrawFunds(u, t)
      PROVE  TrackInv'
  BY <1>5, <1>6 DEF DepositFunds, WithdrawFunds, External, trackVars
<1>7. CASE UNCHANGED vars
  BY <1>5, <1>7 DEF vars
<1>8. CASE Restart
  <2>1. AtStart'
    <3>1. issued' \in Nat
      BY <1>4 DEF VetInv, IInv, TaskTypeOK
    <3> QED
      BY <1>8, <3>1 DEF Restart, AllIdle, AtStart
  <2> QED
    BY <1>4, <2>1, StartTracksNext DEF TrackInv
<1>9. \A h \in Handlers, id \in 1..MaxOrders : CancelRejected(h, id) => UNCHANGED vars
  BY DEF CancelRejected
<1> QED
  BY <1>1, <1>2, <1>3, <1>6, <1>7, <1>8, <1>9 DEF Next

\* The invariant holds at all times.
LEMMA TrackInvariance == Spec => []TrackInv
BY InitTrack, NextTrack, PTL DEF Spec

-----------------------------------------------------------------------------

\* With e.mu free no request is between its hold and its return.
LEMMA FreeMeansSettled ==
  ASSUME TrackInv, mu = Free
  PROVE  \A h \in Handlers : task[h].at \notin Locking /\ Coming(task[h]) = {}
                             /\ ~Unevicted(task[h])
<1> SUFFICES ASSUME NEW h \in Handlers
             PROVE  task[h].at \notin Locking /\ Coming(task[h]) = {} /\ ~Unevicted(task[h])
  OBVIOUS
<1>1. mu # h
  BY HandlersAssumption
<1>2. task[h].at \notin Locking
  BY <1>1 DEF TrackInv, VetInv, IInv, Exclusive
<1> QED
  BY <1>2 DEF Locking, Coming, Comes, Unevicted, Settles

\* processPlaceOrder, processCancelOrder, cleanupIfFilled, handleEvictions: when
\* e.mu is free every order that rests is tracked under its owner, so that it can
\* be cancelled, limit, market and invalid orders, panics and restarts together.
THEOREM RestingOrdersTracked == Spec => []RestingIsTracked
<1>1. TrackInv => RestingIsTracked
  <2> SUFFICES ASSUME TrackInv, mu = Free
               PROVE  /\ RestingIds \subseteq orders
                      /\ orders = UNION {userOrders[u] : u \in Users}
                      /\ \A e \in Resting(book) : e.id \in userOrders[e.owner]
    BY DEF RestingIsTracked
  <2>1. Agreed /\ Tracked
    BY DEF TrackInv
  <2>2. RestingIds \subseteq orders /\ orders = UNION {userOrders[u] : u \in Users}
    BY <2>1, FreeMeansSettled DEF Tracked
  <2>3. ASSUME NEW e \in Resting(book)
        PROVE  e.id \in userOrders[e.owner]
    <3>1. PICK s \in Sides : \E i \in DOMAIN book[s] : e = book[s][i]
      BY DEF Resting
    <3>2. PICK i \in DOMAIN book[s] : e = book[s][i]
      BY <3>1
    <3> DEFINE p == <<e.id, e.owner>>
    <3>3. p \in Claims
      BY <3>2 DEF QueueOwners, Claims, Sides
    <3>4. e.id \in RestingIds
      BY DEF RestingIds
    <3>5. PICK u \in Users : e.id \in userOrders[u]
      BY <2>2, <3>4
    <3> DEFINE q == <<e.id, u>>
    <3>6. q \in Claims
      BY <3>5, UserIds
    <3>7. p[1] = q[1] /\ p[2] = e.owner /\ q[2] = u
      OBVIOUS
    <3> HIDE DEF p, q
    <3>8. e.owner = u
      BY <2>1, <3>3, <3>6, <3>7 DEF Agreed
    <3> QED
      BY <3>5, <3>8
  <2> QED
    BY <2>2, <2>3
<1> QED
  BY <1>1, TrackInvariance, PTL

\* MaxOrdersPerUser and MaxLevelsPerSide: when e.mu is free no user has more
\* orders at rest than the cap allows, though the cap is checked on what is
\* tracked, and no side has more levels.
THEOREM CapsRespected == Spec => []CapsHold
<1>1. TrackInv /\ RestingIsTracked => CapsHold
  <2> SUFFICES ASSUME TrackInv, RestingIsTracked, mu = Free
               PROVE  /\ \A u \in Users :
                           Cardinality({e \in Resting(book) : e.owner = u}) <= MaxOrdersPerUser
                      /\ \A s \in Sides : Cardinality(Levels(book[s])) <= MaxLevels
    BY DEF CapsHold
  <2>1. BookTypeOK /\ OneEach /\ WithinCaps
    BY DEF TrackInv, VetInv, IInv
  <2>2. LevelsFit
    BY <2>1, FreeMeansSettled DEF WithinCaps
  <2>3. ASSUME NEW e \in Resting(book), NEW f \in Resting(book), e.id = f.id
        PROVE  e = f
    <3>1. PICK s \in Sides : \E i \in DOMAIN book[s] : e = book[s][i]
      BY DEF Resting
    <3>2. PICK t \in Sides : \E i \in DOMAIN book[t] : f = book[t][i]
      BY DEF Resting
    <3>3. e.id \in QueueIds(book[s]) /\ f.id \in QueueIds(book[t])
      BY <3>1, <3>2 DEF QueueIds
    <3>4. s = t
      <4>1. QueueIds(book["buy"]) \cap QueueIds(book["sell"]) = {}
        BY <2>1 DEF OneEach
      <4> QED
        BY <2>3, <3>3, <4>1 DEF Sides
    <3> QED
      BY <2>1, <2>3, <3>1, <3>2, <3>4 DEF OneEach, Once
  <2>4. ASSUME NEW u \in Users
        PROVE  Cardinality({e \in Resting(book) : e.owner = u}) <= MaxOrdersPerUser
    <3> DEFINE mine == {e \in Resting(book) : e.owner = u}
               f == [e \in mine |-> e.id]
               tracked == userOrders[u]
    <3>1. \A e \in mine : f[e] \in tracked
      BY DEF RestingIsTracked
    <3>2. f \in [mine -> tracked] /\ \A e, g \in mine : f[e] = f[g] => e = g
      BY <2>3, <3>1
    <3>3. f \in Injection(mine, tracked)
      <4> HIDE DEF f, mine, tracked
      <4> QED
        BY <3>2, Fun_IsInj
    <3>4. IsFiniteSet(tracked) /\ Cardinality(tracked) \in Nat
          /\ Cardinality(tracked) <= MaxOrdersPerUser /\ MaxOrdersPerUser \in Nat
      BY <2>1, OrdersFinite, ExtensionAssumption DEF WithinCaps, OrdersFit
    <3> HIDE DEF f, mine, tracked
    <3>5. IsFiniteSet(mine) /\ Cardinality(mine) <= Cardinality(tracked)
      BY <3>3, <3>4, FS_Injection
    <3>6. Cardinality(mine) \in Nat
      BY <3>5, FS_CardinalityType
    <3>7. Cardinality(mine) <= MaxOrdersPerUser
      BY <3>4, <3>5, <3>6
    <3> QED
      BY <3>7 DEF mine
  <2> QED
    BY <2>2, <2>4 DEF LevelsFit
<1> QED
  BY <1>1, TrackInvariance, RestingOrdersTracked, PTL

-----------------------------------------------------------------------------
(* Markets with limit orders alone (LimitOnly; a request may still be      *)
(* invalid): what is held covers what is due, no product overflows, every  *)
(* match is settled in full, and what is tracked rests.  With market       *)
(* orders the code does not keep these: the runs market_settlement,        *)
(* market_overflow and market_phantom show how it fails.                   *)
(*                                                                         *)
(* First, what matching does to what is due: the hold of a limit order     *)
(* covers the legs of its fills, what rests of it and its refund, every    *)
(* product rounded down on its own.  Then, that each step takes from what  *)
(* is held no more than from what is due.  Last, what is tracked.          *)

\* The pair takes no market orders.
LimitOnly == "market" \notin Types

\* Division by the precision: what it returns is the greatest number that many
\* times the precision fits.
LEMMA DivBounds ==
  ASSUME NEW x \in Nat
  PROVE  /\ x \div PricePrecision \in Nat
         /\ (x \div PricePrecision) * PricePrecision <= x
         /\ \A n \in Nat : n * PricePrecision <= x => n <= x \div PricePrecision
<1> DEFINE d == PricePrecision
           y == x \div d
           r == x % d
<1>1. d \in Nat \ {0}
  BY ExtensionAssumption
<1>2. y \in Nat /\ r \in Nat /\ r < d /\ x = d * y + r
  BY <1>1
<1>3. \A n \in Nat : n * d <= x => n <= y
  <2> SUFFICES ASSUME NEW n \in Nat, n * d <= x, n > y
               PROVE  FALSE
    BY <1>2
  <2> HIDE DEF y, r, d
  <2>1. n >= y + 1
    BY <1>2
  <2>2. n * d >= (y + 1) * d
    <3>1. n - (y + 1) \in Nat /\ d \in Nat
      BY <1>1, <1>2, <2>1
    <3>2. (n - (y + 1)) * d \in Nat
      BY <3>1
    <3>3. n * d = (n - (y + 1)) * d + (y + 1) * d
      BY <1>1, <1>2
    <3> QED
      BY <1>1, <1>2, <3>2, <3>3
  <2>3. (y + 1) * d = d * y + d
    BY <1>1, <1>2
  <2> QED
    BY <1>1, <1>2, <2>2, <2>3
<1>4. y * d = d * y /\ d * y <= x
  <2> HIDE DEF y, r, d
  <2> QED
    BY <1>1, <1>2
<1> HIDE DEF y
<1> QED
  BY <1>2, <1>3, <1>4 DEF y

\* mulPrice rounds down: two parts of a quantity, each at no more than the
\* price of the whole, never cost more than the whole.
LEMMA MulPriceParts ==
  ASSUME NEW a \in Nat, NEW b \in Nat, NEW p \in Nat
  PROVE  MulPrice(a, p) + MulPrice(b, p) <= MulPrice(a + b, p)
<1> DEFINE d == PricePrecision
           x == a * p
           y == b * p
           m == x \div d
           n == y \div d
<1>1. x \in Nat /\ y \in Nat /\ (a + b) * p = x + y
  OBVIOUS
<1>2. d \in Nat \ {0}
  BY ExtensionAssumption
<1>3. m \in Nat /\ n \in Nat /\ m * d <= x /\ n * d <= y
  <2> HIDE DEF x, y
  <2> QED
    BY <1>1, DivBounds
<1>4. (m + n) * d <= x + y
  <2> HIDE DEF m, n, x, y, d
  <2>1. (m + n) * d = m * d + n * d
    BY <1>2, <1>3
  <2>2. m * d \in Nat /\ n * d \in Nat
    BY <1>2, <1>3
  <2> QED
    BY <1>1, <1>3, <2>1, <2>2
<1>5. m + n <= (x + y) \div d
  <2>1. m + n \in Nat /\ x + y \in Nat
    BY <1>1, <1>3
  <2> HIDE DEF m, n, x, y
  <2> QED
    BY <1>4, <2>1, DivBounds
<1> HIDE DEF x, y
<1> QED
  BY <1>1, <1>5 DEF MulPrice, x, y

\* mulPrice grows with the quantity and with the price.
LEMMA MulPriceMonotone ==
  ASSUME NEW a \in Nat, NEW b \in Nat, NEW p \in Nat, NEW q \in Nat, a <= b, p <= q
  PROVE  MulPrice(a, p) <= MulPrice(b, q)
<1> DEFINE x == a * p
           y == b * q
           m == x \div PricePrecision
<1>1. x \in Nat /\ y \in Nat /\ x <= y
  BY TimesMonotone
<1> HIDE DEF x, y
<1>2. m \in Nat /\ m * PricePrecision <= x
  BY <1>1, DivBounds
<1>3. PricePrecision \in Nat
  BY ExtensionAssumption
<1>4. m * PricePrecision <= y
  <2>1. m * PricePrecision \in Nat
    <3> HIDE DEF m
    <3> QED
      BY <1>2, <1>3
  <2> HIDE DEF m
  <2> QED
    BY <1>1, <1>2, <2>1
<1>5. m <= y \div PricePrecision
  BY <1>1, <1>2, <1>4, DivBounds
<1> QED
  BY <1>5 DEF MulPrice, x, y

\* The hold of a limit order, and the tables that weigh a side's resting orders
\* and the matches by what they may take from the hold token of the side.
LimitHold(o) == IF o.side = "buy" THEN MulPrice(o.quantity, o.price) ELSE o.quantity

Legs(side) == [m \in Matches |-> Leg(side, m)]

Releases(side, u) ==
  [e \in Entries |-> IF e.owner = u THEN CalculateRelease(side, e) ELSE 0]

LegsOf(side, u) == [m \in Matches |-> IF m.owner = u THEN Leg(side, m) ELSE 0]

\* What a fill and a resting order weigh are natural numbers.
LEMMA WeightsType ==
  ASSUME NEW side \in Sides, NEW u
  PROVE  /\ Legs(side) \in [Matches -> Nat]
         /\ LegsOf(side, u) \in [Matches -> Nat]
         /\ Releases(side, u) \in [Entries -> Nat]
BY LegType, ReleaseType DEF Legs, LegsOf, Releases

\* What a limit order may still take once it has been matched, rests or comes
\* back, is covered by its hold.
LEMMA TakerCovered ==
  ASSUME NEW o \in Incoming, o.type = "limit", NEW queue \in Seq(Entries), NEW hold
  PROVE  LET fills == Fills(o, queue)
             left == Unfilled(o, queue)
         IN  /\ left \in 0..o.quantity
             /\ TotalLegs(o.side, fills) \in Nat
             /\ CalculateRelease(o.side, Entry(o, left)) + TotalLegs(o.side, fills)
                  + Refund(o, hold, fills, left) <= LimitHold(o)
<1> DEFINE F == Fills(o, queue)
           left == Unfilled(o, queue)
           T == Total(Taken(o, queue))
           used == TotalLegs(o.side, F)
           q == o.quantity
           p == o.price
<1>1. q \in Nat /\ p \in Nat /\ o.side \in Sides
  BY IncomingType
<1>2. queue \in Seq(EntrySet(OrderIds, Users)) /\ Matches = FillSet(OrderIds, Users)
  BY BookTypes
<1>3. F \in Seq(Matches)
  BY <1>1, <1>2, FillsType
<1>4. T \in 0..q /\ left \in 0..q /\ left = q - T
  BY <1>1, <1>2, TakenTotal DEF Unfilled
<1>5. used = BookSum(F, Legs(o.side)) /\ used \in Nat
  <2>1. \A j \in DOMAIN F : F[j] \in Matches
    <3> HIDE DEF F
    <3> QED
      BY <1>3
  <2>2. used = BookSum(F, Legs(o.side))
    <3> HIDE DEF F
    <3> QED
      BY <2>1 DEF TotalLegs, BookSum, Legs
  <2>3. BookSum(F, Legs(o.side)) \in Nat
    <3> HIDE DEF F
    <3> QED
      BY <1>1, <1>3, WeightsType, SumType
  <2> QED
    BY <2>2, <2>3
<1>6. ASSUME NEW j \in DOMAIN F
      PROVE  /\ F[j] \in Matches /\ F[j].quantity \in Nat /\ F[j].price \in Nat
             /\ o.side = "buy" => F[j].price <= p
  <2>1. F[j] \in Matches
    <3> HIDE DEF F
    <3> QED
      BY <1>3
  <2>2. F[j].quantity \in Nat /\ F[j].price \in Nat
    <3> HIDE DEF F
    <3> QED
      BY <2>1 DEF Matches
  <2>3. \E i : F[j] = FillAt(o, queue, i) /\ Crosses(o, queue[i].price)
    BY <1>1, <1>2, FillsMembers
  <2>4. Crosses(o, F[j].price)
    <3> HIDE DEF F
    <3> QED
      BY <2>3 DEF FillAt
  <2>5. o.side = "buy" => F[j].price <= p
    <3> HIDE DEF F
    <3> QED
      BY <1>1, <2>2, <2>4 DEF Crosses, Better, Opposite
  <2> QED
    BY <2>1, <2>2, <2>5
<1>7. \A n, m \in Nat :
        (\A j \in DOMAIN F : Legs(o.side)[F[j]] * n <= F[j].quantity * m)
          => used * n <= T * m
  <2>1. Legs(o.side) \in [FillSet(OrderIds, Users) -> Nat]
    BY <1>1, <1>2, WeightsType
  <2>2. ASSUME NEW n \in Nat, NEW m \in Nat,
               \A j \in DOMAIN F : Legs(o.side)[F[j]] * n <= F[j].quantity * m
        PROVE  BookSum(F, Legs(o.side)) * n <= T * m
    BY <1>1, <1>2, <2>1, <2>2, FillsScale
  <2> HIDE DEF F, T, used
  <2> QED
    BY <1>5, <2>2
<1>8. CASE o.side # "buy"
  <2>1. \A j \in DOMAIN F : Legs(o.side)[F[j]] = F[j].quantity
    <3> HIDE DEF F
    <3> QED
      BY <1>6, <1>8 DEF Legs, Leg
  <2>2. \A j \in DOMAIN F : Legs(o.side)[F[j]] * 1 <= F[j].quantity * 1
    <3> HIDE DEF F
    <3> QED
      BY <1>6, <2>1
  <2>3. used * 1 <= T * 1
    <3> HIDE DEF F, T, used
    <3> QED
      BY <1>7, <2>2
  <2>4. CalculateRelease(o.side, Entry(o, left)) = left
    <3> HIDE DEF left
    <3> QED
      BY <1>8 DEF CalculateRelease, Entry
  <2>5. Refund(o, hold, F, left) = 0 /\ LimitHold(o) = q
    BY <1>8 DEF Refund, LimitHold
  <2> HIDE DEF F, T, used, left, q
  <2> QED
    BY <1>1, <1>4, <1>5, <2>3, <2>4, <2>5 DEF F, left, used, q
<1>9. CASE o.side = "buy"
  <2> DEFINE d == PricePrecision
             sized == MulPrice(T, p)
             back == Refund(o, hold, F, left)
  <2>1. d \in Nat \ {0}
    BY ExtensionAssumption
  <2>2. ASSUME NEW j \in DOMAIN F
        PROVE  Legs(o.side)[F[j]] * d <= F[j].quantity * p
    <3> DEFINE a == F[j].quantity
               b == F[j].price
    <3>1. a \in Nat /\ b \in Nat /\ b <= p /\ F[j] \in Matches
      BY <1>6, <1>9
    <3>2. Legs(o.side)[F[j]] = (a * b) \div d
      BY <1>9, <3>1 DEF Legs, Leg, MulPrice
    <3> HIDE DEF F, a, b, d
    <3>3. a * b \in Nat /\ a * b <= a * p /\ a * p \in Nat
      BY <1>1, <3>1, TimesMonotone
    <3> DEFINE x == a * b
               y == a * p
               m == x \div d
    <3>4. m \in Nat /\ m * d <= x
      <4> HIDE DEF x
      <4> QED
        BY <3>3, DivBounds DEF x, d
    <3>5. m * d <= y
      <4>1. m * d \in Nat
        <5> HIDE DEF m
        <5> QED
          BY <2>1, <3>4
      <4> HIDE DEF x, y, m
      <4> QED
        BY <3>3, <3>4, <4>1 DEF x, y
    <3> QED
      BY <3>2, <3>5 DEF a
  <2>3. used * d <= T * p
    <3> HIDE DEF F, T, used, p
    <3> QED
      BY <1>1, <1>7, <2>1, <2>2
  <2>4. T \in Nat /\ T * p \in Nat
    <3> HIDE DEF T
    <3> QED
      BY <1>1, <1>4
  <2>5. used <= sized /\ sized \in Nat
    <3> HIDE DEF T, used, d
    <3> QED
      BY <1>1, <1>5, <2>3, <2>4, DivBounds, MulPriceType DEF MulPrice, d
  <2>6. o.quantity - left = T
    <3> HIDE DEF T, left
    <3> QED
      BY <1>1, <1>4
  <2>7. back \in {0, sized - used}
    BY <2>6, <1>9 DEF Refund
  <2>8. CalculateRelease(o.side, Entry(o, left)) = MulPrice(left, p)
    <3> HIDE DEF left
    <3> QED
      BY <1>9 DEF CalculateRelease, Entry
  <2>9. MulPrice(left, p) + sized <= LimitHold(o) /\ MulPrice(left, p) \in Nat
    <3>1. left \in Nat /\ left + T = q
      <4> HIDE DEF left, T
      <4> QED
        BY <1>1, <1>4
    <3> HIDE DEF left, T
    <3> QED
      BY <1>1, <1>9, <2>4, <3>1, MulPriceParts, MulPriceType DEF LimitHold
  <2>10. LimitHold(o) \in Nat
    BY <1>1, MulPriceType DEF LimitHold
  <2> DEFINE z == MulPrice(left, p)
             l == LimitHold(o)
  <2>11. z + used + back <= l
    <3> HIDE DEF z, used, back, sized, l
    <3> QED
      BY <1>5, <2>5, <2>7, <2>9, <2>10 DEF z, l
  <2> HIDE DEF l
  <2> QED
    BY <1>4, <1>5, <2>8, <2>11 DEF l
<1> QED
  BY <1>8, <1>9

\* What matches take from the resting orders of a side and what they leave of
\* them is covered by the releases these were due.
LEMMA MakersCovered ==
  ASSUME NEW o \in Incoming, NEW queue \in Seq(Entries), NEW side \in Sides, NEW u
  PROVE  BookSum(Fills(o, queue), LegsOf(side, u))
           + BookSum(AfterFills(o, queue), Releases(side, u))
         <= BookSum(queue, Releases(side, u))
<1> DEFINE V == LegsOf(side, u)
           W == Releases(side, u)
<1>1. /\ queue \in Seq(EntrySet(OrderIds, Users)) /\ o.quantity \in Nat
      /\ V \in [FillSet(OrderIds, Users) -> Nat] /\ W \in [EntrySet(OrderIds, Users) -> Nat]
  BY IncomingType, BookTypes, WeightsType
<1>2. ASSUME NEW i \in DOMAIN queue
      PROVE  V[FillAt(o, queue, i)] + W[LeftAt(o, queue, i)] <= W[queue[i]]
  <2> DEFINE e == queue[i]
             n == Taken(o, queue)[i]
             f == FillAt(o, queue, i)
             l == LeftAt(o, queue, i)
             r == e.remaining
  <2>1. e \in Entries /\ n \in Nat /\ n <= r /\ r \in Nat /\ e.price \in Nat
    <3>1. e \in Entries
      OBVIOUS
    <3>2. r \in Nat /\ e.price \in Nat
      BY <3>1 DEF Entries
    <3> QED
      BY <1>1, <3>1, <3>2, TakenType
  <2>2. f = [maker |-> e.id, owner |-> e.owner, price |-> e.price, quantity |-> n]
    BY DEF FillAt
  <2>3. l = [e EXCEPT !.remaining = r - n]
    BY DEF LeftAt
  <2> HIDE DEF n, f, l, e
  <2>4. r - n \in Nat /\ n + (r - n) = r
    <3> HIDE DEF r
    <3> QED
      BY <2>1
  <2>5. /\ f \in Matches /\ f.owner = e.owner /\ f.price = e.price /\ f.quantity = n
        /\ l \in Entries /\ l.owner = e.owner /\ l.price = e.price /\ l.remaining = r - n
    BY <2>1, <2>2, <2>3, <2>4 DEF Matches, Entries
  <2>6. CASE e.owner # u
    <3>1. V[f] = 0 /\ W[l] = 0 /\ W[e] = 0
      BY <2>1, <2>5, <2>6 DEF LegsOf, Releases
    <3> QED
      BY <3>1 DEF f, l, e
  <2>7. CASE e.owner = u
    <3>1. V[f] = Leg(side, f) /\ W[l] = CalculateRelease(side, l)
          /\ W[e] = CalculateRelease(side, e)
      BY <2>1, <2>5, <2>7 DEF LegsOf, Releases
    <3>2. Leg(side, f) + CalculateRelease(side, l) <= CalculateRelease(side, e)
      <4>1. CASE side = "buy"
        <5>1. MulPrice(n, e.price) + MulPrice(r - n, e.price) <= MulPrice(n + (r - n), e.price)
          <6> HIDE DEF r
          <6> QED
            BY <2>1, <2>4, MulPriceParts
        <5> QED
          BY <2>4, <2>5, <4>1, <5>1 DEF Leg, CalculateRelease
      <4>2. CASE side # "buy"
        BY <2>1, <2>4, <2>5, <4>2 DEF Leg, CalculateRelease
      <4> QED
        BY <4>1, <4>2
    <3> QED
      BY <3>1, <3>2 DEF f, l, e
  <2> QED
    BY <2>6, <2>7
<1> HIDE DEF V, W
<1> QED
  BY <1>1, <1>2, MatchSum DEF V, W

\* Tokens and sides correspond.
LEMMA SideOfToken ==
  /\ \A t \in Tokens : HoldSide(t) \in Sides /\ HoldToken(HoldSide(t)) = t
  /\ \A s \in Sides : HoldToken(s) \in Tokens /\ HoldSide(HoldToken(s)) = s
BY PairAssumption DEF HoldSide, HoldToken, Sides

\* What is due to a queue, member by member.
LEMMA QueueDue ==
  ASSUME NEW queue \in Seq(Entries), NEW s \in Sides, NEW u
  PROVE  Total([i \in {i \in DOMAIN queue : queue[i].owner = u} |->
                  CalculateRelease(s, queue[i])])
           = BookSum(queue, Releases(s, u))
<1> DEFINE D == DOMAIN queue
           A == {i \in D : queue[i].owner = u}
           f == [i \in D |-> Releases(s, u)[queue[i]]]
           g == [i \in A |-> f[i]]
<1>1. \A i \in D : queue[i] \in Entries
  OBVIOUS
<1>2. \A i \in D \ A : f[i] = 0
  BY <1>1 DEF Releases
<1>3. A \subseteq D /\ DOMAIN f = D
  OBVIOUS
<1>4. Total(g) = Total(f)
  <2> HIDE DEF f, A
  <2> QED
    BY <1>2, <1>3, TotalSupport
<1>5. g = [i \in A |-> CalculateRelease(s, queue[i])]
  <2>1. \A i \in A : g[i] = CalculateRelease(s, queue[i])
    BY <1>1 DEF Releases
  <2>2. g = [i \in A |-> g[i]]
    OBVIOUS
  <2> HIDE DEF g, A
  <2> QED
    BY <2>1, <2>2
<1> QED
  BY <1>4, <1>5 DEF BookSum

\* What is due to the book, and that it is an amount.
LEMMA BookDue ==
  ASSUME BookTypeOK, NEW u \in Users, NEW t \in Tokens
  PROVE  /\ DueToBook(u, t) = BookSum(book[HoldSide(t)], Releases(HoldSide(t), u))
         /\ DueToBook(u, t) \in Nat
<1>1. HoldSide(t) \in Sides /\ book[HoldSide(t)] \in Seq(Entries)
  BY SideOfToken DEF BookTypeOK
<1>2. DueToBook(u, t) = BookSum(book[HoldSide(t)], Releases(HoldSide(t), u))
  BY <1>1, QueueDue DEF DueToBook
<1> QED
  BY <1>1, <1>2, SumType, WeightsType

\* The same after a step.
LEMMA NextBookDue ==
  ASSUME BookTypeOK', NEW u \in Users, NEW t \in Tokens
  PROVE  /\ DueToBook(u, t)' = BookSum(book'[HoldSide(t)], Releases(HoldSide(t), u))
         /\ DueToBook(u, t)' \in Nat
<1>1. HoldSide(t) \in Sides /\ book'[HoldSide(t)] \in Seq(Entries)
  BY SideOfToken DEF BookTypeOK
<1>2. DueToBook(u, t)' = BookSum(book'[HoldSide(t)], Releases(HoldSide(t), u))
  BY <1>1, QueueDue DEF DueToBook
<1> QED
  BY <1>1, <1>2, SumType, WeightsType

\* What a request may still take from u's token t: by the matches not settled,
\* and by the evicted orders not given back.
Owed(k, u, t) == {j \in Unpaid(k, t) : Payer(k, j, t) = u}

LegsDue(k, u, t) == Total([j \in Owed(k, u, t) |-> Leg(HoldSide(t), k.fills[j])])

GoneDue(gone, u, t) ==
  Total([x \in {x \in gone : x.entry.owner = u /\ x.side = HoldSide(t)} |->
           CalculateRelease(HoldSide(t), x.entry)])

IsTaker(k, u, t) == k.order.owner = u /\ k.order.side = HoldSide(t)

\* What is due to a request, by how far it has come.
LEMMA TaskDue ==
  ASSUME NEW k, NEW u, NEW t
  PROVE  /\ k.at \in {"idle", "enter", "evict", "cancel", "untrack"} => DueToTask(k, u, t) = 0
         /\ k.at = "match" => DueToTask(k, u, t) = IF IsTaker(k, u, t) THEN k.hold ELSE 0
         /\ k.at \in {"quote", "base", "finish"} =>
              DueToTask(k, u, t) =
                LegsDue(k, u, t)
                + IF IsTaker(k, u, t) THEN Refund(k.order, k.hold, k.fills, k.left) ELSE 0
         /\ k.at = "evicted" => DueToTask(k, u, t) = GoneDue(k.gone, u, t)
         /\ k.at = "refund" =>
              DueToTask(k, u, t) =
                IF k.user = u /\ k.side = HoldSide(t)
                THEN CalculateRelease(HoldSide(t), k.entry) ELSE 0
<1>1. CASE k.at \in {"idle", "enter", "evict", "cancel", "untrack"}
  BY <1>1 DEF DueToTask
<1>2. CASE k.at = "match"
  BY <1>2 DEF DueToTask, IsTaker
<1>3. CASE k.at \in {"quote", "base", "finish"}
  BY <1>3 DEF DueToTask, IsTaker, LegsDue, Owed
<1>4. CASE k.at = "evicted"
  BY <1>4 DEF DueToTask, GoneDue
<1>5. CASE k.at = "refund"
  BY <1>5 DEF DueToTask
<1> QED
  BY <1>1, <1>2, <1>3, <1>4, <1>5

\* A request that can be under way.
Legal(k) ==
  /\ k \in Tasks
  /\ k.at \in {"quote", "base"} => k.next \in DOMAIN k.fills
  /\ k.at = "evicted" => IsFiniteSet(k.gone)

\* The legs that a request has yet to pay.
LEMMA UnpaidType ==
  ASSUME NEW k, Legal(k), k.at \in {"quote", "base", "finish"}, NEW t \in Tokens, NEW u
  PROVE  /\ k \in Settling
         /\ Unpaid(k, t) \in SUBSET (DOMAIN k.fills)
         /\ Owed(k, u, t) \in SUBSET (DOMAIN k.fills) /\ IsFiniteSet(Owed(k, u, t))
         /\ [j \in Owed(k, u, t) |-> Leg(HoldSide(t), k.fills[j])] \in [Owed(k, u, t) -> Nat]
<1>1. k \in Settling /\ k.fills \in Seq(Matches) /\ k.next \in Nat
  BY TaskShape DEF Legal, Settling
<1>2. DOMAIN k.fills = 1..Len(k.fills) /\ Len(k.fills) \in Nat /\ IsFiniteSet(DOMAIN k.fills)
  BY <1>1, PositionsFinite
<1>3. k.at \in {"quote", "base"} => k.next \in 1..Len(k.fills)
  BY <1>2 DEF Legal
<1>4. Unpaid(k, t) \in SUBSET (DOMAIN k.fills)
  <2> SUFFICES ASSUME NEW j \in Unpaid(k, t)
               PROVE  j \in 1..Len(k.fills)
    BY <1>2
  <2>1. CASE k.at = "quote"
    <3>1. j \in k.next..Len(k.fills)
      BY <2>1 DEF Unpaid
    <3> QED
      BY <1>2, <1>3, <2>1, <3>1
  <2>2. CASE k.at = "base"
    <3>1. j \in k.next..Len(k.fills) \/ j \in (k.next + 1)..Len(k.fills)
      BY <2>2 DEF Unpaid
    <3> QED
      BY <1>2, <1>3, <2>2, <3>1
  <2>3. CASE k.at = "finish"
    BY <2>3 DEF Unpaid
  <2> QED
    BY <2>1, <2>2, <2>3
<1> DEFINE mine == Owed(k, u, t)
<1>5. mine \in SUBSET (DOMAIN k.fills)
  BY <1>4 DEF Owed
<1>6. IsFiniteSet(mine)
  <2> HIDE DEF mine
  <2> QED
    BY <1>2, <1>5, FS_Subset
<1>7. \A j \in mine : Leg(HoldSide(t), k.fills[j]) \in Nat
  <2> SUFFICES ASSUME NEW j \in mine
               PROVE  Leg(HoldSide(t), k.fills[j]) \in Nat
    OBVIOUS
  <2>1. k.fills[j] \in Matches
    <3> HIDE DEF mine
    <3> QED
      BY <1>1, <1>2, <1>5
  <2> QED
    BY <2>1, LegType, SideOfToken
<1> QED
  BY <1>1, <1>4, <1>5, <1>6, <1>7

\* Their total.
LEMMA LegsDueType ==
  ASSUME NEW k, Legal(k), k.at \in {"quote", "base", "finish"}, NEW t \in Tokens, NEW u
  PROVE  LegsDue(k, u, t) \in Nat
<1> DEFINE f == [j \in Owed(k, u, t) |-> Leg(HoldSide(t), k.fills[j])]
<1>1. IsFiniteSet(Owed(k, u, t)) /\ f \in [Owed(k, u, t) -> Nat]
  BY UnpaidType
<1> HIDE DEF f
<1>2. Total(f) \in Nat
  BY <1>1, UnitsFinite
<1> QED
  BY <1>2 DEF LegsDue, f

\* What is due to orders put out of the book.
LEMMA GoneDueType ==
  ASSUME NEW gone, IsFiniteSet(gone), gone \subseteq [side : Sides, entry : Entries],
         NEW t \in Tokens, NEW u
  PROVE  LET mine == {x \in gone : x.entry.owner = u /\ x.side = HoldSide(t)}
         IN  /\ IsFiniteSet(mine)
             /\ [x \in mine |-> CalculateRelease(HoldSide(t), x.entry)] \in [mine -> Nat]
             /\ GoneDue(gone, u, t) \in Nat
<1> DEFINE mine == {x \in gone : x.entry.owner = u /\ x.side = HoldSide(t)}
           f == [x \in mine |-> CalculateRelease(HoldSide(t), x.entry)]
<1>1. mine \in SUBSET gone
  OBVIOUS
<1>2. IsFiniteSet(mine)
  <2> HIDE DEF mine
  <2> QED
    BY <1>1, FS_Subset
<1>3. f \in [mine -> Nat]
  <2>1. \A x \in mine : CalculateRelease(HoldSide(t), x.entry) \in Nat
    BY ReleaseType, SideOfToken
  <2> HIDE DEF mine
  <2> QED
    BY <2>1
<1>4. Total(f) \in Nat
  <2> HIDE DEF mine, f
  <2> QED
    BY <1>2, <1>3, UnitsFinite
<1> QED
  BY <1>2, <1>3, <1>4 DEF GoneDue

\* What is due to a request is an amount.
LEMMA TaskDueType ==
  ASSUME NEW k, Legal(k), NEW u \in Users, NEW t \in Tokens
  PROVE  DueToTask(k, u, t) \in Nat
<1>1. k \in Tasks /\ HoldSide(t) \in Sides
  BY SideOfToken DEF Legal
<1>2. CASE k.at \in {"idle", "enter", "evict", "cancel", "untrack"}
  BY <1>2, TaskDue
<1>3. CASE k.at = "match"
  <2>1. k.hold \in Nat
    BY <1>1, <1>3, TaskShape DEF Entering
  <2> QED
    BY <1>3, <2>1, TaskDue
<1>4. CASE k.at \in {"quote", "base", "finish"}
  <2>1. LegsDue(k, u, t) \in Nat
    BY <1>4, LegsDueType
  <2>2. Refund(k.order, k.hold, k.fills, k.left) \in Nat
    BY <1>1, <1>4, TaskShape, RefundType DEF Settling
  <2> QED
    BY <1>4, <2>1, <2>2, TaskDue
<1>5. CASE k.at = "evicted"
  <2>1. k.gone \subseteq [side : Sides, entry : Entries] /\ IsFiniteSet(k.gone)
    BY <1>1, <1>5, TaskShape DEF Evicting, Legal
  <2>2. GoneDue(k.gone, u, t) \in Nat
    BY <2>1, GoneDueType, Zenon
  <2> QED
    BY <1>5, <2>2, TaskDue
<1>6. CASE k.at = "refund"
  <2>1. k.entry \in Entries
    BY <1>1, <1>6, TaskShape DEF Cancelled
  <2> QED
    BY <1>1, <1>6, <2>1, TaskDue, ReleaseType
<1>7. k.at \in {"idle", "enter", "evict", "cancel", "untrack", "match", "quote", "base",
                "finish", "evicted", "refund"}
  BY <1>1 DEF Tasks, Idle, Entering, Settling, Evicting, LookedUp, Cancelled
<1> QED
  BY <1>2, <1>3, <1>4, <1>5, <1>6, <1>7

\* A step of one request leaves what is due covered, if what becomes due to the
\* book and to the request grows by no more than what is held.
LEMMA DueMoves ==
  ASSUME NEW h \in Handlers, NEW to, Legal(to), \A g \in Handlers : Legal(task[g]),
         task \in [Handlers -> Tasks], Goes(h, to),
         NEW u \in Users, NEW t \in Tokens,
         DueToBook(u, t) \in Nat, DueToBook(u, t)' \in Nat,
         Held(u, t) \in Nat, Held(u, t)' \in Nat,
         Held(u, t) >= Due(u, t),
         DueToBook(u, t)' + DueToTask(to, u, t) + Held(u, t)
           <= DueToBook(u, t) + DueToTask(task[h], u, t) + Held(u, t)'
  PROVE  Held(u, t)' >= Due(u, t)'
<1> DEFINE f == [g \in Handlers |-> DueToTask(task[g], u, t)]
           n == [g \in Handlers |-> DueToTask(task'[g], u, t)]
<1>1. task'[h] = to /\ \A g \in Handlers \ {h} : task'[g] = task[g]
  BY DEF Goes
<1>2. f \in [Handlers -> Nat] /\ n \in [Handlers -> Nat]
  <2>1. \A g \in Handlers : DueToTask(task[g], u, t) \in Nat
    BY TaskDueType
  <2>2. \A g \in Handlers : DueToTask(task'[g], u, t) \in Nat
    BY <1>1, TaskDueType
  <2> QED
    BY <2>1, <2>2
<1>3. f[h] = DueToTask(task[h], u, t) /\ n[h] = DueToTask(to, u, t)
      /\ \A g \in Handlers \ {h} : n[g] = f[g]
  BY <1>1
<1>4. Due(u, t) = DueToBook(u, t) + Total(f) /\ Due(u, t)' = DueToBook(u, t)' + Total(n)
  BY DEF Due
<1> HIDE DEF f, n
<1>5. IsFiniteSet(Handlers)
  BY HandlersAssumption
<1>6. Total(n) + f[h] = Total(f) + n[h] /\ Total(n) \in Nat /\ Total(f) \in Nat
  BY <1>2, <1>3, <1>5, TotalUpdate, UnitsFinite
<1>7. f[h] \in Nat /\ n[h] \in Nat
  BY <1>2
<1> DEFINE a == DueToBook(u, t)
           b == DueToBook(u, t)'
           c == Held(u, t)
           d == Held(u, t)'
<1>8. a \in Nat /\ b \in Nat /\ c \in Nat /\ d \in Nat /\ c >= a + Total(f)
      /\ b + n[h] + c <= a + f[h] + d
  BY <1>3, <1>4
<1> HIDE DEF a, b, c, d
<1>9. d >= b + Total(n)
  BY <1>6, <1>7, <1>8
<1> QED
  BY <1>4, <1>9 DEF b, d

\* The inductive invariant: besides the types and the ledger, a request that has
\* not been matched is held for in full, and what is held covers what is due.
Sized ==
  \A h \in Handlers :
    /\ Legal(task[h])
    /\ task[h].at \in {"enter", "match"} => task[h].hold = LimitHold(task[h].order)

CoverInv == IInv /\ Sized /\ HeldCovers

\* What is held is a natural number.
LEMMA HeldType ==
  ASSUME IInv, NEW u \in Users, NEW t \in Tokens
  PROVE  Held(u, t) \in Nat
BY SupplyAssumption
   DEF IInv, BalanceInv, BalanceTypeOK, Ledger, TokenBalance, Amount, Held

\* The same after a step.
LEMMA NextHeldType ==
  ASSUME IInv', NEW u \in Users, NEW t \in Tokens
  PROVE  Held(u, t)' \in Nat
BY SupplyAssumption
   DEF IInv, BalanceInv, BalanceTypeOK, Ledger, TokenBalance, Amount, Held

\* No request is due more than is held.
LEMMA TaskWithinHeld ==
  ASSUME CoverInv, NEW h \in Handlers, NEW u \in Users, NEW t \in Tokens
  PROVE  /\ DueToTask(task[h], u, t) \in Nat
         /\ DueToTask(task[h], u, t) <= Held(u, t)
<1> DEFINE f == [g \in Handlers |-> DueToTask(task[g], u, t)]
<1>1. f \in [Handlers -> Nat] /\ f[h] = DueToTask(task[h], u, t)
  BY TaskDueType DEF CoverInv, Sized
<1>2. Held(u, t) >= DueToBook(u, t) + Total(f)
  BY DEF CoverInv, HeldCovers, Due
<1>3. DueToBook(u, t) \in Nat /\ Held(u, t) \in Nat
  BY BookDue, HeldType DEF CoverInv, IInv
<1> HIDE DEF f
<1>4. f[h] <= Total(f) /\ Total(f) \in Nat
  BY <1>1, HandlersAssumption, EntryWithinTotal, UnitsFinite
<1>5. f[h] \in Nat
  BY <1>1
<1> QED
  BY <1>1, <1>2, <1>3, <1>4, <1>5

\* A step takes a from what w has held of r, and nothing else that is held.
Pays(w, r, a) ==
  \A u \in Users, t \in Tokens :
    Held(u, t) = Held(u, t)' + IF u = w /\ t = r THEN a ELSE 0

\* A release of what is held is made, and takes it.
LEMMA ReleasePays ==
  ASSUME IInv, NEW w \in Users, NEW r \in Tokens, NEW a \in Nat, a <= Held(w, r),
         TryRelease(w, r, a)
  PROVE  Pays(w, r, a)
<1>1. \A u \in Users, t \in Tokens : Held(u, t) \in Nat
  BY HeldType
<1>2. balances \in Ledger
  BY DEF IInv, BalanceInv, BalanceTypeOK
<1>3. CASE Release(w, r, a)
  <2>1. balances' = [balances EXCEPT ![w][r] =
                      [available |-> (Available(w, r) + a) % Word,
                       held      |-> Held(w, r) - a]]
    BY <1>3 DEF Release
  <2>2. Held(w, r)' = Held(w, r) - a
    BY <1>2, <2>1 DEF Held, Ledger
  <2>3. \A u \in Users, t \in Tokens : ~(u = w /\ t = r) => Held(u, t)' = Held(u, t)
    BY <1>2, <2>1 DEF Held, Ledger
  <2> QED
    BY <1>1, <2>2, <2>3 DEF Pays
<1>4. CASE ~CanRelease(w, r, a) /\ UNCHANGED balanceVars
  <2>1. a = 0
    BY <1>1, <1>4 DEF CanRelease
  <2>2. \A u \in Users, t \in Tokens : Held(u, t)' = Held(u, t)
    BY <1>4 DEF Held, balanceVars
  <2> QED
    BY <1>1, <2>1, <2>2 DEF Pays
<1> QED
  BY <1>3, <1>4 DEF TryRelease

\* A transfer of what is held is made, and takes it from the payer.
LEMMA TransferPays ==
  ASSUME IInv, NEW w \in Users, NEW v \in Users, NEW r \in Tokens, NEW a \in Nat,
         a <= Held(w, r), TryTransfer(w, v, r, a)
  PROVE  Pays(w, r, a)
<1>1. \A u \in Users, t \in Tokens : Held(u, t) \in Nat
  BY HeldType
<1>2. balances \in Ledger
  BY DEF IInv, BalanceInv, BalanceTypeOK
<1>3. CASE Transfer(w, v, r, a)
  <2>1. balances' = [balances EXCEPT
                      ![w][r].held = Held(w, r) - a,
                      ![v][r].available = (Available(v, r) + a) % Word]
    BY <1>3 DEF Transfer
  <2>2. Held(w, r)' = Held(w, r) - a
    BY <1>2, <2>1 DEF Held, Ledger, TokenBalance
  <2>3. \A u \in Users, t \in Tokens : ~(u = w /\ t = r) => Held(u, t)' = Held(u, t)
    BY <1>2, <2>1 DEF Held, Ledger, TokenBalance
  <2> QED
    BY <1>1, <2>2, <2>3 DEF Pays
<1>4. CASE ~CanTransfer(w, r, a) /\ UNCHANGED balanceVars
  <2>1. a = 0
    BY <1>1, <1>4 DEF CanTransfer
  <2>2. \A u \in Users, t \in Tokens : Held(u, t)' = Held(u, t)
    BY <1>4 DEF Held, balanceVars
  <2> QED
    BY <1>1, <2>1, <2>2 DEF Pays
<1> QED
  BY <1>3, <1>4 DEF TryTransfer

\* A step of one request keeps the invariant, if it does so user by user and
\* token by token.
LEMMA CoverMoves ==
  ASSUME CoverInv, IInv', NEW h \in Handlers, NEW to, Legal(to), Goes(h, to),
         to.at \in {"enter", "match"} => to.hold = LimitHold(to.order),
         \A u \in Users, t \in Tokens :
           DueToBook(u, t)' + DueToTask(to, u, t) + Held(u, t)
             <= DueToBook(u, t) + DueToTask(task[h], u, t) + Held(u, t)'
  PROVE  CoverInv'
<1>1. /\ task \in [Handlers -> Tasks] /\ BookTypeOK /\ BookTypeOK'
      /\ \A g \in Handlers : Legal(task[g])
  BY DEF CoverInv, IInv, TaskTypeOK, Sized
<1>2. task'[h] = to /\ \A g \in Handlers \ {h} : task'[g] = task[g]
  BY <1>1 DEF Goes
<1>3. Sized'
  BY <1>2 DEF CoverInv, Sized
<1>4. HeldCovers'
  <2> SUFFICES ASSUME NEW u \in Users, NEW t \in Tokens
               PROVE  Held(u, t)' >= Due(u, t)'
    BY DEF HeldCovers
  <2>1. DueToBook(u, t) \in Nat /\ DueToBook(u, t)' \in Nat
    BY <1>1, BookDue, NextBookDue
  <2>2. Held(u, t) \in Nat /\ Held(u, t)' \in Nat
    BY HeldType, NextHeldType DEF CoverInv
  <2>3. Held(u, t) >= Due(u, t)
    BY DEF CoverInv, HeldCovers
  <2> QED
    BY <1>1, <2>1, <2>2, <2>3, DueMoves
<1> QED
  BY <1>3, <1>4 DEF CoverInv

\* With the book as it was, it is enough that the request pays for what it is
\* no longer due.
LEMMA PayerMoves ==
  ASSUME CoverInv, IInv', NEW h \in Handlers, NEW to, Legal(to), Goes(h, to),
         to.at \in {"enter", "match"} => to.hold = LimitHold(to.order),
         UNCHANGED book,
         NEW w, NEW r, NEW a \in Nat, Pays(w, r, a),
         \A u \in Users, t \in Tokens :
           DueToTask(to, u, t) + (IF u = w /\ t = r THEN a ELSE 0)
             <= DueToTask(task[h], u, t)
  PROVE  CoverInv'
<1> SUFFICES ASSUME NEW u \in Users, NEW t \in Tokens
             PROVE  DueToBook(u, t)' + DueToTask(to, u, t) + Held(u, t)
                      <= DueToBook(u, t) + DueToTask(task[h], u, t) + Held(u, t)'
  BY CoverMoves
<1> DEFINE a1 == IF u = w /\ t = r THEN a ELSE 0
           b == DueToBook(u, t)
           b1 == DueToBook(u, t)'
           k == DueToTask(task[h], u, t)
           k1 == DueToTask(to, u, t)
           c == Held(u, t)
           c1 == Held(u, t)'
<1>1. b1 = b /\ b \in Nat
  <2>1. b1 = b
    BY DEF DueToBook
  <2>2. b \in Nat
    BY BookDue DEF CoverInv, IInv
  <2> QED
    BY <2>1, <2>2
<1>2. k \in Nat /\ k1 \in Nat /\ k1 + a1 <= k
  BY TaskWithinHeld, TaskDueType
<1>3. c \in Nat /\ c1 \in Nat /\ c = c1 + a1 /\ a1 \in Nat
  BY HeldType, NextHeldType DEF CoverInv, Pays
<1> HIDE DEF a1, b, b1, k, k1, c, c1
<1>4. b1 + k1 + c <= b + k + c1
  BY <1>1, <1>2, <1>3
<1> QED
  BY <1>4 DEF b, b1, k, k1, c, c1

\* A request that ends is due nothing.
LEMMA IdleLegal ==
  /\ Legal(Idle) /\ Idle.at = "idle" /\ Idle.at \notin {"enter", "match"}
  /\ \A u, t : DueToTask(Idle, u, t) = 0
<1>1. Idle \in Tasks /\ Idle.at = "idle"
  BY DEF Idle, Tasks
<1> QED
  BY <1>1, TaskDue DEF Legal

\* A ledger that is not touched pays nothing.
LEMMA NothingPaid ==
  ASSUME IInv, UNCHANGED balanceVars, NEW w, NEW r
  PROVE  Pays(w, r, 0)
<1>1. \A u \in Users, t \in Tokens : Held(u, t) \in Nat /\ Held(u, t)' = Held(u, t)
  BY HeldType DEF Held, balanceVars
<1> QED
  BY <1>1 DEF Pays

\* A request that ends, or goes on, without paying, due no more than it was.
LEMMA QuietMoves ==
  ASSUME CoverInv, IInv', NEW h \in Handlers, NEW to, Legal(to), Goes(h, to),
         to.at \in {"enter", "match"} => to.hold = LimitHold(to.order),
         UNCHANGED book, UNCHANGED balanceVars,
         \A u \in Users, t \in Tokens : DueToTask(to, u, t) = 0
  PROVE  CoverInv'
<1>1. Pays(0, 0, 0)
  BY NothingPaid DEF CoverInv
<1>2. \A u \in Users, t \in Tokens :
        DueToTask(to, u, t) + (IF u = 0 /\ t = 0 THEN 0 ELSE 0) <= DueToTask(task[h], u, t)
  BY TaskWithinHeld
<1> QED
  BY <1>1, <1>2, PayerMoves

\* PlaceOrder: nothing is due before the hold.
LEMMA PlaceOrderCover ==
  ASSUME LimitOnly, CoverInv, NEW h \in Handlers, NEW o \in Incoming, PlaceOrder(h, o)
  PROVE  CoverInv'
<1>1. IInv'
  BY PlaceOrderInv DEF CoverInv
<1>2. /\ UNCHANGED book /\ UNCHANGED balanceVars /\ task[h] = Idle
      /\ \/ Goes(h, Idle)
         \/ Goes(h, [at |-> "enter", order |-> o, hold |-> CalculateHold(o)])
  BY DEF PlaceOrder, Done
<1>3. CASE Goes(h, Idle)
  BY <1>1, <1>2, <1>3, IdleLegal, QuietMoves
<1>4. CASE Goes(h, [at |-> "enter", order |-> o, hold |-> CalculateHold(o)])
  <2> DEFINE to == [at |-> "enter", order |-> o, hold |-> CalculateHold(o)]
  <2>1. o.type # "market"
    BY DEF LimitOnly, Incoming
  <2>2. CalculateHold(o) = LimitHold(o)
    BY <2>1 DEF CalculateHold, LimitHold
  <2>3. to.hold = LimitHold(to.order) /\ to.at = "enter"
    BY <2>2
  <2>4. Legal(to)
    <3>1. task'[h] = to /\ task' \in [Handlers -> Tasks]
      BY <1>1, <1>4 DEF Goes, CoverInv, IInv, TaskTypeOK
    <3>2. to \in Tasks
      BY <3>1
    <3> QED
      BY <2>3, <3>2 DEF Legal
  <2>5. \A u \in Users, t \in Tokens : DueToTask(to, u, t) = 0
    BY <2>3, TaskDue
  <2> HIDE DEF to
  <2> QED
    BY <1>1, <1>2, <1>4, <2>3, <2>4, <2>5, QuietMoves DEF to
<1> QED
  BY <1>2, <1>3, <1>4

\* A hold adds to what the user has held, and does not wrap.
LEMMA HoldTakes ==
  ASSUME IInv, NEW w \in Users, NEW r \in Tokens, NEW a \in Nat, Hold(w, r, a)
  PROVE  \A u \in Users, t \in Tokens :
           Held(u, t)' = Held(u, t) + (IF u = w /\ t = r THEN a ELSE 0)
<1>1. balances \in Ledger /\ supply \in [Tokens -> 0..MaxSupply] /\ Conserved
  BY DEF IInv, BalanceInv, BalanceTypeOK
<1>2. balances' = [balances EXCEPT ![w][r] =
                    [available |-> Available(w, r) - a,
                     held      |-> (Held(w, r) + a) % Word]]
      /\ Available(w, r) >= a
  BY DEF Hold, CanHold
<1>3. Available(w, r) \in Nat /\ Held(w, r) \in Nat
  BY <1>1, SupplyAssumption DEF Ledger, TokenBalance, Amount, Available, Held
<1>4. Available(w, r) + Held(w, r) < Word
  BY <1>1, EquityBound DEF Equity, Available, Held
<1>5. Held(w, r) + a \in Nat /\ Held(w, r) + a < Word
  BY <1>2, <1>3, <1>4, SupplyAssumption
<1>6. (Held(w, r) + a) % Word = Held(w, r) + a
  BY <1>5, FitsWord
<1>7. Held(w, r)' = Held(w, r) + a
  BY <1>1, <1>2, <1>6 DEF Ledger, Held
<1>8. \A u \in Users, t \in Tokens : ~(u = w /\ t = r) => Held(u, t)' = Held(u, t)
  BY <1>1, <1>2 DEF Ledger, Held
<1>9. \A u \in Users, t \in Tokens : Held(u, t) \in Nat
  BY HeldType
<1> QED
  BY <1>7, <1>8, <1>9

\* EnterPlace: what is due is what Hold takes.
LEMMA EnterPlaceCover ==
  ASSUME CoverInv, NEW h \in Handlers, EnterPlace(h)
  PROVE  CoverInv'
<1> DEFINE o == task[h].order
           a == task[h].hold
           r == HoldToken(o.side)
           to == [task[h] EXCEPT !.at = "match"]
<1>1. IInv'
  BY EnterPlaceInv DEF CoverInv
<1>2. task[h].at = "enter" /\ UNCHANGED book
  BY DEF EnterPlace
<1>3. /\ task[h] \in Entering /\ o \in Incoming /\ a \in Nat /\ task[h] \in Tasks
  BY <1>2, TaskParts DEF CoverInv, IInv
<1>4. o.owner \in Users /\ o.side \in Sides /\ r \in Tokens
  BY <1>3, IncomingType, HoldTokenType
<1>5. CASE Done(h) /\ UNCHANGED <<balanceVars, mu>>
  BY <1>1, <1>2, <1>5, IdleLegal, QuietMoves DEF Done
<1>6. CASE Hold(o.owner, r, a) /\ Goes(h, to)
  <2>1. /\ to \in Entering /\ to.at = "match" /\ to.order = o /\ to.hold = a
        /\ to \in Tasks
    BY <1>3 DEF Entering, Tasks
  <2>2. Legal(to)
    BY <2>1 DEF Legal
  <2>3. a = LimitHold(o)
    BY <1>2 DEF CoverInv, Sized
  <2>4. \A u \in Users, t \in Tokens :
          Held(u, t)' = Held(u, t) + (IF u = o.owner /\ t = r THEN a ELSE 0)
    <3> HIDE DEF o, a, r
    <3> QED
      BY <1>3, <1>4, <1>6, HoldTakes DEF CoverInv
  <2>5. ASSUME NEW u \in Users, NEW t \in Tokens
        PROVE  DueToBook(u, t)' + DueToTask(to, u, t) + Held(u, t)
                 <= DueToBook(u, t) + DueToTask(task[h], u, t) + Held(u, t)'
    <3>1. DueToTask(task[h], u, t) = 0
      BY <1>2, TaskDue
    <3>2. DueToTask(to, u, t) = IF o.owner = u /\ o.side = HoldSide(t) THEN a ELSE 0
      <4> HIDE DEF to
      <4> QED
        BY <2>1, TaskDue DEF IsTaker
    <3>3. o.side = HoldSide(t) => t = r
      BY <1>4, SideOfToken
    <3>4. DueToBook(u, t)' = DueToBook(u, t) /\ DueToBook(u, t) \in Nat
      <4>1. DueToBook(u, t) \in Nat
        BY BookDue DEF CoverInv, IInv
      <4>2. DueToBook(u, t)' = DueToBook(u, t)
        BY <1>2 DEF DueToBook
      <4> QED
        BY <4>1, <4>2
    <3>5. DueToTask(to, u, t) <= (IF u = o.owner /\ t = r THEN a ELSE 0)
          /\ DueToTask(to, u, t) \in Nat
      <4> HIDE DEF to, a, o, r
      <4> QED
        BY <1>3, <3>2, <3>3
    <3>6. Held(u, t) \in Nat
      BY HeldType DEF CoverInv
    <3> HIDE DEF to, a, o, r
    <3> QED
      BY <1>3, <2>4, <3>1, <3>4, <3>5, <3>6
  <2> HIDE DEF to
  <2> QED
    BY <1>1, <1>6, <2>1, <2>2, <2>3, <2>5, CoverMoves
<1> QED
  BY <1>5, <1>6 DEF EnterPlace

\* Where a request goes is legal.
LEMMA NextLegal ==
  ASSUME IInv, IInv', NEW h \in Handlers, NEW to, Goes(h, to),
         to.at = "evicted" => IsFiniteSet(to.gone)
  PROVE  Legal(to)
<1>1. task'[h] = to
  BY DEF IInv, TaskTypeOK, Goes
<1> QED
  BY <1>1 DEF IInv, TaskTypeOK, Legal

\* One match fewer to pay for.
LEMMA LegPaid ==
  ASSUME NEW k, Legal(k), k.at \in {"quote", "base", "finish"},
         NEW l, l.order = k.order, l.fills = k.fills,
         NEW u, NEW t \in Tokens, NEW n \in Unpaid(k, t),
         Unpaid(l, t) = Unpaid(k, t) \ {n}
  PROVE  LegsDue(k, u, t) = LegsDue(l, u, t)
              + IF Payer(k, n, t) = u THEN Leg(HoldSide(t), k.fills[n]) ELSE 0
<1> DEFINE A == Owed(k, u, t)
           B == Owed(l, u, t)
           f == [j \in A |-> Leg(HoldSide(t), k.fills[j])]
           g == [j \in B |-> Leg(HoldSide(t), l.fills[j])]
<1>1. IsFiniteSet(A) /\ f \in [A -> Nat]
  BY UnpaidType
<1>2. LegsDue(k, u, t) = Total(f) /\ LegsDue(l, u, t) = Total(g)
  BY DEF LegsDue
<1>3. Total(f) \in Nat
  <2> HIDE DEF f, A
  <2> QED
    BY <1>1, UnitsFinite
<1>4. \A j : Payer(l, j, t) = Payer(k, j, t)
  BY DEF Payer
<1>5. CASE Payer(k, n, t) = u
  <2>1. n \in A /\ B = A \ {n}
    BY <1>4, <1>5 DEF Owed
  <2>2. g = [j \in A \ {n} |-> f[j]] /\ f[n] = Leg(HoldSide(t), k.fills[n])
    <3> HIDE DEF A, B
    <3> QED
      BY <2>1
  <2>3. Total(f) = Total([j \in A \ {n} |-> f[j]]) + f[n]
    <3> HIDE DEF A, B, f, g
    <3> QED
      BY <1>1, <2>1, TotalRemove
  <2> HIDE DEF f, g
  <2> QED
    BY <1>2, <1>3, <1>5, <2>2, <2>3
<1>6. CASE Payer(k, n, t) # u
  <2>1. B = A
    BY <1>4, <1>6 DEF Owed
  <2>2. g = f
    BY <2>1
  <2> HIDE DEF f, g
  <2> QED
    BY <1>2, <1>3, <1>6, <2>2
<1> QED
  BY <1>5, <1>6

\* What is due depends on the legs that are not paid yet.
LEMMA LegsKept ==
  ASSUME NEW k, NEW l, l.order = k.order, l.fills = k.fills,
         NEW u, NEW t \in Tokens, Unpaid(l, t) = Unpaid(k, t)
  PROVE  LegsDue(l, u, t) = LegsDue(k, u, t)
BY DEF LegsDue, Owed, Payer

\* A step of a settlement pays the leg of one match in one token.
LEMMA SettleMoves ==
  ASSUME CoverInv, IInv', NEW h \in Handlers, NEW to, Goes(h, to), UNCHANGED book,
         task[h].at \in {"quote", "base"}, to.at \in {"quote", "base", "finish"},
         to.order = task[h].order, to.fills = task[h].fills,
         to.hold = task[h].hold, to.left = task[h].left,
         NEW r \in Tokens, NEW w \in Users, NEW v \in Users,
         LET n == task[h].next
             a == Leg(HoldSide(r), task[h].fills[n])
         IN  /\ n \in Unpaid(task[h], r)
             /\ Unpaid(to, r) = Unpaid(task[h], r) \ {n}
             /\ \A t \in Tokens \ {r} : Unpaid(to, t) = Unpaid(task[h], t)
             /\ w = Payer(task[h], n, r)
             /\ TryTransfer(w, v, r, a)
  PROVE  CoverInv'
<1> DEFINE k == task[h]
           n == task[h].next
           a == Leg(HoldSide(r), task[h].fills[n])
<1>1. Legal(k) /\ Legal(to) /\ k.at \in {"quote", "base", "finish"}
  BY NextLegal DEF CoverInv, Sized
<1>2. a \in Nat
  <2>1. NextFill(h) \in Matches
    BY TaskParts DEF CoverInv, IInv
  <2> QED
    BY <2>1, LegType, SideOfToken DEF NextFill
<1>3. \A u \in Users, t \in Tokens :
        /\ DueToTask(k, u, t) \in Nat
        /\ DueToTask(k, u, t) = LegsDue(k, u, t)
             + IF IsTaker(k, u, t) THEN Refund(k.order, k.hold, k.fills, k.left) ELSE 0
        /\ DueToTask(to, u, t) = LegsDue(to, u, t)
             + IF IsTaker(k, u, t) THEN Refund(k.order, k.hold, k.fills, k.left) ELSE 0
  <2>1. \A u, t : IsTaker(to, u, t) = IsTaker(k, u, t)
    BY DEF IsTaker
  <2>2. \A u \in Users, t \in Tokens : DueToTask(k, u, t) \in Nat
    BY <1>1, TaskDueType
  <2> QED
    BY <1>1, <2>1, <2>2, TaskDue
<1>4. k.order \in Incoming /\ Refund(k.order, k.hold, k.fills, k.left) \in Nat
  <2>1. /\ k.order \in Incoming /\ k.hold \in Nat /\ k.fills \in Seq(Matches)
        /\ k.left \in Int
    BY TaskParts DEF CoverInv, IInv
  <2> QED
    BY <2>1, RefundType
<1>5. ASSUME NEW u \in Users, NEW t \in Tokens
      PROVE  /\ LegsDue(to, u, t) + (IF u = w /\ t = r THEN a ELSE 0) = LegsDue(k, u, t)
             /\ LegsDue(k, u, t) \in Nat
  <2>1. LegsDue(k, u, t) \in Nat
    BY <1>1, LegsDueType
  <2>2. CASE t # r
    <3>1. LegsDue(to, u, t) = LegsDue(k, u, t)
      BY <2>2, LegsKept
    <3> HIDE DEF k, a
    <3> QED
      BY <2>1, <2>2, <3>1
  <2>3. CASE t = r
    <3>1. LegsDue(k, u, r) = LegsDue(to, u, r)
            + IF Payer(k, n, r) = u THEN a ELSE 0
      BY <1>1, LegPaid
    <3>2. Payer(k, n, r) = w
      OBVIOUS
    <3>3. LegsDue(to, u, r) \in Nat
      BY <1>1, LegsDueType
    <3> HIDE DEF k, n, a
    <3> QED
      BY <1>2, <2>1, <2>3, <3>1, <3>2, <3>3
  <2> QED
    BY <2>2, <2>3
<1>6. \A u \in Users, t \in Tokens :
        DueToTask(to, u, t) + (IF u = w /\ t = r THEN a ELSE 0) <= DueToTask(k, u, t)
  <2> SUFFICES ASSUME NEW u \in Users, NEW t \in Tokens
               PROVE  DueToTask(to, u, t) + (IF u = w /\ t = r THEN a ELSE 0)
                        <= DueToTask(k, u, t)
    OBVIOUS
  <2> DEFINE b == IF u = w /\ t = r THEN a ELSE 0
             c == IF IsTaker(k, u, t) THEN Refund(k.order, k.hold, k.fills, k.left) ELSE 0
             x == LegsDue(to, u, t)
             y == LegsDue(k, u, t)
  <2>1. DueToTask(k, u, t) = y + c /\ DueToTask(to, u, t) = x + c
    BY <1>3
  <2>2. x + b = y /\ y \in Nat /\ b \in Nat /\ c \in Nat
    BY <1>2, <1>4, <1>5
  <2>3. x \in Nat
    BY <1>1, LegsDueType
  <2> HIDE DEF b, c, x, y
  <2>4. x + c + b <= y + c
    BY <2>2, <2>3
  <2> QED
    BY <2>1, <2>4 DEF b
<1>7. a <= Held(w, r)
  <2> DEFINE d == DueToTask(k, w, r)
             d1 == DueToTask(to, w, r)
  <2>1. d1 + a <= d
    BY <1>6
  <2>2. d <= Held(w, r) /\ d \in Nat /\ Held(w, r) \in Nat /\ d1 \in Nat
    BY <1>1, TaskWithinHeld, TaskDueType, HeldType DEF CoverInv
  <2> HIDE DEF d, d1, a
  <2> QED
    BY <1>2, <2>1, <2>2
<1>8. Pays(w, r, a)
  <2>1. TryTransfer(w, v, r, a)
    OBVIOUS
  <2> HIDE DEF a
  <2> QED
    BY <1>2, <1>7, <2>1, TransferPays DEF CoverInv
<1>9. to.at \notin {"enter", "match"}
  OBVIOUS
<1> HIDE DEF a
<1> QED
  BY <1>1, <1>2, <1>6, <1>8, <1>9, PayerMoves

\* SettleQuote: the transfer is made and takes what was due of the quote token.
LEMMA SettleQuoteCover ==
  ASSUME CoverInv, NEW h \in Handlers, SettleQuote(h)
  PROVE  CoverInv'
<1> DEFINE k == task[h]
           to == [task[h] EXCEPT !.at = "base"]
           n == task[h].next
<1>1. IInv'
  BY SettleQuoteInv DEF CoverInv
<1>2. /\ k.at = "quote" /\ UNCHANGED book /\ Goes(h, to)
      /\ TryTransfer(Buyer(h), Seller(h), Quote, Leg("buy", NextFill(h)))
  BY DEF SettleQuote
<1>3. k \in Settling /\ n \in DOMAIN k.fills /\ k.fills \in Seq(Matches)
  BY <1>2, TaskParts DEF CoverInv, IInv
<1>4. /\ to.at = "base" /\ to.order = k.order /\ to.fills = k.fills
      /\ to.hold = k.hold /\ to.left = k.left /\ to.next = n
  BY <1>3 DEF Settling
<1>5. n \in Nat /\ Len(k.fills) \in Nat /\ n \in 1..Len(k.fills)
  <2>1. DOMAIN k.fills = 1..Len(k.fills) /\ Len(k.fills) \in Nat
    <3> HIDE DEF k
    <3> QED
      BY <1>3, PositionsFinite
  <2> HIDE DEF k, n
  <2> QED
    BY <1>3, <2>1
<1>6. Base # Quote /\ HoldSide(Quote) = "buy" /\ Quote \in Tokens /\ Tokens = {Base, Quote}
  BY PairAssumption DEF HoldSide
<1>7. Unpaid(k, Quote) = n..Len(k.fills) /\ Unpaid(k, Base) = n..Len(k.fills)
  BY <1>2 DEF Unpaid
<1>8. Unpaid(to, Quote) = (n + 1)..Len(k.fills) /\ Unpaid(to, Base) = n..Len(k.fills)
  <2> HIDE DEF to, k, n
  <2> QED
    BY <1>4, <1>6 DEF Unpaid
<1>9. n \in Unpaid(k, Quote) /\ Unpaid(to, Quote) = Unpaid(k, Quote) \ {n}
  <2> HIDE DEF to, k, n
  <2> QED
    BY <1>5, <1>7, <1>8
<1>10. Payer(k, n, Quote) = Buyer(h)
  BY <1>6 DEF Payer, Buyer, NextFill
<1>11. Buyer(h) \in Users /\ Seller(h) \in Users
  BY <1>2, PartiesType DEF CoverInv, IInv
<1>12. NextFill(h) = k.fills[n]
  BY DEF NextFill
<1> HIDE DEF to
<1> QED
  BY <1>1, <1>2, <1>4, <1>6, <1>7, <1>8, <1>9, <1>10, <1>11, <1>12, SettleMoves

\* SettleBase: the transfer is made and takes what was due of the base token.
LEMMA SettleBaseCover ==
  ASSUME CoverInv, NEW h \in Handlers, SettleBase(h)
  PROVE  CoverInv'
<1> DEFINE k == task[h]
           n == task[h].next
           onward == [task[h] EXCEPT !.at = "quote", !.next = @ + 1]
           finished == [task[h] EXCEPT !.at = "finish"]
<1>1. IInv'
  BY SettleBaseInv DEF CoverInv
<1>2. /\ k.at = "base" /\ UNCHANGED book
      /\ TryTransfer(Seller(h), Buyer(h), Base, Leg("sell", NextFill(h)))
      /\ \/ n < Len(k.fills) /\ Goes(h, onward)
         \/ ~(n < Len(k.fills)) /\ Goes(h, finished)
  BY DEF SettleBase
<1>3. k \in Settling /\ n \in DOMAIN k.fills /\ k.fills \in Seq(Matches)
  BY <1>2, TaskParts DEF CoverInv, IInv
<1>4. /\ onward.at = "quote" /\ onward.order = k.order /\ onward.fills = k.fills
      /\ onward.hold = k.hold /\ onward.left = k.left /\ onward.next = n + 1
      /\ finished.at = "finish" /\ finished.order = k.order /\ finished.fills = k.fills
      /\ finished.hold = k.hold /\ finished.left = k.left
  BY <1>3 DEF Settling
<1>5. n \in Nat /\ Len(k.fills) \in Nat /\ n \in 1..Len(k.fills)
  <2>1. DOMAIN k.fills = 1..Len(k.fills) /\ Len(k.fills) \in Nat
    <3> HIDE DEF k
    <3> QED
      BY <1>3, PositionsFinite
  <2> HIDE DEF k, n
  <2> QED
    BY <1>3, <2>1
<1>6. Base # Quote /\ HoldSide(Base) = "sell" /\ Base \in Tokens /\ Tokens = {Base, Quote}
  BY PairAssumption DEF HoldSide
<1>7. Unpaid(k, Quote) = (n + 1)..Len(k.fills) /\ Unpaid(k, Base) = n..Len(k.fills)
  BY <1>2, <1>6 DEF Unpaid
<1>8. PICK to : /\ Goes(h, to) /\ to.at \in {"quote", "finish"}
                /\ to.order = k.order /\ to.fills = k.fills
                /\ to.hold = k.hold /\ to.left = k.left
                /\ Unpaid(to, Quote) = (n + 1)..Len(k.fills)
                /\ Unpaid(to, Base) = (n + 1)..Len(k.fills)
  <2>1. CASE n < Len(k.fills) /\ Goes(h, onward)
    <3>1. Unpaid(onward, Quote) = (n + 1)..Len(k.fills)
          /\ Unpaid(onward, Base) = (n + 1)..Len(k.fills)
      <4> HIDE DEF onward, k, n
      <4> QED
        BY <1>4 DEF Unpaid
    <3> HIDE DEF onward, k, n
    <3> QED
      BY <1>4, <2>1, <3>1
  <2>2. CASE ~(n < Len(k.fills)) /\ Goes(h, finished)
    <3>1. Unpaid(finished, Quote) = {} /\ Unpaid(finished, Base) = {}
      <4> HIDE DEF finished, k, n
      <4> QED
        BY <1>4 DEF Unpaid
    <3>2. (n + 1)..Len(k.fills) = {}
      <4> HIDE DEF k, n
      <4> QED
        BY <1>5, <2>2
    <3> HIDE DEF finished, k, n
    <3> QED
      BY <1>4, <2>2, <3>1, <3>2
  <2> QED
    BY <1>2, <2>1, <2>2
<1>9. n \in Unpaid(k, Base) /\ Unpaid(to, Base) = Unpaid(k, Base) \ {n}
      /\ Unpaid(to, Quote) = Unpaid(k, Quote)
  <2> HIDE DEF k, n
  <2> QED
    BY <1>5, <1>7, <1>8
<1>10. Payer(k, n, Base) = Seller(h)
  BY <1>6 DEF Payer, Seller, NextFill
<1>11. Buyer(h) \in Users /\ Seller(h) \in Users
  BY <1>2, PartiesType DEF CoverInv, IInv
<1>12. NextFill(h) = k.fills[n]
  BY DEF NextFill
<1>13. TryTransfer(Seller(h), Buyer(h), Base, Leg(HoldSide(Base), k.fills[n]))
  <2> HIDE DEF k, n
  <2> QED
    BY <1>2, <1>6, <1>12
<1>14. \A t \in Tokens \ {Base} : Unpaid(to, t) = Unpaid(k, t)
  <2> HIDE DEF k, n
  <2> QED
    BY <1>6, <1>9
<1> HIDE DEF onward, finished
<1>15. UNCHANGED book /\ k.at = "base" /\ to.at \in {"quote", "base", "finish"}
  BY <1>2, <1>8
<1> QED
  BY <1>1, <1>6, <1>8, <1>9, <1>10, <1>11, <1>13, <1>14, <1>15, SettleMoves

\* Panic: what is due to a request that is gone is due no more.
LEMMA PanicCover ==
  ASSUME CoverInv, NEW h \in Handlers, Panic(h)
  PROVE  CoverInv'
<1>1. IInv'
  BY PanicInv DEF CoverInv
<1>2. Goes(h, Idle) /\ UNCHANGED book /\ UNCHANGED balanceVars
  BY DEF Panic, DoneUnlocking, Done
<1> QED
  BY <1>1, <1>2, IdleLegal, QuietMoves

\* FinishPlace: the refund is made and takes what was due.
LEMMA FinishPlaceCover ==
  ASSUME CoverInv, NEW h \in Handlers, FinishPlace(h)
  PROVE  CoverInv'
<1> DEFINE k == task[h]
           o == task[h].order
           r == HoldToken(o.side)
           back == Refund(o, k.hold, k.fills, k.left)
<1>1. IInv'
  BY FinishPlaceInv DEF CoverInv
<1>2. /\ k.at = "finish" /\ UNCHANGED book
      /\ TryRelease(o.owner, r, back)
      /\ Goes(h, [at |-> "evict"]) \/ Goes(h, Idle)
  BY DEF FinishPlace, DoneUnlocking, Done
<1>3. /\ o \in Incoming /\ k.hold \in Nat /\ k.fills \in Seq(Matches) /\ k.left \in Int
  BY <1>2, TaskParts DEF CoverInv, IInv
<1>4. o.owner \in Users /\ o.side \in Sides /\ r \in Tokens /\ back \in Nat
  BY <1>3, IncomingType, HoldTokenType, RefundType
<1>5. PICK to \in {Idle, [at |-> "evict"]} : Goes(h, to)
  BY <1>2
<1>6. Legal(to) /\ to.at \in {"idle", "evict"}
  <2>1. [at |-> "evict"] \in Tasks
    BY DEF Tasks
  <2> QED
    BY <2>1, IdleLegal DEF Legal
<1>7. Legal(k)
  BY DEF CoverInv, Sized
<1>8. \A u \in Users, t \in Tokens :
        DueToTask(to, u, t) + (IF u = o.owner /\ t = r THEN back ELSE 0) <= DueToTask(k, u, t)
  <2> SUFFICES ASSUME NEW u \in Users, NEW t \in Tokens
               PROVE  DueToTask(to, u, t) + (IF u = o.owner /\ t = r THEN back ELSE 0)
                        <= DueToTask(k, u, t)
    OBVIOUS
  <2>1. DueToTask(to, u, t) = 0
    BY <1>6, TaskDue
  <2>2. DueToTask(k, u, t) = LegsDue(k, u, t) + IF IsTaker(k, u, t) THEN back ELSE 0
    BY <1>2, TaskDue
  <2>3. LegsDue(k, u, t) \in Nat
    BY <1>2, <1>7, LegsDueType
  <2>4. u = o.owner /\ t = r => IsTaker(k, u, t)
    BY <1>4, SideOfToken DEF IsTaker
  <2> HIDE DEF k, o, r, back
  <2> QED
    BY <1>4, <2>1, <2>2, <2>3, <2>4
<1>9. back <= Held(o.owner, r)
  <2>1. DueToTask(to, o.owner, r) = 0
    BY <1>6, TaskDue
  <2>2. DueToTask(to, o.owner, r) + back <= DueToTask(k, o.owner, r)
    BY <1>4, <1>8
  <2>3. DueToTask(k, o.owner, r) <= Held(o.owner, r) /\ DueToTask(k, o.owner, r) \in Nat
        /\ Held(o.owner, r) \in Nat
    BY <1>4, TaskWithinHeld, HeldType DEF CoverInv
  <2> HIDE DEF k, o, r, back
  <2> QED
    BY <1>4, <2>1, <2>2, <2>3
<1>10. Pays(o.owner, r, back)
  <2> HIDE DEF k, o, r, back
  <2> QED
    BY <1>2, <1>4, <1>9, ReleasePays DEF CoverInv
<1> HIDE DEF r, back
<1> QED
  BY <1>1, <1>2, <1>4, <1>5, <1>6, <1>8, <1>10, PayerMoves

\* What is evicted is due what it was due in the book.
LEMMA EvictedDue ==
  ASSUME BookTypeOK, NEW u \in Users, NEW t \in Tokens
  PROVE  LET s == HoldSide(t)
             gone == UNION {EvictedFrom(x) : x \in Sides}
         IN  BookSum(AfterEvict(book, MaxLevels)[s], Releases(s, u)) + GoneDue(gone, u, t)
               <= BookSum(book[s], Releases(s, u))
<1> DEFINE s == HoldSide(t)
           gone == UNION {EvictedFrom(x) : x \in Sides}
           q == book[s]
           D == DOMAIN q
           P == {i \in D : Rank(s, q, i) < MaxLevels}
           E == {i \in D : Rank(s, q, i) >= MaxLevels}
           W == Releases(s, u)
           X == {x \in gone : x.entry.owner = u /\ x.side = s}
           g == [x \in X |-> CalculateRelease(s, x.entry)]
           at == [x \in X |-> CHOOSE i \in E : q[i] = x.entry]
<1>1. s \in Sides /\ q \in Seq(Entries) /\ W \in [Entries -> Nat]
  BY SideOfToken, WeightsType DEF BookTypeOK
<1>2. MaxLevels \in Nat /\ \A i \in D : Rank(s, q, i) \in Nat
  <2> HIDE DEF s, q
  <2> QED
    BY <1>1, RankType, ExtensionAssumption
<1>3. P \in SUBSET D /\ E \in SUBSET D /\ E \cap P = {}
  <2> HIDE DEF s, q
  <2> QED
    BY <1>2
<1>4. ASSUME NEW x \in X
      PROVE  /\ \E i \in E : q[i] = x.entry
             /\ x = [side |-> s, entry |-> x.entry]
  <2>1. PICK y \in Sides : x \in EvictedFrom(y)
    OBVIOUS
  <2>2. PICK e \in ToSet(Evicted(y, book[y], MaxLevels)) : x = [side |-> y, entry |-> e]
    BY <2>1 DEF EvictedFrom
  <2>3. x.side = s /\ y = s /\ x.entry = e
    BY <2>2
  <2>4. PICK k \in DOMAIN Sub(q, E) : e = Sub(q, E)[k]
    BY <2>2, <2>3 DEF ToSet, Evicted
  <2>5. Nth(E, k) \in E /\ Sub(q, E)[k] = q[Nth(E, k)]
    <3> HIDE DEF q, E, s
    <3> QED
      BY <1>1, <1>3, SubMembers
  <2> HIDE DEF E, q, s
  <2> QED
    BY <2>2, <2>3, <2>4, <2>5
<1>5. \A x \in X : at[x] \in E /\ q[at[x]] = x.entry
  <2> HIDE DEF X, E, q
  <2> QED
    BY <1>4
<1>6. at \in Injection(X, D)
  <2>1. at \in [X -> D]
    <3> HIDE DEF X, E, q, D
    <3> QED
      BY <1>3, <1>5
  <2>2. \A x, y \in X : at[x] = at[y] => x = y
    <3> HIDE DEF X, E, q, D, at, s
    <3> QED
      BY <1>4, <1>5
  <2> HIDE DEF X, E, q, D, at
  <2> QED
    BY <2>1, <2>2 DEF Injection, IsInjective
<1>7. ASSUME NEW x \in X
      PROVE  at[x] \notin P /\ g[x] \in Nat /\ g[x] <= W[q[at[x]]]
  <2>1. at[x] \in E /\ q[at[x]] = x.entry
    BY <1>5
  <2>2. q[at[x]] \in Entries
    <3> HIDE DEF q, at, X
    <3> QED
      BY <1>1, <1>3, <2>1
  <2>3. x.entry.owner = u
    OBVIOUS
  <2>4. W[x.entry] = CalculateRelease(s, x.entry)
    BY <2>1, <2>2, <2>3 DEF Releases
  <2>5. g[x] = CalculateRelease(s, x.entry)
    OBVIOUS
  <2>6. W[x.entry] \in Nat
    <3> HIDE DEF W, q, at, X
    <3> QED
      BY <1>1, <2>1, <2>2
  <2> HIDE DEF W, q, at, X, E, P, g, s
  <2> QED
    BY <1>3, <2>1, <2>4, <2>5, <2>6
<1>8. g \in [X -> Nat]
  <2>1. \A x \in X : g[x] \in Nat
    BY <1>7
  <2>2. g = [x \in X |-> g[x]]
    OBVIOUS
  <2> HIDE DEF g, X
  <2> QED
    BY <2>1, <2>2
<1>9. BookSum(Sub(q, P), W) + Total(g) <= BookSum(q, W)
  <2>1. \A x \in X : at[x] \notin P /\ g[x] <= W[q[at[x]]]
    BY <1>7
  <2> HIDE DEF W, q, at, X, E, P, g
  <2> QED
    BY <1>1, <1>3, <1>6, <1>8, <2>1, SplitSum DEF D
<1>10. AfterEvict(book, MaxLevels)[s] = Sub(q, P)
  BY <1>1 DEF AfterEvict, Kept
<1>11. GoneDue(gone, u, t) = Total(g)
  BY DEF GoneDue
<1> HIDE DEF gone, P, q, g
<1> QED
  BY <1>9, <1>10, <1>11 DEF gone, q

\* EvictLevels: what was due to the book is due to the evicted orders.
LEMMA EvictLevelsCover ==
  ASSUME CoverInv, NEW h \in Handlers, EvictLevels(h)
  PROVE  CoverInv'
<1> DEFINE gone == UNION {EvictedFrom(s) : s \in Sides}
           full == [at |-> "evicted", gone |-> gone]
<1>1. IInv' /\ BookTypeOK /\ BookTypeOK'
  BY EvictLevelsInv DEF CoverInv, IInv
<1>2. /\ task[h].at = "evict" /\ UNCHANGED balanceVars
      /\ book' = AfterEvict(book, MaxLevels)
      /\ \/ gone = {} /\ Goes(h, Idle)
         \/ Goes(h, full)
  BY DEF EvictLevels, DoneUnlocking, Done
<1>3. IsFiniteSet(gone)
  BY <1>1, GoneFinite
<1>4. gone \subseteq [side : Sides, entry : Entries]
  <2> SUFFICES ASSUME NEW s \in Sides, NEW e \in ToSet(Evicted(s, book[s], MaxLevels))
               PROVE  e \in Entries
    BY DEF EvictedFrom
  <2>1. Evicted(s, book[s], MaxLevels) \in Seq(Entries)
    BY <1>1, AfterEvictType, BookTypes DEF BookTypeOK
  <2> QED
    BY <2>1 DEF ToSet
<1>5. PICK to \in {Idle, full} : Goes(h, to)
  BY <1>2
<1> HIDE DEF gone
<1>6. Legal(to) /\ to.at \in {"idle", "evicted"}
  <2>1. CASE to = Idle
    BY <2>1, IdleLegal
  <2>2. CASE to = full
    <3>1. full \in Tasks /\ full.at = "evicted" /\ full.gone = gone
      BY <1>4 DEF Tasks, Evicting
    <3> HIDE DEF full
    <3> QED
      BY <1>3, <2>2, <3>1 DEF Legal
  <2> QED
    BY <2>1, <2>2
<1>7. ASSUME NEW u \in Users, NEW t \in Tokens
      PROVE  DueToBook(u, t)' + DueToTask(to, u, t) + Held(u, t)
               <= DueToBook(u, t) + DueToTask(task[h], u, t) + Held(u, t)'
  <2> DEFINE a == DueToBook(u, t)
             b == DueToBook(u, t)'
             c == GoneDue(gone, u, t)
  <2>1. a \in Nat /\ b \in Nat /\ c \in Nat /\ b + c <= a
    <3>1. a = BookSum(book[HoldSide(t)], Releases(HoldSide(t), u)) /\ a \in Nat
      BY <1>1, BookDue
    <3>2. b = BookSum(book'[HoldSide(t)], Releases(HoldSide(t), u)) /\ b \in Nat
      BY <1>1, NextBookDue
    <3>3. c \in Nat
      BY <1>3, <1>4, GoneDueType, Zenon
    <3>4. BookSum(book'[HoldSide(t)], Releases(HoldSide(t), u)) + c
            <= BookSum(book[HoldSide(t)], Releases(HoldSide(t), u))
      BY <1>1, <1>2, EvictedDue DEF gone
    <3> HIDE DEF a, b, c
    <3> QED
      BY <3>1, <3>2, <3>3, <3>4
  <2>2. DueToTask(task[h], u, t) = 0
    BY <1>2, TaskDue
  <2>3. DueToTask(to, u, t) \in {0, c}
    <3>1. CASE to = Idle
      BY <3>1, IdleLegal
    <3>2. CASE to = full
      <4>1. full.at = "evicted" /\ full.gone = gone
        OBVIOUS
      <4> HIDE DEF full
      <4> QED
        BY <3>2, <4>1, TaskDue
    <3> QED
      BY <3>1, <3>2
  <2>4. Held(u, t)' = Held(u, t) /\ Held(u, t) \in Nat
    <3>1. Held(u, t)' = Held(u, t)
      BY <1>2 DEF Held, balanceVars
    <3>2. Held(u, t) \in Nat
      BY HeldType DEF CoverInv
    <3> QED
      BY <3>1, <3>2
  <2> HIDE DEF a, b, c
  <2>5. b + DueToTask(to, u, t) + Held(u, t) <= a + DueToTask(task[h], u, t) + Held(u, t)'
    BY <2>1, <2>2, <2>3, <2>4
  <2> QED
    BY <2>5 DEF a, b
<1> HIDE DEF full
<1> QED
  BY <1>1, <1>5, <1>6, <1>7, CoverMoves

\* One evicted order fewer to give back.
LEMMA GonePaid ==
  ASSUME NEW gone, IsFiniteSet(gone), gone \subseteq [side : Sides, entry : Entries],
         NEW z \in gone, NEW u, NEW t \in Tokens
  PROVE  GoneDue(gone, u, t) = GoneDue(gone \ {z}, u, t)
           + IF z.entry.owner = u /\ z.side = HoldSide(t)
             THEN CalculateRelease(HoldSide(t), z.entry) ELSE 0
<1> DEFINE s == HoldSide(t)
           rest == gone \ {z}
           A == {x \in gone : x.entry.owner = u /\ x.side = s}
           B == {x \in rest : x.entry.owner = u /\ x.side = s}
           f == [x \in A |-> CalculateRelease(s, x.entry)]
           g == [x \in B |-> CalculateRelease(s, x.entry)]
<1>1. IsFiniteSet(A) /\ f \in [A -> Nat]
  <2>1. s \in Sides
    BY SideOfToken
  <2>2. A \in SUBSET gone
    OBVIOUS
  <2>3. \A x \in A : CalculateRelease(s, x.entry) \in Nat
    BY <2>1, ReleaseType
  <2> HIDE DEF A, s
  <2> QED
    BY <2>2, <2>3, FS_Subset
<1>2. GoneDue(gone, u, t) = Total(f) /\ GoneDue(rest, u, t) = Total(g)
  BY DEF GoneDue
<1>3. Total(f) \in Nat
  <2> HIDE DEF f, A
  <2> QED
    BY <1>1, UnitsFinite
<1>4. CASE z.entry.owner = u /\ z.side = s
  <2>1. z \in A /\ B = A \ {z}
    BY <1>4
  <2>2. g = [x \in A \ {z} |-> f[x]] /\ f[z] = CalculateRelease(s, z.entry)
    <3> HIDE DEF A, B
    <3> QED
      BY <2>1
  <2>3. Total(f) = Total([x \in A \ {z} |-> f[x]]) + f[z]
    <3> HIDE DEF A, B, f, g
    <3> QED
      BY <1>1, <2>1, TotalRemove
  <2> HIDE DEF f, g
  <2> QED
    BY <1>2, <1>3, <1>4, <2>2, <2>3
<1>5. CASE ~(z.entry.owner = u /\ z.side = s)
  <2>1. B = A
    BY <1>5
  <2>2. g = f
    BY <2>1
  <2> HIDE DEF f, g
  <2> QED
    BY <1>2, <1>3, <1>5, <2>2
<1> QED
  BY <1>4, <1>5

\* RefundEvicted: the release of one evicted order takes what was due to it.
LEMMA RefundEvictedCover ==
  ASSUME CoverInv, NEW h \in Handlers, RefundEvicted(h)
  PROVE  CoverInv'
<1>1. IInv'
  BY RefundEvictedInv DEF CoverInv
<1>2. task[h].at = "evicted" /\ UNCHANGED book
  BY DEF RefundEvicted
<1>3. Legal(task[h]) /\ IsFiniteSet(task[h].gone)
      /\ task[h].gone \subseteq [side : Sides, entry : Entries]
      /\ task[h] \in Evicting
  BY <1>2, TaskShape DEF CoverInv, Sized, Legal, Evicting
<1>4. PICK x \in task[h].gone :
        /\ TryRelease(x.entry.owner, HoldToken(x.side), CalculateRelease(x.side, x.entry))
        /\ \/ Goes(h, Idle)
           \/ Goes(h, [task[h] EXCEPT !.gone = task[h].gone \ {x}])
  BY DEF RefundEvicted, DoneUnlocking, Done
<1> DEFINE gone == task[h].gone
           rest == gone \ {x}
           more == [task[h] EXCEPT !.gone = rest]
           w == x.entry.owner
           r == HoldToken(x.side)
           a == CalculateRelease(x.side, x.entry)
<1>5. x.side \in Sides /\ x.entry \in Entries /\ w \in Users /\ r \in Tokens /\ a \in Nat
  <2>1. x \in [side : Sides, entry : Entries]
    BY <1>3
  <2>2. x.side \in Sides /\ x.entry \in Entries
    BY <2>1
  <2>3. w \in Users
    BY <2>2 DEF Entries
  <2> QED
    BY <2>2, <2>3, ReleaseType, SideOfToken
<1>6. PICK to \in {Idle, more} : Goes(h, to)
  BY <1>4
<1>7. IsFiniteSet(rest) /\ rest \subseteq [side : Sides, entry : Entries]
  BY <1>3, FS_RemoveElement
<1>8. Legal(to) /\ to.at \in {"idle", "evicted"} /\ (to.at = "evicted" => to.gone = rest)
  <2>1. CASE to = Idle
    BY <2>1, IdleLegal
  <2>2. CASE to = more
    <3>1. more \in Tasks /\ more.at = "evicted" /\ more.gone = rest
      <4> HIDE DEF rest
      <4> QED
        BY <1>2, <1>3, <1>7 DEF Tasks, Evicting
    <3> HIDE DEF more
    <3> QED
      BY <1>7, <2>2, <3>1 DEF Legal
  <2> QED
    BY <2>1, <2>2
<1>9. \A u \in Users, t \in Tokens :
        DueToTask(to, u, t) + (IF u = w /\ t = r THEN a ELSE 0) <= DueToTask(task[h], u, t)
  <2> SUFFICES ASSUME NEW u \in Users, NEW t \in Tokens
               PROVE  DueToTask(to, u, t) + (IF u = w /\ t = r THEN a ELSE 0)
                        <= DueToTask(task[h], u, t)
    OBVIOUS
  <2> DEFINE c == GoneDue(gone, u, t)
             d == GoneDue(rest, u, t)
             b == IF w = u /\ x.side = HoldSide(t)
                  THEN CalculateRelease(HoldSide(t), x.entry) ELSE 0
  <2>1. DueToTask(task[h], u, t) = c
    BY <1>2, TaskDue
  <2>2. DueToTask(to, u, t) \in {0, d}
    <3> HIDE DEF gone, rest
    <3> QED
      BY <1>8, TaskDue
  <2>3. c = d + b
    BY <1>3, GonePaid
  <2>4. c \in Nat /\ d \in Nat
    <3>1. c \in Nat
      BY <1>3, GoneDueType, Zenon
    <3>2. d \in Nat
      <4> HIDE DEF rest
      <4> QED
        BY <1>7, GoneDueType, Zenon
    <3> QED
      BY <3>1, <3>2
  <2>5. (IF u = w /\ t = r THEN a ELSE 0) = b
    <3>1. t = r <=> x.side = HoldSide(t)
      BY <1>5, SideOfToken
    <3> QED
      BY <3>1
  <2>6. b \in Nat
    BY <1>5, SideOfToken, ReleaseType
  <2> HIDE DEF c, d, b, a, w, r
  <2> QED
    BY <2>1, <2>2, <2>3, <2>4, <2>5, <2>6
<1>10. a <= Held(w, r)
  <2>1. DueToTask(to, w, r) + a <= DueToTask(task[h], w, r)
    <3> HIDE DEF w, r, a
    <3> QED
      BY <1>5, <1>9
  <2>2. DueToTask(task[h], w, r) <= Held(w, r) /\ DueToTask(task[h], w, r) \in Nat
        /\ Held(w, r) \in Nat /\ DueToTask(to, w, r) \in Nat
    BY <1>5, <1>8, TaskWithinHeld, TaskDueType, HeldType DEF CoverInv
  <2> HIDE DEF w, r, a
  <2> QED
    BY <1>5, <2>1, <2>2
<1>11. Pays(w, r, a)
  <2> HIDE DEF w, r, a
  <2>1. TryRelease(w, r, a)
    BY <1>4 DEF w, r, a
  <2> QED
    BY <1>5, <1>10, <2>1, ReleasePays DEF CoverInv
<1> HIDE DEF w, r, a, more
<1> QED
  BY <1>1, <1>2, <1>5, <1>6, <1>8, <1>9, <1>11, PayerMoves

\* CancelOrder: a lookup.
LEMMA CancelOrderCover ==
  ASSUME CoverInv, NEW h \in Handlers, NEW user \in Users, NEW id \in 1..issued,
         CancelOrder(h, user, id)
  PROVE  CoverInv'
<1> DEFINE to == [at |-> "cancel", user |-> user, id |-> id]
<1>1. IInv'
  BY CancelOrderInv DEF CoverInv
<1>2. Goes(h, to) /\ UNCHANGED book /\ UNCHANGED balanceVars /\ to.at = "cancel"
  BY DEF CancelOrder
<1> HIDE DEF to
<1>3. Legal(to)
  BY <1>1, <1>2, NextLegal DEF CoverInv
<1>4. \A u \in Users, t \in Tokens : DueToTask(to, u, t) = 0
  BY <1>2, TaskDue
<1> QED
  BY <1>1, <1>2, <1>3, <1>4, QuietMoves

\* What is taken out of the book is no longer due there.
LEMMA WithoutDue ==
  ASSUME BookTypeOK, NEW s \in Sides, NEW u, NEW id
  PROVE  /\ BookSum(Without(id, book)[s], Releases(s, u)) <= BookSum(book[s], Releases(s, u))
         /\ \A e \in ToSet(book[s]) : e.id = id =>
              BookSum(Without(id, book)[s], Releases(s, u)) + Releases(s, u)[e]
                <= BookSum(book[s], Releases(s, u))
<1> DEFINE q == book[s]
           P == {i \in DOMAIN q : q[i].id # id}
           W == Releases(s, u)
<1>1. q \in Seq(Entries) /\ W \in [Entries -> Nat] /\ P \in SUBSET (DOMAIN q)
  BY WeightsType DEF BookTypeOK
<1>2. Without(id, book)[s] = Sub(q, P)
  BY DEF Without
<1>3. /\ BookSum(Sub(q, P), W) <= BookSum(q, W)
      /\ \A i \in DOMAIN q \ P : BookSum(Sub(q, P), W) + W[q[i]] <= BookSum(q, W)
  <2> HIDE DEF q, P, W
  <2> QED
    BY <1>1, SubSum
<1>4. ASSUME NEW e \in ToSet(q), e.id = id
      PROVE  \E i \in DOMAIN q \ P : q[i] = e
  BY <1>4 DEF ToSet
<1> HIDE DEF P, q, W
<1> QED
  BY <1>2, <1>3, <1>4 DEF q, W

\* CancelInBook: what was due to the book is due to the cancel.
LEMMA CancelInBookCover ==
  ASSUME CoverInv, NEW h \in Handlers, CancelInBook(h)
  PROVE  CoverInv'
<1> DEFINE id == task[h].id
           out == Without(id, book)
<1>1. IInv' /\ BookTypeOK /\ BookTypeOK'
  BY CancelInBookInv DEF CoverInv, IInv
<1>2. task[h].at = "cancel" /\ UNCHANGED balanceVars
  BY DEF CancelInBook
<1>3. ASSUME NEW u \in Users, NEW t \in Tokens
      PROVE  /\ DueToTask(task[h], u, t) = 0
             /\ Held(u, t)' = Held(u, t) /\ Held(u, t) \in Nat
             /\ DueToBook(u, t) = BookSum(book[HoldSide(t)], Releases(HoldSide(t), u))
             /\ DueToBook(u, t)' = BookSum(book'[HoldSide(t)], Releases(HoldSide(t), u))
             /\ DueToBook(u, t) \in Nat /\ DueToBook(u, t)' \in Nat
  <2>1. DueToTask(task[h], u, t) = 0
    BY <1>2, TaskDue
  <2>2. Held(u, t)' = Held(u, t) /\ Held(u, t) \in Nat
    <3>1. Held(u, t)' = Held(u, t)
      BY <1>2 DEF Held, balanceVars
    <3> QED
      BY <3>1, HeldType DEF CoverInv
  <2> QED
    BY <1>1, <2>1, <2>2, BookDue, NextBookDue
<1>4. CASE Done(h) /\ UNCHANGED book
  BY <1>1, <1>2, <1>4, IdleLegal, QuietMoves DEF Done
<1>5. ASSUME NEW s \in Sides, NEW e \in ToSet(book[s]), e.id = id,
             \/ /\ book' = out
                /\ Goes(h, [at |-> "refund", user |-> e.owner, side |-> s, entry |-> e])
             \/ /\ book' = [out EXCEPT ![s] = Rest(s, @, e)]
                /\ Done(h)
      PROVE  CoverInv'
  <2>1. e \in Entries
    <3>1. book[s] \in Seq(Entries)
      BY <1>1 DEF BookTypeOK
    <3> QED
      BY <3>1 DEF ToSet
  <2>2. out \in [Sides -> Seq(Entries)]
    BY <1>1, WithoutType, BookTypes DEF BookTypeOK
  <2> HIDE DEF out, id
  <2>3. ASSUME NEW x \in Sides, NEW u \in Users
        PROVE  /\ Releases(x, u)[e] \in Nat
               /\ BookSum(out[x], Releases(x, u)) \in Nat
               /\ BookSum(book[x], Releases(x, u)) \in Nat
               /\ BookSum(out[x], Releases(x, u)) <= BookSum(book[x], Releases(x, u))
               /\ x = s => BookSum(out[x], Releases(x, u)) + Releases(x, u)[e]
                             <= BookSum(book[x], Releases(x, u))
    <3>1. Releases(x, u) \in [Entries -> Nat]
      BY WeightsType
    <3>2. out[x] \in Seq(Entries) /\ book[x] \in Seq(Entries)
      BY <1>1, <2>2 DEF BookTypeOK
    <3>3. /\ BookSum(out[x], Releases(x, u)) \in Nat
          /\ BookSum(book[x], Releases(x, u)) \in Nat
      BY <3>1, <3>2, SumType
    <3>4. /\ BookSum(out[x], Releases(x, u)) <= BookSum(book[x], Releases(x, u))
          /\ x = s => BookSum(out[x], Releases(x, u)) + Releases(x, u)[e]
                        <= BookSum(book[x], Releases(x, u))
      BY <1>1, <1>5, WithoutDue DEF out
    <3> QED
      BY <2>1, <3>1, <3>3, <3>4
  <2>4. CASE /\ book' = out
             /\ Goes(h, [at |-> "refund", user |-> e.owner, side |-> s, entry |-> e])
    <3> DEFINE to == [at |-> "refund", user |-> e.owner, side |-> s, entry |-> e]
    <3>1. to.at = "refund" /\ to.user = e.owner /\ to.side = s /\ to.entry = e
      OBVIOUS
    <3>2. Goes(h, to)
      BY <2>4
    <3> HIDE DEF to
    <3>3. Legal(to)
      BY <1>1, <3>1, <3>2, NextLegal DEF CoverInv
    <3>4. ASSUME NEW u \in Users, NEW t \in Tokens
          PROVE  DueToBook(u, t)' + DueToTask(to, u, t) + Held(u, t)
                   <= DueToBook(u, t) + DueToTask(task[h], u, t) + Held(u, t)'
      <4> DEFINE x == HoldSide(t)
                 a == BookSum(out[x], Releases(x, u))
                 b == BookSum(book[x], Releases(x, u))
                 c == Releases(x, u)[e]
      <4>1. a \in Nat /\ b \in Nat /\ c \in Nat /\ a <= b /\ (x = s => a + c <= b)
        BY <2>3, SideOfToken
      <4>2. DueToTask(to, u, t) = IF e.owner = u /\ s = x THEN c ELSE 0
        <5>1. DueToTask(to, u, t) =
                IF e.owner = u /\ s = x THEN CalculateRelease(x, e) ELSE 0
          BY <3>1, TaskDue
        <5>2. e.owner = u => c = CalculateRelease(x, e)
          BY <2>1 DEF Releases
        <5> HIDE DEF c
        <5> QED
          BY <5>1, <5>2
      <4>3. DueToBook(u, t)' = a /\ DueToBook(u, t) = b
        BY <1>3, <2>4
      <4>4. DueToTask(task[h], u, t) = 0 /\ Held(u, t)' = Held(u, t) /\ Held(u, t) \in Nat
        BY <1>3
      <4> HIDE DEF a, b, c, x
      <4> QED
        BY <4>1, <4>2, <4>3, <4>4
    <3>5. to.at \notin {"enter", "match"}
      BY <3>1
    <3> QED
      BY <1>1, <3>2, <3>3, <3>4, <3>5, CoverMoves
  <2>5. CASE book' = [out EXCEPT ![s] = Rest(s, @, e)] /\ Done(h)
    <3>1. Goes(h, Idle)
      BY <2>5 DEF Done
    <3>2. ASSUME NEW u \in Users, NEW t \in Tokens
          PROVE  DueToBook(u, t)' + DueToTask(Idle, u, t) + Held(u, t)
                   <= DueToBook(u, t) + DueToTask(task[h], u, t) + Held(u, t)'
      <4> DEFINE x == HoldSide(t)
                 a == BookSum(out[x], Releases(x, u))
                 b == BookSum(book[x], Releases(x, u))
                 c == Releases(x, u)[e]
                 d == BookSum(book'[x], Releases(x, u))
      <4>1. a \in Nat /\ b \in Nat /\ c \in Nat /\ a <= b /\ (x = s => a + c <= b)
        BY <2>3, SideOfToken
      <4>2. x # s => d = a
        BY <2>2, <2>5, SideOfToken
      <4>3. x = s => d <= a + c
        <5> SUFFICES ASSUME x = s
                     PROVE  d <= a + c
          OBVIOUS
        <5>1. book'[x] = Rest(s, out[s], e)
          BY <2>2, <2>5
        <5>2. Releases(x, u) \in [Entries -> Nat] /\ out[s] \in Seq(Entries)
          BY <2>2, WeightsType
        <5>3. BookSum(Rest(s, out[s], e), Releases(x, u))
                <= BookSum(out[s], Releases(x, u)) + Releases(x, u)[e]
          <6> HIDE DEF x
          <6> QED
            BY <2>1, <5>2, RestSum
        <5> HIDE DEF x
        <5> QED
          BY <5>1, <5>3
      <4>4. DueToBook(u, t)' = d /\ DueToBook(u, t) = b /\ d \in Nat
        BY <1>3
      <4>5. DueToTask(task[h], u, t) = 0 /\ Held(u, t)' = Held(u, t) /\ Held(u, t) \in Nat
        BY <1>3
      <4>6. DueToTask(Idle, u, t) = 0
        BY IdleLegal
      <4> HIDE DEF a, b, c, d, x
      <4> QED
        BY <4>1, <4>2, <4>3, <4>4, <4>5, <4>6
    <3> QED
      BY <1>1, <3>1, <3>2, IdleLegal, CoverMoves
  <2> QED
    BY <1>5, <2>4, <2>5
<1>6. CASE \E s \in Sides : \E e \in ToSet(book[s]) :
             /\ e.id = id
             /\ IF e.owner = task[h].user
                THEN /\ book' = Without(id, book)
                     /\ Goes(h, [at |-> "refund", user |-> e.owner, side |-> s, entry |-> e])
                ELSE /\ book' = [Without(id, book) EXCEPT ![s] = Rest(s, @, e)]
                     /\ Done(h)
  <2>1. PICK s \in Sides : \E e \in ToSet(book[s]) :
          /\ e.id = id
          /\ \/ /\ book' = out
                /\ Goes(h, [at |-> "refund", user |-> e.owner, side |-> s, entry |-> e])
             \/ /\ book' = [out EXCEPT ![s] = Rest(s, @, e)]
                /\ Done(h)
    BY <1>6
  <2>2. PICK e \in ToSet(book[s]) :
          /\ e.id = id
          /\ \/ /\ book' = out
                /\ Goes(h, [at |-> "refund", user |-> e.owner, side |-> s, entry |-> e])
             \/ /\ book' = [out EXCEPT ![s] = Rest(s, @, e)]
                /\ Done(h)
    BY <2>1
  <2> HIDE DEF out, id
  <2> QED
    BY <1>5, <2>2
<1> QED
  BY <1>4, <1>6 DEF CancelInBook

\* CancelRefund: the release takes what was due to the cancelled order.
LEMMA CancelRefundCover ==
  ASSUME CoverInv, NEW h \in Handlers, CancelRefund(h)
  PROVE  CoverInv'
<1> DEFINE k == task[h]
           to == [task[h] EXCEPT !.at = "untrack"]
           w == task[h].user
           r == HoldToken(task[h].side)
           a == CalculateRelease(task[h].side, task[h].entry)
<1>1. IInv'
  BY CancelRefundInv DEF CoverInv
<1>2. k.at = "refund" /\ Goes(h, to) /\ UNCHANGED book /\ TryRelease(w, r, a)
  BY DEF CancelRefund
<1>3. k \in Cancelled /\ w \in Users /\ k.side \in Sides /\ k.entry \in Entries
  BY <1>2, TaskParts, TaskShape DEF CoverInv, IInv, Cancelled
<1>4. r \in Tokens /\ a \in Nat
  BY <1>3, SideOfToken, ReleaseType
<1>5. to.at = "untrack"
  BY <1>3 DEF Cancelled
<1>6. Legal(to)
  <2> HIDE DEF to
  <2> QED
    BY <1>1, <1>2, <1>5, NextLegal DEF CoverInv
<1>7. \A u \in Users, t \in Tokens :
        DueToTask(to, u, t) + (IF u = w /\ t = r THEN a ELSE 0) <= DueToTask(task[h], u, t)
  <2> SUFFICES ASSUME NEW u \in Users, NEW t \in Tokens
               PROVE  DueToTask(to, u, t) + (IF u = w /\ t = r THEN a ELSE 0)
                        <= DueToTask(task[h], u, t)
    OBVIOUS
  <2>1. DueToTask(to, u, t) = 0
    <3> HIDE DEF to
    <3> QED
      BY <1>5, TaskDue
  <2>2. DueToTask(task[h], u, t) =
          IF w = u /\ k.side = HoldSide(t) THEN CalculateRelease(HoldSide(t), k.entry) ELSE 0
    BY <1>2, TaskDue
  <2>3. t = r <=> k.side = HoldSide(t)
    BY <1>3, SideOfToken
  <2>4. (IF u = w /\ t = r THEN a ELSE 0) = DueToTask(task[h], u, t)
    BY <2>2, <2>3
  <2>5. DueToTask(task[h], u, t) \in Nat
    BY TaskWithinHeld
  <2> HIDE DEF w, r, a, to
  <2> QED
    BY <2>1, <2>4, <2>5
<1>8. a <= Held(w, r)
  <2>1. DueToTask(to, w, r) + a <= DueToTask(task[h], w, r)
    <3> HIDE DEF w, r, a, to
    <3> QED
      BY <1>3, <1>4, <1>7
  <2>2. DueToTask(task[h], w, r) <= Held(w, r) /\ DueToTask(task[h], w, r) \in Nat
        /\ Held(w, r) \in Nat /\ DueToTask(to, w, r) \in Nat
    BY <1>3, <1>4, <1>6, TaskWithinHeld, TaskDueType, HeldType DEF CoverInv
  <2> HIDE DEF w, r, a, to
  <2> QED
    BY <1>4, <2>1, <2>2
<1>9. Pays(w, r, a)
  <2> HIDE DEF w, r, a
  <2> QED
    BY <1>2, <1>3, <1>4, <1>8, ReleasePays DEF CoverInv
<1> HIDE DEF w, r, a, to
<1> QED
  BY <1>1, <1>2, <1>4, <1>5, <1>6, <1>7, <1>9, PayerMoves

\* CancelUntrack: nothing is due any more.
LEMMA CancelUntrackCover ==
  ASSUME CoverInv, NEW h \in Handlers, CancelUntrack(h)
  PROVE  CoverInv'
<1>1. IInv'
  BY CancelUntrackInv DEF CoverInv
<1>2. Goes(h, Idle) /\ UNCHANGED book /\ UNCHANGED balanceVars
  BY DEF CancelUntrack, Done
<1> QED
  BY <1>1, <1>2, IdleLegal, QuietMoves

\* What matches are due by the owner of the resting orders, match by match.
LEMMA MatchesDue ==
  ASSUME NEW fills \in Seq(Matches), NEW s \in Sides, NEW u
  PROVE  Total([j \in {j \in DOMAIN fills : fills[j].owner = u} |-> Leg(s, fills[j])])
           = BookSum(fills, LegsOf(s, u))
<1> DEFINE D == DOMAIN fills
           A == {j \in D : fills[j].owner = u}
           f == [j \in D |-> LegsOf(s, u)[fills[j]]]
           g == [j \in A |-> f[j]]
<1>1. \A j \in D : fills[j] \in Matches
  OBVIOUS
<1>2. \A j \in D \ A : f[j] = 0
  BY <1>1 DEF LegsOf
<1>3. A \subseteq D /\ DOMAIN f = D
  OBVIOUS
<1>4. Total(g) = Total(f)
  <2> HIDE DEF f, A
  <2> QED
    BY <1>2, <1>3, TotalSupport
<1>5. g = [j \in A |-> Leg(s, fills[j])]
  <2>1. \A j \in A : g[j] = Leg(s, fills[j])
    BY <1>1 DEF LegsOf
  <2>2. g = [j \in A |-> g[j]]
    OBVIOUS
  <2> HIDE DEF g, A
  <2> QED
    BY <2>1, <2>2
<1> QED
  BY <1>4, <1>5 DEF BookSum

\* What it may take from whom: from its own owner the hold token, from the
\* owners of the orders it met the other.
LEMMA MatchedDue ==
  ASSUME NEW o \in Incoming, NEW hold \in Nat, NEW queue \in Seq(Entries),
         NEW u, NEW t \in Tokens, Legal(Matched(o, hold, queue))
  PROVE  LET to == Matched(o, hold, queue)
             x == HoldSide(t)
         IN  /\ x = o.side /\ u = o.owner =>
                  DueToTask(to, u, t) = TotalLegs(x, Fills(o, queue))
                                        + Refund(o, hold, Fills(o, queue), Unfilled(o, queue))
             /\ x = o.side /\ u # o.owner => DueToTask(to, u, t) = 0
             /\ x # o.side => DueToTask(to, u, t) = BookSum(Fills(o, queue), LegsOf(x, u))
<1> DEFINE to == Matched(o, hold, queue)
           x == HoldSide(t)
           F == Fills(o, queue)
           left == Unfilled(o, queue)
<1>1. /\ to.at \in {"quote", "finish"} /\ (to.at = "finish" <=> F = <<>>)
      /\ to.order = o /\ to.hold = hold /\ to.next = 1 /\ to.fills = F /\ to.left = left
  BY DEF Matched
<1>2. F \in Seq(Matches) /\ x \in Sides
  <2>1. queue \in Seq(EntrySet(OrderIds, Users)) /\ o.quantity \in Nat
    BY IncomingType, BookTypes
  <2> QED
    BY <2>1, FillsType, BookTypes, SideOfToken
<1> HIDE DEF to, F, left
<1>3. DOMAIN F = 1..Len(F) /\ Len(F) \in Nat
  BY <1>2, PositionsFinite
<1>4. Unpaid(to, t) = DOMAIN F
  <2>1. CASE to.at = "quote"
    BY <1>1, <1>3, <2>1 DEF Unpaid
  <2>2. CASE to.at = "finish"
    <3>1. F = <<>>
      BY <1>1, <2>2
    <3>2. DOMAIN F = {}
      BY <3>1
    <3> QED
      BY <2>2, <3>2 DEF Unpaid
  <2> QED
    BY <1>1, <2>1, <2>2
<1>5. DueToTask(to, u, t) =
        LegsDue(to, u, t) + IF IsTaker(to, u, t) THEN Refund(o, hold, F, left) ELSE 0
  BY <1>1, TaskDue
<1>6. IsTaker(to, u, t) <=> o.owner = u /\ o.side = x
  BY <1>1 DEF IsTaker
<1>7. LegsDue(to, u, t) \in Nat
  BY <1>1, LegsDueType DEF to
<1>8. CASE x = o.side /\ u = o.owner
  <2>1. Owed(to, u, t) = DOMAIN F
    BY <1>1, <1>4, <1>8 DEF Owed, Payer
  <2>2. LegsDue(to, u, t) = TotalLegs(x, F)
    <3> HIDE DEF x
    <3> QED
      BY <1>1, <2>1 DEF LegsDue, TotalLegs, x
  <2> HIDE DEF x
  <2> QED
    BY <1>5, <1>6, <1>8, <2>2 DEF to, F, left, x
<1>9. CASE x = o.side /\ u # o.owner
  <2>1. Owed(to, u, t) = {}
    BY <1>1, <1>4, <1>9 DEF Owed, Payer
  <2> DEFINE f == [j \in Owed(to, u, t) |-> Leg(HoldSide(t), to.fills[j])]
  <2>2. DOMAIN f = {}
    BY <2>1
  <2>3. Total(f) = 0
    <3> HIDE DEF f
    <3> QED
      BY <2>2, TotalEmpty
  <2>4. LegsDue(to, u, t) = 0
    BY <2>3 DEF LegsDue
  <2> HIDE DEF x, f
  <2> QED
    BY <1>5, <1>6, <1>9, <2>4 DEF to, F, left, x
<1>10. CASE x # o.side
  <2>1. Owed(to, u, t) = {j \in DOMAIN F : F[j].owner = u}
    BY <1>1, <1>4, <1>10 DEF Owed, Payer
  <2>2. LegsDue(to, u, t) = BookSum(F, LegsOf(x, u))
    <3>1. LegsDue(to, u, t) = Total([j \in {j \in DOMAIN F : F[j].owner = u} |-> Leg(x, F[j])])
      BY <1>1, <2>1 DEF LegsDue
    <3> HIDE DEF x
    <3> QED
      BY <1>2, <3>1, MatchesDue
  <2> HIDE DEF x
  <2> QED
    BY <1>5, <1>6, <1>7, <1>10, <2>2 DEF to, F, left, x
<1> QED
  BY <1>8, <1>9, <1>10 DEF to, F, left

\* Matching leaves no more due, to the book and the request together, than the
\* hold of the order and what the book was due.
LEMMA MatchingDue ==
  ASSUME BookTypeOK, BookTypeOK', NEW o \in Incoming, o.type = "limit", LimitHold(o) \in Nat,
         book' = AfterPlace(o, book), NEW u \in Users, NEW t \in Tokens,
         Legal(Matched(o, LimitHold(o), book[Opposite(o.side)]))
  PROVE  DueToBook(u, t)' + DueToTask(Matched(o, LimitHold(o), book[Opposite(o.side)]), u, t)
           <= DueToBook(u, t) + IF o.owner = u /\ o.side = HoldSide(t) THEN LimitHold(o) ELSE 0
<1> DEFINE x == HoldSide(t)
           opp == Opposite(o.side)
           queue == book[opp]
           F == Fills(o, queue)
           left == Unfilled(o, queue)
           hold == LimitHold(o)
           to == Matched(o, hold, queue)
           W == Releases(x, u)
           e == Entry(o, left)
           before == BookSum(book[x], W)
           after == BookSum(book'[x], W)
           due == DueToTask(to, u, t)
<1>1. /\ o.side \in Sides /\ opp \in Sides /\ opp # o.side /\ x \in Sides
      /\ o.owner \in Users /\ o.id \in OrderIds /\ o.price \in Nat
      /\ x # o.side => x = opp
  BY IncomingType, SideOfToken DEF Opposite, Sides
<1>2. queue \in Seq(Entries) /\ book[x] \in Seq(Entries) /\ book'[x] \in Seq(Entries)
      /\ W \in [Entries -> Nat]
  BY <1>1, WeightsType DEF BookTypeOK
<1>3. DueToBook(u, t) = before /\ DueToBook(u, t)' = after /\ before \in Nat /\ after \in Nat
  BY BookDue, NextBookDue
<1>4. due \in Nat
  BY TaskDueType
<1>5. /\ x = o.side /\ u = o.owner => due = TotalLegs(x, F) + Refund(o, hold, F, left)
      /\ x = o.side /\ u # o.owner => due = 0
      /\ x # o.side => due = BookSum(F, LegsOf(x, u))
  <2> HIDE DEF hold, queue
  <2> QED
    BY <1>2, MatchedDue DEF hold, queue
<1>6. /\ left \in 0..o.quantity
      /\ TotalLegs(o.side, F) \in Nat
      /\ CalculateRelease(o.side, e) + TotalLegs(o.side, F) + Refund(o, hold, F, left) <= hold
  <2> HIDE DEF queue
  <2> QED
    BY <1>2, TakerCovered
<1>7. /\ book'[opp] = AfterFills(o, queue)
      /\ book'[o.side] = IF left > 0 THEN Rest(o.side, book[o.side], e) ELSE book[o.side]
  BY PlacedSides
<1> HIDE DEF F, left, queue, opp, hold, to, W, x, due
<1>8. e \in Entries
  <2>1. o.quantity \in Nat
    BY IncomingType
  <2>2. left \in Nat
    BY <1>6, <2>1
  <2> QED
    BY <1>1, <2>2 DEF Entry, Entries
<1>9. W[e] = IF o.owner = u THEN CalculateRelease(x, e) ELSE 0
  <2>1. e.owner = o.owner
    BY DEF Entry
  <2> QED
    BY <1>8, <2>1 DEF Releases, W
<1>10. CASE x = o.side
  <2> DEFINE c == W[e]
             a == TotalLegs(x, F)
             b == Refund(o, hold, F, left)
  <2>1. after <= before + c /\ c \in Nat
    <3>1. BookSum(Rest(x, book[x], e), W) <= BookSum(book[x], W) + W[e]
      BY <1>2, <1>8, RestSum
    <3>2. c \in Nat
      BY <1>2, <1>8
    <3>3. after = BookSum(Rest(x, book[x], e), W) \/ after = before
      BY <1>7, <1>10
    <3> HIDE DEF after, c
    <3> QED
      BY <1>3, <3>1, <3>2, <3>3 DEF c
  <2>2. CASE u = o.owner
    <3>1. c + a + b <= hold /\ due = a + b
      BY <1>5, <1>6, <1>9, <1>10, <2>2
    <3>2. a \in Nat
      BY <1>6, <1>10
    <3>3. b \in Nat
      <4>1. F \in Seq(Matches) /\ left \in Int /\ hold \in Nat
        <5>1. queue \in Seq(EntrySet(OrderIds, Users)) /\ o.quantity \in Nat
          BY <1>2, IncomingType, BookTypes
        <5>2. F \in Seq(Matches)
          BY <5>1, FillsType, BookTypes DEF F
        <5> QED
          BY <1>6, <5>1, <5>2 DEF hold
      <4> QED
        BY <4>1, RefundType
    <3> HIDE DEF c, a, b, before, after
    <3>4. after + due <= before + hold
      BY <1>3, <2>1, <3>1, <3>2, <3>3 DEF hold
    <3> QED
      BY <1>3, <1>10, <2>2, <3>4 DEF due, to, hold, x, queue, opp
  <2>3. CASE u # o.owner
    <3>1. c = 0 /\ due = 0
      BY <1>5, <1>9, <1>10, <2>3
    <3> HIDE DEF c, before, after
    <3>2. after + due <= before
      BY <1>3, <2>1, <3>1
    <3> QED
      BY <1>3, <2>3, <3>2 DEF due, to, hold, x, queue, opp
  <2> QED
    BY <2>2, <2>3
<1>11. CASE x # o.side
  <2>1. BookSum(F, LegsOf(x, u)) + BookSum(AfterFills(o, queue), W) <= BookSum(queue, W)
    BY <1>1, <1>2, MakersCovered DEF F, W
  <2>2. after = BookSum(AfterFills(o, queue), W) /\ before = BookSum(queue, W)
        /\ due = BookSum(F, LegsOf(x, u))
    BY <1>1, <1>5, <1>7, <1>11 DEF queue
  <2> HIDE DEF before, after
  <2>3. after + due <= before
    BY <1>3, <1>4, <2>1, <2>2
  <2> QED
    BY <1>3, <1>11, <2>3 DEF due, to, hold, x, queue, opp
<1> QED
  BY <1>10, <1>11

\* MatchOrder: the hold covers the legs, what rests and the refund together.
LEMMA MatchOrderCover ==
  ASSUME LimitOnly, CoverInv, NEW h \in Handlers, MatchOrder(h)
  PROVE  CoverInv'
<1> DEFINE o == task[h].order
           a == task[h].hold
           r == HoldToken(o.side)
           queue == book[Opposite(o.side)]
           to == Matched(o, a, queue)
<1>1. IInv' /\ BookTypeOK /\ BookTypeOK'
  BY MatchOrderInv DEF CoverInv, IInv
<1>2. task[h].at = "match"
  BY DEF MatchOrder
<1>3. task[h] \in Entering /\ o \in Incoming /\ a \in Nat
  BY <1>2, TaskParts DEF CoverInv, IInv
<1>4. o.owner \in Users /\ o.side \in Sides /\ r \in Tokens
  BY <1>3, IncomingType, HoldTokenType
<1>5. a = LimitHold(o)
  BY <1>2 DEF CoverInv, Sized
<1>6. \A u \in Users, t \in Tokens :
        DueToTask(task[h], u, t) = IF u = o.owner /\ t = r THEN a ELSE 0
  <2> SUFFICES ASSUME NEW u \in Users, NEW t \in Tokens
               PROVE  DueToTask(task[h], u, t) = IF u = o.owner /\ t = r THEN a ELSE 0
    OBVIOUS
  <2>1. DueToTask(task[h], u, t) = IF o.owner = u /\ o.side = HoldSide(t) THEN a ELSE 0
    BY <1>2, TaskDue DEF IsTaker
  <2>2. o.side = HoldSide(t) <=> t = r
    BY <1>4, SideOfToken
  <2> HIDE DEF o, a, r
  <2> QED
    BY <2>1, <2>2
<1>7. CASE /\ TryRelease(o.owner, r, a)
           /\ DoneUnlocking(h)
           /\ UNCHANGED book
  <2>1. Goes(h, Idle)
    BY <1>7 DEF DoneUnlocking, Done
  <2> DEFINE w == o.owner
  <2> HIDE DEF a, r, w
  <2>2. a <= Held(w, r)
    <3>1. DueToTask(task[h], w, r) = a
      BY <1>4, <1>6 DEF w
    <3>2. DueToTask(task[h], w, r) <= Held(w, r)
      BY <1>4, TaskWithinHeld DEF w
    <3> QED
      BY <3>1, <3>2
  <2>3. TryRelease(w, r, a) /\ w \in Users
    BY <1>4, <1>7 DEF w
  <2>4. Pays(w, r, a)
    BY <1>3, <1>4, <2>2, <2>3, ReleasePays DEF CoverInv
  <2>5. \A u \in Users, t \in Tokens :
          DueToTask(Idle, u, t) + (IF u = w /\ t = r THEN a ELSE 0) <= DueToTask(task[h], u, t)
    BY <1>3, <1>6, IdleLegal DEF w
  <2> QED
    BY <1>1, <1>3, <1>4, <1>7, <2>1, <2>3, <2>4, <2>5, IdleLegal, PayerMoves
<1>8. CASE /\ ~OrderRejected(o)
           /\ book' = AfterPlace(o, book)
           /\ Goes(h, to)
           /\ UNCHANGED balanceVars
  <2>1. o.type = "limit"
    <3>1. o.type \in Types
      BY <1>3 DEF Incoming
    <3> QED
      BY <1>8, <3>1, ExtensionAssumption DEF LimitOnly, OrderRejected
  <2>2. to.at \in {"quote", "finish"}
    BY DEF Matched
  <2>3. Legal(to)
    <3> HIDE DEF to
    <3> QED
      BY <1>1, <1>8, <2>2, NextLegal DEF CoverInv
  <2>4. ASSUME NEW u \in Users, NEW t \in Tokens
        PROVE  DueToBook(u, t)' + DueToTask(to, u, t) + Held(u, t)
                 <= DueToBook(u, t) + DueToTask(task[h], u, t) + Held(u, t)'
    <3> DEFINE b == IF o.owner = u /\ o.side = HoldSide(t) THEN a ELSE 0
    <3>1. DueToBook(u, t)' + DueToTask(to, u, t) <= DueToBook(u, t) + b
      <4> HIDE DEF o
      <4> QED
        BY <1>1, <1>3, <1>5, <1>8, <2>1, <2>3, MatchingDue
    <3>2. DueToTask(task[h], u, t) = b
      BY <1>2, TaskDue DEF IsTaker
    <3>3. DueToBook(u, t) \in Nat /\ DueToBook(u, t)' \in Nat /\ DueToTask(to, u, t) \in Nat
      <4> HIDE DEF to
      <4> QED
        BY <1>1, <2>3, BookDue, NextBookDue, TaskDueType
    <3>4. Held(u, t)' = Held(u, t) /\ Held(u, t) \in Nat
      <4>1. Held(u, t)' = Held(u, t)
        BY <1>8 DEF Held, balanceVars
      <4> QED
        BY <4>1, HeldType DEF CoverInv
    <3>5. b \in Nat
      BY <1>3
    <3> HIDE DEF b, to
    <3> QED
      BY <3>1, <3>2, <3>3, <3>4, <3>5
  <2> HIDE DEF to
  <2> QED
    BY <1>1, <1>8, <2>2, <2>3, <2>4, CoverMoves
<1> QED
  BY <1>7, <1>8 DEF MatchOrder, Matched

\* What is due depends on the book and the requests only.
LEMMA DueKept ==
  ASSUME UNCHANGED <<book, task>>, NEW u, NEW t
  PROVE  Due(u, t)' = Due(u, t)
BY DEF Due, DueToBook

\* Deposits and withdrawals touch what is free only.
LEMMA DepositFundsCover ==
  ASSUME CoverInv, NEW u \in Users, NEW t \in Tokens, DepositFunds(u, t)
  PROVE  CoverInv'
<1>1. IInv' /\ UNCHANGED <<book, task>>
  BY DepositFundsInv DEF CoverInv, DepositFunds
<1>2. balances \in Ledger
  BY DEF CoverInv, IInv, BalanceInv, BalanceTypeOK
<1>3. \A w \in Users, r \in Tokens : Held(w, r)' = Held(w, r)
  BY <1>2 DEF DepositFunds, Deposit, Held, Ledger, TokenBalance
<1>4. \A w \in Users, r \in Tokens : Due(w, r)' = Due(w, r)
  BY <1>1, DueKept
<1> QED
  BY <1>1, <1>3, <1>4 DEF CoverInv, HeldCovers, Sized

\* WithdrawFunds: only what is available is withdrawn.
LEMMA WithdrawFundsCover ==
  ASSUME CoverInv, NEW u \in Users, NEW t \in Tokens, WithdrawFunds(u, t)
  PROVE  CoverInv'
<1>1. IInv' /\ UNCHANGED <<book, task>>
  BY WithdrawFundsInv DEF CoverInv, WithdrawFunds
<1>2. balances \in Ledger
  BY DEF CoverInv, IInv, BalanceInv, BalanceTypeOK
<1>3. \A w \in Users, r \in Tokens : Held(w, r)' = Held(w, r)
  BY <1>2 DEF WithdrawFunds, Withdraw, Held, Ledger, TokenBalance
<1>4. \A w \in Users, r \in Tokens : Due(w, r)' = Due(w, r)
  BY <1>1, DueKept
<1> QED
  BY <1>1, <1>3, <1>4 DEF CoverInv, HeldCovers, Sized

NoneDue == \A u \in Users, t \in Tokens : Due(u, t) = 0

\* Nothing is due with an empty book and no request under way.
LEMMA NothingDue == AllIdle => NoneDue
<1> SUFFICES ASSUME AllIdle, NEW u \in Users, NEW t \in Tokens
             PROVE  Due(u, t) = 0
  BY DEF NoneDue
<1>1. DueToBook(u, t) = 0
  <2> DEFINE s == HoldSide(t)
             mine == {i \in DOMAIN book[s] : book[s][i].owner = u}
             f == [i \in mine |-> CalculateRelease(s, book[s][i])]
  <2>1. book[s] = <<>>
    BY SideOfToken DEF AllIdle
  <2>2. DOMAIN f = {}
    BY <2>1
  <2>3. Total(f) = 0
    <3> HIDE DEF f
    <3> QED
      BY <2>2, TotalEmpty
  <2> QED
    BY <2>3 DEF DueToBook
<1> DEFINE g == [h \in Handlers |-> DueToTask(task[h], u, t)]
<1>2. g = [h \in Handlers |-> 0]
  <2>1. \A h \in Handlers : task[h] = Idle
    BY DEF AllIdle
  <2>2. \A h \in Handlers : DueToTask(task[h], u, t) = 0
    BY <2>1, IdleLegal
  <2> QED
    BY <2>2
<1>3. Total(g) = 0
  <2>1. g \in [Handlers -> Nat] /\ \A h \in Handlers : g[h] = 0
    BY <1>2
  <2> HIDE DEF g
  <2> QED
    BY <2>1, TotalZero
<1> HIDE DEF g
<1> QED
  BY <1>1, <1>3 DEF Due, g

\* The same after a restart.
LEMMA NothingDueNext == AllIdle' => NoneDue'
BY NothingDue, PTL

\* Restart: what was held is available, and nothing is due.
LEMMA RestartCover ==
  ASSUME CoverInv, Restart
  PROVE  CoverInv'
<1>1. IInv'
  BY RestartInv DEF CoverInv
<1>2. book' = [s \in Sides |-> <<>>] /\ task' = [h \in Handlers |-> Idle]
  BY DEF Restart
<1>3. NoneDue'
  BY <1>2, NothingDueNext DEF AllIdle
<1>4. \A u \in Users, t \in Tokens : Held(u, t)' \in Nat
  BY <1>1, NextHeldType
<1>5. HeldCovers'
  BY <1>3, <1>4 DEF NoneDue, HeldCovers
<1>6. Sized'
  <2>1. \A h \in Handlers : task'[h] = Idle
    BY <1>2
  <2> QED
    BY <2>1, IdleLegal DEF Sized
<1> QED
  BY <1>1, <1>5, <1>6 DEF CoverInv

\* The initial state.
LEMMA InitCover == Init => CoverInv
<1> SUFFICES ASSUME Init
             PROVE  CoverInv
  OBVIOUS
<1>1. IInv
  BY InitInv
<1>2. NoneDue
  BY NothingDue DEF Init, AllIdle
<1>3. \A u \in Users, t \in Tokens : Held(u, t) \in Nat
  BY <1>1, HeldType
<1>4. HeldCovers
  BY <1>2, <1>3 DEF NoneDue, HeldCovers
<1>5. Sized
  <2>1. \A h \in Handlers : task[h] = Idle
    BY DEF Init
  <2> QED
    BY <2>1, IdleLegal DEF Sized
<1> QED
  BY <1>1, <1>4, <1>5 DEF CoverInv

\* Every step keeps what is due covered.
LEMMA NextCover == LimitOnly /\ CoverInv /\ [Next]_vars => CoverInv'
<1> SUFFICES ASSUME LimitOnly, CoverInv, [Next]_vars
             PROVE  CoverInv'
  OBVIOUS
<1>1. ASSUME NEW h \in Handlers, NEW o \in Incoming, PlaceOrder(h, o)
      PROVE  CoverInv'
  BY <1>1, PlaceOrderCover
<1>2. ASSUME NEW h \in Handlers, NEW u \in Users, NEW id \in 1..issued,
             CancelOrder(h, u, id)
      PROVE  CoverInv'
  BY <1>2, CancelOrderCover
<1>3. CASE UNCHANGED vars
  <2>1. IInv'
    BY NextInv DEF CoverInv
  <2>2. UNCHANGED <<book, task>> /\ UNCHANGED balances
    BY <1>3 DEF vars
  <2>3. \A w \in Users, r \in Tokens : Held(w, r)' = Held(w, r)
    BY <2>2 DEF Held
  <2>4. \A w \in Users, r \in Tokens : Due(w, r)' = Due(w, r)
    BY <2>2, DueKept
  <2> QED
    BY <2>1, <2>2, <2>3, <2>4 DEF CoverInv, HeldCovers, Sized
<1>4. ASSUME NEW h \in Handlers, Step(h)
      PROVE  CoverInv'
  BY <1>4, EnterPlaceCover, MatchOrderCover, SettleQuoteCover, PanicCover, SettleBaseCover,
     FinishPlaceCover, EvictLevelsCover, RefundEvictedCover, CancelInBookCover,
     CancelRefundCover, CancelUntrackCover DEF Step
<1>5. ASSUME NEW u \in Users, NEW t \in Tokens, DepositFunds(u, t)
      PROVE  CoverInv'
  BY <1>5, DepositFundsCover
<1>6. ASSUME NEW u \in Users, NEW t \in Tokens, WithdrawFunds(u, t)
      PROVE  CoverInv'
  BY <1>6, WithdrawFundsCover
<1>7. CASE Restart
  BY <1>7, RestartCover
<1>8. \A h \in Handlers, id \in 1..MaxOrders : CancelRejected(h, id) => UNCHANGED vars
  BY DEF CancelRejected
<1> QED
  BY <1>1, <1>2, <1>3, <1>4, <1>5, <1>6, <1>7, <1>8 DEF Next

\* The inductive invariant holds throughout, when no market order comes in.
LEMMA CoverInvariance == LimitOnly => (Spec => []CoverInv)
<1> SUFFICES ASSUME LimitOnly
             PROVE  Spec => []CoverInv
  OBVIOUS
<1>1. CoverInv /\ [Next]_vars => CoverInv'
  BY NextCover
<1> QED
  BY InitCover, <1>1, PTL DEF Spec

\* calculateHold, processMatch, calculateRelease, when no market order comes in:
\* through every interleaving of requests, what a user has held covers its
\* resting orders, its matches not yet settled and the releases under way, with
\* every division by the precision rounded as the code rounds it.
THEOREM HoldsCoverDues == LimitOnly => (Spec => []HeldCovers)
<1>1. CoverInv => HeldCovers
  BY DEF CoverInv
<1> QED
  BY <1>1, CoverInvariance, PTL

\* Without market orders every match under way is vetted.
LEMMA FillsAreVetted ==
  ASSUME LimitOnly, VetInv, NEW h \in Handlers, task[h].at \in {"quote", "base"}
  PROVE  VettedFills(task[h].fills)
<1>1. task[h].order \in Incoming
  BY TaskParts DEF VetInv, IInv
<1>2. task[h].order.type # "market"
  BY <1>1 DEF LimitOnly, Incoming
<1> QED
  BY <1>2 DEF VetInv, Vetted, VettedTask

\* mulPrice, when no market order comes in: its product never overflows, so no
\* settlement panics, though calculateHold vets the limit buys alone.
THEOREM ProductsFit == LimitOnly => (Spec => []NoPanic)
<1> SUFFICES ASSUME LimitOnly
             PROVE  Spec => []NoPanic
  OBVIOUS
<1>1. VetInv => NoPanic
  <2> SUFFICES ASSUME VetInv, NEW h \in Handlers, task[h].at = "quote"
               PROVE  ~Overflows(NextFill(h).quantity, NextFill(h).price)
    BY DEF NoPanic
  <2>1. task[h].next \in DOMAIN task[h].fills /\ VettedFills(task[h].fills)
    BY FillsAreVetted, TaskParts DEF VetInv, IInv
  <2> QED
    BY <2>1 DEF VettedFills, NextFill
<1> QED
  BY <1>1, VetInvariance, PTL

\* The leg of a match that is to be paid is part of what is due.
LEMMA LegDue ==
  ASSUME CoverInv, NEW h \in Handlers, task[h].at \in {"quote", "base"}, NEW t \in Tokens,
         task[h].next \in Unpaid(task[h], t), NEW w \in Users,
         w = Payer(task[h], task[h].next, t)
  PROVE  Leg(HoldSide(t), NextFill(h)) <= Held(w, t)
<1> DEFINE k == task[h]
           n == k.next
           a == Leg(HoldSide(t), NextFill(h))
           f == [j \in Owed(k, w, t) |-> Leg(HoldSide(t), k.fills[j])]
           back == IF IsTaker(k, w, t) THEN Refund(k.order, k.hold, k.fills, k.left) ELSE 0
<1>1. Legal(k) /\ k.at \in {"quote", "base", "finish"}
  BY DEF CoverInv, Sized
<1>2. IsFiniteSet(Owed(k, w, t)) /\ f \in [Owed(k, w, t) -> Nat]
  BY <1>1, UnpaidType
<1>3. n \in Owed(k, w, t)
  BY DEF Owed
<1>4. f[n] = a /\ LegsDue(k, w, t) = Total(f)
  BY <1>3 DEF LegsDue, NextFill
<1>5. f[n] <= Total(f) /\ Total(f) \in Nat /\ f[n] \in Nat
  <2> HIDE DEF f
  <2> QED
    BY <1>2, <1>3, EntryWithinTotal, UnitsFinite
<1>6. back \in Nat
  <2>1. /\ k.order \in Incoming /\ k.hold \in Nat /\ k.fills \in Seq(Matches)
        /\ k.left \in Int
    BY TaskParts DEF CoverInv, IInv
  <2> QED
    BY <2>1, RefundType
<1>7. DueToTask(k, w, t) = LegsDue(k, w, t) + back
  BY <1>1, TaskDue
<1>8. DueToTask(k, w, t) <= Held(w, t) /\ Held(w, t) \in Nat
  BY TaskWithinHeld, HeldType DEF CoverInv
<1> HIDE DEF k, n, a, f, back
<1>9. a <= Held(w, t)
  BY <1>4, <1>5, <1>6, <1>7, <1>8
<1> QED
  BY <1>9 DEF a

\* processMatch, when no market order comes in: of each match both transfers
\* are made; neither error that processMatch drops is ever returned, but for
\* the quote leg of a match worth less than a unit of the quote token.
THEOREM LimitSettlesInFull == LimitOnly => (Spec => []SettlesInFull)
<1> SUFFICES ASSUME LimitOnly
             PROVE  Spec => []SettlesInFull
  OBVIOUS
<1>1. CoverInv /\ VetInv => SettlesInFull
  <2> SUFFICES ASSUME CoverInv, VetInv, NEW h \in Handlers
               PROVE  /\ task[h].at = "quote" /\ Leg("buy", NextFill(h)) > 0
                           => CanTransfer(Buyer(h), Quote, Leg("buy", NextFill(h)))
                      /\ task[h].at = "base"
                           => CanTransfer(Seller(h), Base, Leg("sell", NextFill(h)))
    BY DEF SettlesInFull
  <2> DEFINE k == task[h]
  <2>1. Base # Quote /\ HoldSide(Quote) = "buy" /\ HoldSide(Base) = "sell"
        /\ Base \in Tokens /\ Quote \in Tokens
    BY PairAssumption DEF HoldSide
  <2>2. k.at \in {"quote", "base"} =>
          /\ k.next \in DOMAIN k.fills /\ k.fills \in Seq(Matches)
          /\ Buyer(h) \in Users /\ Seller(h) \in Users
    BY TaskParts, PartiesType DEF CoverInv, IInv
  <2>3. k.at \in {"quote", "base"} => k.next \in k.next..Len(k.fills)
    <3> SUFFICES ASSUME k.at \in {"quote", "base"}
                 PROVE  k.next \in k.next..Len(k.fills)
      OBVIOUS
    <3>1. DOMAIN k.fills = 1..Len(k.fills) /\ Len(k.fills) \in Nat
      <4>1. k.fills \in Seq(Matches)
        BY <2>2
      <4> HIDE DEF k
      <4> QED
        BY <4>1, PositionsFinite
    <3>2. k.next \in 1..Len(k.fills)
      BY <2>2, <3>1
    <3> HIDE DEF k
    <3> QED
      BY <3>1, <3>2
  <2>4. CASE k.at = "quote"
    <3>1. k.next \in Unpaid(k, Quote)
      BY <2>3, <2>4 DEF Unpaid
    <3>2. Buyer(h) = Payer(k, k.next, Quote)
      BY <2>1 DEF Payer, Buyer, NextFill
    <3>3. Leg("buy", NextFill(h)) <= Held(Buyer(h), Quote)
      BY <2>1, <2>2, <2>4, <3>1, <3>2, LegDue
    <3>4. Leg("buy", NextFill(h)) \in Nat /\ Held(Buyer(h), Quote) \in Nat
      BY <2>1, <2>2, <2>4, TaskParts, LegType, HeldType DEF CoverInv, IInv, Sides
    <3> QED
      BY <2>4, <3>3, <3>4 DEF CanTransfer
  <2>5. CASE k.at = "base"
    <3>1. k.next \in Unpaid(k, Base)
      BY <2>3, <2>5 DEF Unpaid
    <3>2. Seller(h) = Payer(k, k.next, Base)
      BY <2>1 DEF Payer, Seller, NextFill
    <3>3. Leg("sell", NextFill(h)) <= Held(Seller(h), Base)
      BY <2>1, <2>2, <2>5, <3>1, <3>2, LegDue
    <3>4. Leg("sell", NextFill(h)) \in Nat /\ Held(Seller(h), Base) \in Nat
      BY <2>1, <2>2, <2>5, TaskParts, LegType, HeldType DEF CoverInv, IInv, Sides
    <3>5. Leg("sell", NextFill(h)) > 0
      BY <2>2, <2>5, FillsAreVetted DEF VettedFills, NextFill, Leg
    <3> QED
      BY <2>5, <3>3, <3>4, <3>5 DEF CanTransfer
  <2> QED
    BY <2>4, <2>5
<1> QED
  BY <1>1, CoverInvariance, VetInvariance, PTL

-----------------------------------------------------------------------------

\* The resting orders that a settlement has filled and has not yet cleaned up.
Leaving(k) ==
  IF k.at \in {"quote", "base"} THEN {k.fills[j].maker : j \in k.next..Len(k.fills)} ELSE {}

\* The orders of a request that may be tracked though they rest no more.
Unrest(k) == Out(k) \cup Leaving(k)

Positive(queue) == \A i \in DOMAIN queue : queue[i].remaining > 0

\* What comes rests already; what is tracked rests, or is on its way out of the
\* tracking; and nothing rests that is filled.
Rested ==
  /\ \A h \in Handlers : Coming(task[h]) \subseteq RestingIds
  /\ orders \subseteq RestingIds \cup UNION {Unrest(task[h]) : h \in Handlers}
  /\ \A s \in Sides : Positive(book[s])

RestInv == TrackInv /\ Rested

\* A request that ends has nothing on its way out.
LEMMA IdleRested == Unrest(Idle) = {}
BY IdleKnows DEF Unrest, Leaving, Idle

\* What a step may take out of the book, and what it may track.
LEMMA RestMoves ==
  ASSUME TaskTypeOK, Rested, NEW h \in Handlers, NEW to, Goes(h, to),
         \A g \in Handlers : g # h => Coming(task[g]) \cap RestingIds \subseteq RestingIds',
         Coming(to) \subseteq RestingIds',
         \A i \in orders' : \/ i \in RestingIds' \cup Unrest(to)
                            \/ i \in orders /\ i \notin RestingIds \cup Unrest(task[h]),
         \A s \in Sides : Positive(book'[s])
  PROVE  Rested'
<1>1. task'[h] = to /\ \A g \in Handlers : g # h => task'[g] = task[g]
  BY OneGoes
<1>2. \A g \in Handlers : Coming(task'[g]) \subseteq RestingIds'
  <2> SUFFICES ASSUME NEW g \in Handlers
               PROVE  Coming(task'[g]) \subseteq RestingIds'
    OBVIOUS
  <2>1. CASE g = h
    BY <1>1, <2>1
  <2>2. CASE g # h
    <3>1. Coming(task[g]) \subseteq RestingIds
      BY DEF Rested
    <3> QED
      BY <1>1, <2>2, <3>1
  <2> QED
    BY <2>1, <2>2
<1>3. ASSUME NEW i \in orders', i \notin RestingIds'
      PROVE  \E g \in Handlers : i \in Unrest(task'[g])
  <2>1. CASE i \in Unrest(to)
    BY <1>1, <2>1
  <2>2. CASE i \in orders /\ i \notin RestingIds \cup Unrest(task[h])
    <3>1. PICK g \in Handlers : i \in Unrest(task[g])
      BY <2>2 DEF Rested
    <3>2. g # h
      BY <2>2, <3>1
    <3> QED
      BY <1>1, <3>1, <3>2
  <2> QED
    BY <1>3, <2>1, <2>2
<1>4. (\A s \in Sides : Positive(book[s]))'
  BY DEF Positive
<1> QED
  BY <1>2, <1>3, <1>4 DEF Rested

\* A step that leaves the book alone.
LEMMA QuietRests ==
  ASSUME RestInv, NEW h \in Handlers, NEW to, Goes(h, to), UNCHANGED book,
         Coming(to) \subseteq Coming(task[h]), orders' \subseteq orders,
         Unrest(task[h]) \cap orders' \subseteq RestingIds \cup Unrest(to)
  PROVE  Rested'
<1>1. TaskTypeOK /\ Rested /\ RestingIds' = RestingIds
  BY DEF RestInv, TrackInv, VetInv, IInv, RestingIds
<1>2. Coming(to) \subseteq RestingIds' /\ \A s \in Sides : Positive(book'[s])
  BY <1>1 DEF Rested
<1>3. \A i \in orders' : \/ i \in RestingIds' \cup Unrest(to)
                         \/ i \in orders /\ i \notin RestingIds \cup Unrest(task[h])
  BY <1>1
<1>4. \A g \in Handlers : g # h => Coming(task[g]) \cap RestingIds \subseteq RestingIds'
  BY <1>1
<1> QED
  BY <1>1, <1>2, <1>3, <1>4, RestMoves

\* No other request has an order that comes while h has e.mu.
LEMMA OthersDoNotCome ==
  ASSUME IInv, NEW h \in Handlers, task[h].at \in Locking
  PROVE  \A g \in Handlers : g # h => Coming(task[g]) = {}
<1> SUFFICES ASSUME NEW g \in Handlers, g # h
             PROVE  Coming(task[g]) = {}
  OBVIOUS
<1>1. mu = h
  BY DEF IInv, Exclusive
<1>2. task[g].at \notin Locking
  BY <1>1 DEF IInv, Exclusive
<1> QED
  BY <1>2 DEF Coming, Comes, Locking, Settles

\* What nobody settles, evicts or cancels is not on its way out.
LEMMA NothingLeaves ==
  ASSUME NEW k, k.at \notin {"quote", "base", "evicted", "refund", "untrack"}
  PROVE  Unrest(k) = {}
BY DEF Unrest, Out, Leaving

\* processPlaceOrder up to the hold, and the lookup of a cancel.
LEMMA EnterRests ==
  ASSUME RestInv, NEW h \in Handlers, UNCHANGED <<book, orders>>,
         task[h].at \in {"idle", "enter", "match"}, NEW to, Goes(h, to),
         to.at \in {"idle", "enter", "match", "cancel"}
  PROVE  Rested'
<1>1. Unrest(task[h]) = {} /\ Coming(to) = {}
  BY NothingLeaves DEF Coming, Comes, Settles
<1> QED
  BY <1>1, QuietRests

\* PlaceOrder, EnterPlace and CancelOrder take nothing out of the book.
LEMMA OpeningRests ==
  ASSUME RestInv, NEW h \in Handlers,
         \/ \E o \in Incoming : PlaceOrder(h, o)
         \/ EnterPlace(h)
         \/ \E u \in Users, id \in 1..issued : CancelOrder(h, u, id)
  PROVE  Rested'
<1>1. Idle.at = "idle"
  BY DEF Idle
<1>2. CASE \E o \in Incoming : PlaceOrder(h, o)
  <2>1. PICK o \in Incoming : PlaceOrder(h, o)
    BY <1>2
  <2> DEFINE to == [at |-> "enter", order |-> o, hold |-> CalculateHold(o)]
  <2>2. /\ UNCHANGED <<book, orders>> /\ task[h].at = "idle"
        /\ Goes(h, Idle) \/ Goes(h, to)
    BY <1>1, <2>1 DEF PlaceOrder, Done, trackVars
  <2>3. to.at = "enter"
    OBVIOUS
  <2> HIDE DEF to
  <2> QED
    BY <1>1, <2>2, <2>3, EnterRests
<1>3. CASE EnterPlace(h)
  <2> DEFINE to == [task[h] EXCEPT !.at = "match"]
  <2>1. /\ UNCHANGED <<book, orders>> /\ task[h].at = "enter"
        /\ Goes(h, Idle) \/ Goes(h, to)
    BY <1>3 DEF EnterPlace, Done, trackVars
  <2>2. to.at = "match"
    <3>1. task[h] \in Entering
      BY <2>1, TaskParts DEF RestInv, TrackInv, VetInv, IInv
    <3> QED
      BY <3>1 DEF Entering
  <2> HIDE DEF to
  <2> QED
    BY <1>1, <2>1, <2>2, EnterRests
<1>4. CASE \E u \in Users, id \in 1..issued : CancelOrder(h, u, id)
  <2>1. PICK u \in Users, id \in 1..issued : CancelOrder(h, u, id)
    BY <1>4
  <2> DEFINE to == [at |-> "cancel", user |-> u, id |-> id]
  <2>2. UNCHANGED <<book, orders>> /\ task[h].at = "idle" /\ Goes(h, to)
    BY <1>1, <2>1 DEF CancelOrder, trackVars
  <2>3. to.at = "cancel"
    OBVIOUS
  <2> HIDE DEF to
  <2> QED
    BY <2>2, <2>3, EnterRests
<1> QED
  BY <1>2, <1>3, <1>4
-----------------------------------------------------------------------------

\* What stays of a queue is as it was.
LEMMA SubPositive ==
  ASSUME NEW S, NEW queue \in Seq(S), NEW P \in SUBSET (DOMAIN queue), Positive(queue)
  PROVE  Positive(Sub(queue, P))
<1>1. \A k \in DOMAIN Sub(queue, P) :
        Nth(P, k) \in P /\ Sub(queue, P)[k] = queue[Nth(P, k)]
  BY SubMembers
<1> QED
  BY <1>1 DEF Positive

\* A queue with one more order that is not filled.
LEMMA RestPositive ==
  ASSUME NEW S, NEW queue \in Seq(S), NEW e \in S, NEW side,
         Positive(queue), e.remaining > 0
  PROVE  Positive(Rest(side, queue, e))
<1> DEFINE r == Rest(side, queue, e)
<1>1. \E at : Inserted(r, queue, e, at)
  BY RestMembers
<1>2. PICK at : Inserted(r, queue, e, at)
  BY <1>1
<1> HIDE DEF r
<1>3. \A k \in DOMAIN r : r[k] = e \/ \E i \in DOMAIN queue : r[k] = queue[i]
  BY <1>2, PositionsFinite DEF Inserted
<1>4. Positive(r)
  BY <1>3 DEF Positive
<1> QED
  BY <1>4 DEF r

\* processMatch and cleanupIfFilled: a maker that no longer rests is cleaned up by
\* its last match, and until then one of the matches to settle names it.
LEMMA SettlingRests ==
  ASSUME RestInv, NEW h \in Handlers, SettleQuote(h) \/ SettleBase(h)
  PROVE  Rested'
<1> DEFINE k == task[h]
           m == k.fills[k.next].maker
           n == Len(k.fills)
<1>1. IInv /\ TaskTypeOK
  BY DEF RestInv, TrackInv, VetInv, IInv
<1>2. k.at \in {"quote", "base"} /\ UNCHANGED book
  BY DEF SettleQuote, SettleBase
<1>3. /\ k \in Settling /\ k.next \in Nat /\ n \in Nat /\ k.next <= n
      /\ DOMAIN k.fills = 1..n
  <2>1. k \in Settling /\ k.fills \in Seq(Matches) /\ k.next \in DOMAIN k.fills
    BY <1>1, <1>2, TaskParts
  <2> HIDE DEF k
  <2>2. DOMAIN k.fills = 1..n /\ n \in Nat
    BY <2>1, PositionsFinite
  <2> QED
    BY <2>1, <2>2
<1>4. Out(k) = {} /\ Unrest(k) = {k.fills[j].maker : j \in k.next..n}
  BY <1>2 DEF Out, Unrest, Leaving
<1>5. k.at \in Settles
  BY <1>2 DEF Settles
<1>6. CASE SettleQuote(h)
  <2> DEFINE to == [k EXCEPT !.at = "base"]
  <2>1. orders' = orders /\ Goes(h, to)
    BY <1>6 DEF SettleQuote, trackVars
  <2>2. to.at = "base" /\ to.order = k.order /\ to.fills = k.fills /\ to.left = k.left
        /\ to.next = k.next
    BY <1>3 DEF Settling
  <2> HIDE DEF to
  <2>3. Coming(to) = Coming(k)
    BY <1>5, <2>2 DEF Coming, Comes, Settles
  <2>4. Unrest(to) = Unrest(k)
    BY <1>4, <2>2 DEF Out, Unrest, Leaving
  <2> QED
    BY <1>2, <2>1, <2>3, <2>4, QuietRests
<1>7. CASE SettleBase(h)
  <2> DEFINE next == [k EXCEPT !.at = "quote", !.next = @ + 1]
             last == [k EXCEPT !.at = "finish"]
  <2>1. /\ orders' = orders \ ({m} \ RestingIds)
        /\ \/ k.next < n /\ Goes(h, next)
           \/ ~(k.next < n) /\ Goes(h, last)
    BY <1>7 DEF SettleBase, FilledMaker, NextFill
  <2>2. /\ next.at = "quote" /\ next.order = k.order /\ next.fills = k.fills
        /\ next.left = k.left /\ next.next = k.next + 1
        /\ last.at = "finish" /\ last.order = k.order /\ last.fills = k.fills
        /\ last.left = k.left
    BY <1>3 DEF Settling
  <2> HIDE DEF next, last
  <2>3. Coming(next) = Coming(k) /\ Coming(last) = Coming(k)
    BY <1>5, <2>2 DEF Coming, Comes, Settles
  <2>4. Unrest(next) = {k.fills[j].maker : j \in (k.next + 1)..n}
    BY <2>2 DEF Out, Unrest, Leaving
  <2>5. Unrest(k) \subseteq {m} \cup Unrest(next)
    <3> SUFFICES ASSUME NEW j \in k.next..n
                 PROVE  k.fills[j].maker \in {m} \cup {k.fills[i].maker : i \in (k.next + 1)..n}
      BY <1>4, <2>4
    <3>1. j = k.next \/ j \in (k.next + 1)..n
      <4> HIDE DEF k, n
      <4> QED
        BY <1>3
    <3> QED
      BY <3>1
  <2>6. k.next = n => Unrest(k) = {m}
    <3> SUFFICES ASSUME k.next = n
                 PROVE  Unrest(k) = {m}
      OBVIOUS
    <3>1. k.next..n = {k.next}
      <4> HIDE DEF k, n
      <4> QED
        BY <1>3
    <3> QED
      BY <1>4, <3>1
  <2>7. k.next < n \/ k.next = n
    <3> HIDE DEF k, n
    <3> QED
      BY <1>3
  <2>8. m \in orders' => m \in RestingIds
    BY <2>1
  <2>9. orders' \subseteq orders
    BY <2>1
  <2> HIDE DEF m, n
  <2>10. CASE k.next < n /\ Goes(h, next)
    BY <1>2, <2>3, <2>5, <2>8, <2>9, <2>10, QuietRests
  <2>11. CASE ~(k.next < n) /\ Goes(h, last)
    <3>1. Unrest(k) = {m}
      BY <2>6, <2>7, <2>11
    <3> QED
      BY <1>2, <2>3, <2>8, <2>9, <2>11, <3>1, QuietRests
  <2> QED
    BY <2>1, <2>10, <2>11
<1> QED
  BY <1>6, <1>7

\* The end of a placement: what is tracked rests, for only a limit order is.
LEMMA FinishPlaceRests ==
  ASSUME LimitOnly, RestInv, NEW h \in Handlers, FinishPlace(h)
  PROVE  Rested'
<1> DEFINE k == task[h]
           i == k.order.id
           to == [at |-> "evict"]
<1>1. IInv /\ TaskTypeOK /\ Rested
  BY DEF RestInv, TrackInv, VetInv, IInv
<1>2. /\ k.at = "finish" /\ UNCHANGED book
      /\ \/ k.left > 0 /\ orders' = orders \cup {i} /\ Goes(h, to)
         \/ orders' = orders /\ Goes(h, Idle)
  BY DEF FinishPlace, DoneUnlocking, Done, trackVars
<1>3. Unrest(k) = {} /\ Unrest(Idle) = {} /\ Coming(Idle) = {}
  BY <1>2, NothingLeaves, IdleRested, IdleKnows
<1>4. CASE orders' = orders /\ Goes(h, Idle)
  BY <1>2, <1>3, <1>4, QuietRests
<1>5. CASE k.left > 0 /\ orders' = orders \cup {i} /\ Goes(h, to)
  <2>1. k.order \in Incoming
    BY <1>1, <1>2, TaskParts
  <2>2. k.order.type # "market"
    BY <2>1 DEF LimitOnly, Incoming
  <2>3. i \in Coming(k)
    BY <1>2, <1>5, <2>2 DEF Coming, Comes, Settles
  <2>4. i \in RestingIds
    BY <1>1, <2>3 DEF Rested
  <2>5. to.at = "evict"
    OBVIOUS
  <2> HIDE DEF to, i, k
  <2>6. Coming(to) = {}
    BY <2>5 DEF Coming, Comes, Settles
  <2>7. RestingIds' = RestingIds /\ \A s \in Sides : Positive(book'[s])
    BY <1>1, <1>2 DEF RestingIds, Rested
  <2>8. \A j \in orders' : \/ j \in RestingIds' \cup Unrest(to)
                           \/ j \in orders /\ j \notin RestingIds \cup Unrest(task[h])
    <3>1. Unrest(task[h]) = {}
      BY <1>3 DEF k
    <3> QED
      BY <1>5, <2>4, <2>7, <3>1
  <2>9. \A g \in Handlers : g # h => Coming(task[g]) \cap RestingIds \subseteq RestingIds'
    BY <2>7
  <2>10. Goes(h, to) /\ Coming(to) \subseteq RestingIds'
    BY <1>5, <2>6
  <2> QED
    BY <1>1, <2>7, <2>8, <2>9, <2>10, RestMoves
<1> QED
  BY <1>2, <1>4, <1>5

-----------------------------------------------------------------------------

\* Matching: who leaves the book was filled, by a match that is to be settled;
\* what the incoming order leaves rests.
LEMMA MatchOrderRests ==
  ASSUME LimitOnly, RestInv, NEW h \in Handlers, MatchOrder(h)
  PROVE  Rested'
<1> DEFINE k == task[h]
           o == k.order
           s == o.side
           opp == Opposite(s)
           queue == book[opp]
           to == Matched(o, k.hold, queue)
           left == Unfilled(o, queue)
           F == Fills(o, queue)
<1>1. IInv /\ TaskTypeOK /\ BookTypeOK /\ Rested
  BY DEF RestInv, TrackInv, VetInv, IInv
<1>2. k.at = "match" /\ orders' = orders
  BY DEF MatchOrder, trackVars
<1>3. o \in Incoming /\ o.type \in {"limit", "other"}
  <2>1. o \in Incoming
    BY <1>1, <1>2, TaskParts
  <2> HIDE DEF o
  <2> QED
    BY <2>1, ExtensionAssumption DEF Incoming, LimitOnly
<1>4. Unrest(k) = {}
  BY <1>2, NothingLeaves
<1>5. CASE DoneUnlocking(h) /\ UNCHANGED book
  BY <1>2, <1>4, <1>5, IdleKnows, QuietRests DEF DoneUnlocking, Done
<1>6. CASE ~OrderRejected(o) /\ book' = AfterPlace(o, book) /\ Goes(h, to)
  <2>1. o.type = "limit"
    BY <1>3, <1>6 DEF OrderRejected
  <2>2. s \in Sides /\ opp \in Sides /\ opp # s
    BY <1>3, IncomingType, OppositeSide
  <2>3. /\ queue \in Seq(EntrySet(OrderIds, Users)) /\ book[s] \in Seq(Entries)
        /\ o.quantity \in Nat
    BY <1>1, <1>3, <2>2, IncomingType, BookTypes DEF BookTypeOK
  <2>4. /\ book'[opp] = AfterFills(o, queue)
        /\ book'[s] = IF o.type = "limit" /\ left > 0
                      THEN Rest(s, book[s], Entry(o, left)) ELSE book[s]
    <3> HIDE DEF o
    <3> QED
      BY <1>1, <1>3, <1>6, PlacedSides
  <2>5. left \in Nat
    <3> HIDE DEF o, queue
    <3> QED
      BY <2>3, TakenTotal
  <2> DEFINE e == Entry(o, left)
  <2>6. e \in Entries /\ e.id = o.id /\ e.remaining = left
    BY <1>3, <2>5, IncomingType DEF Entry, Entries
  <2>7. Positive(book[s]) /\ Positive(queue)
    BY <1>1, <2>2 DEF Rested
  <2>8. /\ \A j \in DOMAIN book'[opp] : book'[opp][j].remaining > 0
        /\ \A i \in DOMAIN queue :
             \/ queue[i].remaining = 0
             \/ queue[i].id \in QueueIds(book'[opp])
             \/ \E j \in DOMAIN F : F[j].maker = queue[i].id
    <3> HIDE DEF o, queue
    <3> QED
      BY <2>3, <2>4, FillsLeave
  <2>9. F \in Seq(Matches)
    <3> HIDE DEF o, queue
    <3> QED
      BY <2>3, BookTypes, FillsType
  <2>10. DOMAIN F = 1..Len(F)
    <3> HIDE DEF F
    <3> QED
      BY <2>9, PositionsFinite
  <2>11. /\ to.at = (IF F = <<>> THEN "finish" ELSE "quote")
         /\ to.order = o /\ to.next = 1 /\ to.fills = F /\ to.left = left
    BY DEF Matched
  <2> HIDE DEF to, left, F
  <2>12. \A i \in DOMAIN queue : \/ queue[i].id \in QueueIds(book'[opp])
                                 \/ queue[i].id \in Unrest(to)
    <3> SUFFICES ASSUME NEW i \in DOMAIN queue, queue[i].id \notin QueueIds(book'[opp])
                 PROVE  queue[i].id \in Unrest(to)
      OBVIOUS
    <3>1. queue[i].remaining # 0
      <4>1. queue[i].remaining > 0
        BY <2>7 DEF Positive
      <4> QED
        BY <4>1
    <3>2. PICK j \in DOMAIN F : F[j].maker = queue[i].id
      BY <2>8, <3>1
    <3>3. F # <<>>
      BY <3>2
    <3>4. to.at = "quote"
      BY <2>11, <3>3
    <3> QED
      BY <2>10, <2>11, <3>2, <3>4 DEF Unrest, Leaving
  <2>13. QueueIds(queue) \subseteq QueueIds(book'[opp]) \cup Unrest(to)
    BY <2>12 DEF QueueIds
  <2>14. /\ QueueIds(book[s]) \subseteq QueueIds(book'[s]) /\ Positive(book'[s])
         /\ left > 0 => o.id \in QueueIds(book'[s])
    <3>1. CASE left > 0
      <4> HIDE DEF e, o, s
      <4>1. book'[s] = Rest(s, book[s], e)
        BY <2>1, <2>4, <3>1 DEF e
      <4>2. QueueIds(book'[s]) = QueueIds(book[s]) \cup {e.id}
        BY <2>3, <2>6, <4>1, RestParts
      <4>3. Positive(book'[s])
        BY <2>3, <2>6, <2>7, <3>1, <4>1, RestPositive
      <4> QED
        BY <2>6, <4>2, <4>3
    <3>2. CASE ~(left > 0)
      <4>1. book'[s] = book[s]
        BY <2>4, <3>2
      <4> QED
        BY <2>7, <3>2, <4>1
    <3> QED
      BY <3>1, <3>2
  <2>15. Positive(book'[opp])
    BY <2>8 DEF Positive
  <2>16. (s = "buy" /\ opp = "sell") \/ (s = "sell" /\ opp = "buy")
    <3> HIDE DEF o, s, opp
    <3> QED
      BY <2>2 DEF Sides
  <2>17. /\ RestingIds = QueueIds(book[s]) \cup QueueIds(queue)
         /\ RestingIds' = QueueIds(book'[s]) \cup QueueIds(book'[opp])
    <3> HIDE DEF s, opp
    <3> QED
      BY <2>16, RestingSides, NextRestingSides
  <2>18. Coming(to) \subseteq RestingIds'
    <3>1. Coming(to) \subseteq {o.id} /\ (Coming(to) # {} => left > 0)
      BY <2>11 DEF Coming, Comes
    <3> QED
      BY <2>14, <2>17, <3>1
  <2>19. \A i \in RestingIds : i \in RestingIds' \cup Unrest(to)
    BY <2>13, <2>14, <2>17
  <2>20. \A r \in Sides : Positive(book'[r])
    <3>1. \A r \in Sides : r = s \/ r = opp
      BY <2>16 DEF Sides
    <3> QED
      BY <2>14, <2>15, <3>1
  <2>21. \A g \in Handlers : g # h => Coming(task[g]) \cap RestingIds \subseteq RestingIds'
    <3>1. task[h].at \in Locking
      BY <1>2 DEF Locking
    <3> QED
      BY <1>1, <3>1, OthersDoNotCome
  <2>22. \A i \in orders' : \/ i \in RestingIds' \cup Unrest(to)
                            \/ i \in orders /\ i \notin RestingIds \cup Unrest(task[h])
    BY <1>2, <1>4, <2>19
  <2> HIDE DEF k, o, s, opp, queue
  <2> QED
    BY <1>1, <1>6, <2>18, <2>20, <2>21, <2>22, RestMoves
<1>7. \/ DoneUnlocking(h) /\ UNCHANGED book
      \/ ~OrderRejected(o) /\ book' = AfterPlace(o, book) /\ Goes(h, to)
  BY DEF MatchOrder, Matched
<1> QED
  BY <1>5, <1>6, <1>7

\* EvictExcessLevels and handleEvictions: who is put out of the book is taken
\* off the tracking.
LEMMA EvictionRests ==
  ASSUME RestInv, NEW h \in Handlers, EvictLevels(h) \/ RefundEvicted(h)
  PROVE  Rested'
<1> DEFINE k == task[h]
<1>1. IInv /\ TaskTypeOK /\ BookTypeOK /\ Rested
  BY DEF RestInv, TrackInv, VetInv, IInv
<1>2. Unrest(Idle) = {} /\ Coming(Idle) = {}
  BY IdleRested, IdleKnows
<1>3. CASE EvictLevels(h)
  <2> DEFINE gone == UNION {EvictedFrom(s) : s \in Sides}
             full == [at |-> "evicted", gone |-> gone]
  <2>1. /\ k.at = "evict" /\ orders' = orders /\ book' = AfterEvict(book, MaxLevels)
        /\ (gone = {} /\ Goes(h, Idle)) \/ Goes(h, full)
    BY <1>3 DEF EvictLevels, DoneUnlocking, Done, trackVars
  <2>2. PICK to \in {Idle, full} : Goes(h, to) /\ (to = Idle => gone = {})
    <3>1. full # Idle
      <4>1. full.at = "evicted" /\ Idle.at = "idle"
        BY DEF Idle
      <4> QED
        BY <4>1
    <3> QED
      BY <2>1, <3>1
  <2>3. Coming(to) = {} /\ {x.entry.id : x \in gone} \subseteq Unrest(to)
    <3>1. CASE to = Idle
      BY <1>2, <2>2, <3>1
    <3>2. CASE to = full
      <4>1. to.at = "evicted" /\ to.gone = gone
        BY <3>2
      <4> HIDE DEF gone, full
      <4> QED
        BY <4>1 DEF Unrest, Out, Coming, Comes, Settles
    <3> QED
      BY <3>1, <3>2
  <2>4. ASSUME NEW s \in Sides
        PROVE  /\ Positive(book'[s])
               /\ QueueIds(book[s]) \subseteq QueueIds(book'[s]) \cup {x.entry.id : x \in EvictedFrom(s)}
    <3> DEFINE queue == book[s]
               P == {i \in DOMAIN queue : Rank(s, queue, i) < MaxLevels}
               Q == {i \in DOMAIN queue : Rank(s, queue, i) >= MaxLevels}
               out == Sub(queue, Q)
    <3>1. queue \in Seq(EntrySet(OrderIds, Users)) /\ Positive(queue) /\ MaxLevels \in Nat
      BY <1>1, BookTypes, ExtensionAssumption DEF BookTypeOK, Rested
    <3>2. book'[s] = Sub(queue, P)
      BY <2>1 DEF AfterEvict, Kept
    <3>3. P \in SUBSET (DOMAIN queue) /\ Q \in SUBSET (DOMAIN queue)
          /\ \A i \in DOMAIN queue : i \in P \cup Q
      <4>1. \A i \in DOMAIN queue : Rank(s, queue, i) \in Nat
        BY <3>1, BookTypes, RankType
      <4> QED
        BY <3>1, <4>1
    <3>4. EvictedFrom(s) = {[side |-> s, entry |-> e] : e \in ToSet(out)}
      BY DEF EvictedFrom, Evicted
    <3> HIDE DEF P, Q
    <3>5. QueueIds(book'[s]) = {queue[i].id : i \in P}
      BY <3>1, <3>2, <3>3, SubParts
    <3>6. QueueIds(out) = {queue[i].id : i \in Q}
      BY <3>1, <3>3, SubParts
    <3>7. Positive(book'[s])
      BY <3>1, <3>2, <3>3, SubPositive
    <3>8. QueueIds(out) \subseteq {x.entry.id : x \in EvictedFrom(s)}
      <4> SUFFICES ASSUME NEW j \in DOMAIN out
                   PROVE  \E x \in EvictedFrom(s) : x.entry.id = out[j].id
        BY DEF QueueIds
      <4> DEFINE x == [side |-> s, entry |-> out[j]]
      <4>1. out[j] \in ToSet(out)
        BY DEF ToSet
      <4>2. x \in EvictedFrom(s) /\ x.entry = out[j]
        BY <3>4, <4>1
      <4> HIDE DEF x
      <4> QED
        BY <4>2
    <3>9. QueueIds(queue) \subseteq QueueIds(book'[s]) \cup QueueIds(out)
      <4> SUFFICES ASSUME NEW i \in DOMAIN queue
                   PROVE  queue[i].id \in QueueIds(book'[s]) \cup QueueIds(out)
        BY DEF QueueIds
      <4> HIDE DEF queue, out
      <4> QED
        BY <3>3, <3>5, <3>6
    <3> HIDE DEF out
    <3> QED
      BY <3>7, <3>8, <3>9
  <2>5. \A i \in RestingIds : i \in RestingIds' \cup {x.entry.id : x \in gone}
    <3> SUFFICES ASSUME NEW i \in RestingIds
                 PROVE  i \in RestingIds' \cup {x.entry.id : x \in gone}
      OBVIOUS
    <3>1. PICK s \in Sides : i \in QueueIds(book[s])
      BY RestingSides DEF Sides
    <3>2. i \in QueueIds(book'[s]) \/ i \in {x.entry.id : x \in EvictedFrom(s)}
      BY <2>4, <3>1
    <3>3. QueueIds(book'[s]) \subseteq RestingIds'
      BY NextRestingSides DEF Sides
    <3>4. EvictedFrom(s) \subseteq gone
      OBVIOUS
    <3> QED
      BY <3>2, <3>3, <3>4
  <2>6. Unrest(k) = {}
    BY <2>1, NothingLeaves
  <2>7. \A i \in orders' : \/ i \in RestingIds' \cup Unrest(to)
                           \/ i \in orders /\ i \notin RestingIds \cup Unrest(task[h])
    BY <2>1, <2>3, <2>5, <2>6
  <2>8. \A g \in Handlers : g # h => Coming(task[g]) \cap RestingIds \subseteq RestingIds'
    <3>1. task[h].at \in Locking
      BY <2>1 DEF Locking
    <3> QED
      BY <1>1, <3>1, OthersDoNotCome
  <2> HIDE DEF gone, full, k
  <2> QED
    BY <1>1, <2>2, <2>3, <2>4, <2>7, <2>8, RestMoves
<1>4. CASE RefundEvicted(h)
  <2>1. k.at = "evicted" /\ UNCHANGED book
    BY <1>4 DEF RefundEvicted
  <2>2. PICK x \in k.gone :
          /\ orders' = orders \ {x.entry.id}
          /\ \/ k.gone \ {x} = {} /\ Goes(h, Idle)
             \/ Goes(h, [k EXCEPT !.gone = k.gone \ {x}])
    BY <1>4 DEF RefundEvicted, DoneUnlocking, Done
  <2> DEFINE rest == [k EXCEPT !.gone = k.gone \ {x}]
  <2>3. k \in Evicting
    BY <1>1, <2>1, TaskParts, TaskShape
  <2>4. rest.at = "evicted" /\ rest.gone = k.gone \ {x}
    BY <2>1, <2>3 DEF Evicting
  <2> HIDE DEF rest
  <2>5. /\ Unrest(k) = {y.entry.id : y \in k.gone}
        /\ Unrest(rest) = {y.entry.id : y \in k.gone \ {x}} /\ Coming(rest) = {}
    BY <2>1, <2>4 DEF Unrest, Out, Leaving, Coming, Comes, Settles
  <2>6. Unrest(k) \cap orders' \subseteq Unrest(rest)
    <3> HIDE DEF k
    <3> QED
      BY <2>2, <2>5
  <2>7. orders' \subseteq orders
    BY <2>2
  <2>8. CASE Goes(h, rest)
    BY <2>1, <2>5, <2>6, <2>7, <2>8, QuietRests
  <2>9. CASE k.gone \ {x} = {} /\ Goes(h, Idle)
    <3>1. Unrest(rest) = {}
      BY <2>5, <2>9
    <3> QED
      BY <1>2, <2>1, <2>6, <2>7, <2>9, <3>1, QuietRests
  <2> QED
    BY <2>2, <2>8, <2>9 DEF rest
<1> QED
  BY <1>3, <1>4

\* A cancel: the order it takes out of the book is its own to untrack; another's
\* goes back into the book.
LEMMA CancelRests ==
  ASSUME RestInv, NEW h \in Handlers, CancelInBook(h) \/ CancelRefund(h) \/ CancelUntrack(h)
  PROVE  Rested'
<1> DEFINE k == task[h]
           id == k.id
           out == Without(id, book)
<1>1. IInv /\ TaskTypeOK /\ BookTypeOK /\ Rested /\ Apart /\ OneEach
  BY DEF RestInv, TrackInv, VetInv, IInv
<1>2. Unrest(Idle) = {} /\ Coming(Idle) = {}
  BY IdleRested, IdleKnows
<1>3. CASE CancelInBook(h)
  <2>1. k.at = "cancel" /\ orders' = orders
    BY <1>3 DEF CancelInBook, trackVars
  <2>2. Unrest(k) = {} /\ Looked(k) = {id}
    BY <2>1, NothingLeaves DEF Looked
  <2>3. \/ Done(h) /\ UNCHANGED book
        \/ \E s \in Sides : \E e \in ToSet(book[s]) :
             /\ e.id = id
             /\ \/ /\ book' = out
                   /\ Goes(h, [at |-> "refund", user |-> e.owner, side |-> s, entry |-> e])
                \/ /\ book' = [out EXCEPT ![s] = Rest(s, @, e)]
                   /\ Done(h)
    BY <1>3, Zenon DEF CancelInBook
  <2> HIDE DEF id
  <2>4. /\ out \in [Sides -> Seq(Entries)]
        /\ \A s \in Sides : /\ Positive(out[s])
                            /\ QueueIds(book[s]) \subseteq QueueIds(out[s]) \cup {id}
    <3>1. out \in [Sides -> Seq(Entries)]
      BY <1>1, WithoutBook
    <3>2. ASSUME NEW s \in Sides
          PROVE  Positive(out[s]) /\ QueueIds(book[s]) \subseteq QueueIds(out[s]) \cup {id}
      <4> DEFINE queue == book[s]
                 P == {i \in DOMAIN queue : queue[i].id # id}
      <4>1. queue \in Seq(Entries) /\ Positive(queue) /\ P \in SUBSET (DOMAIN queue)
        BY <1>1 DEF BookTypeOK, Rested
      <4>2. out[s] = Sub(queue, P)
        BY DEF Without
      <4>3. \A i \in DOMAIN queue : i \in P \/ queue[i].id = id
        OBVIOUS
      <4> HIDE DEF P, queue, out
      <4>4. QueueIds(out[s]) = {queue[i].id : i \in P}
        BY <4>1, <4>2, SubParts
      <4>5. Positive(out[s])
        BY <4>1, <4>2, SubPositive
      <4>6. QueueIds(queue) \subseteq QueueIds(out[s]) \cup {id}
        BY <4>3, <4>4 DEF QueueIds
      <4> QED
        BY <4>5, <4>6 DEF queue
    <3> QED
      BY <3>1, <3>2
  <2>5. CASE Done(h) /\ UNCHANGED book
    BY <1>2, <2>1, <2>2, <2>5, QuietRests DEF Done
  <2>6. ASSUME NEW s \in Sides, NEW e \in ToSet(book[s]), e.id = id, book' = out,
               Goes(h, [at |-> "refund", user |-> e.owner, side |-> s, entry |-> e])
        PROVE  Rested'
    <3> DEFINE to == [at |-> "refund", user |-> e.owner, side |-> s, entry |-> e]
    <3>1. to.at = "refund" /\ to.entry = e
      OBVIOUS
    <3>2. Goes(h, to)
      BY <2>6
    <3> HIDE DEF to
    <3>3. Coming(to) = {} /\ id \in Unrest(to)
      BY <2>6, <3>1 DEF Coming, Comes, Settles, Unrest, Out
    <3>4. \A r \in Sides : Positive(book'[r]) /\ QueueIds(book[r]) \subseteq QueueIds(book'[r]) \cup {id}
      BY <2>4, <2>6
    <3>5. RestingIds \subseteq RestingIds' \cup {id}
      BY <3>4, RestingSides, NextRestingSides DEF Sides
    <3>6. \A g \in Handlers : Coming(task[g]) \cap RestingIds \subseteq RestingIds'
      <4> SUFFICES ASSUME NEW g \in Handlers
                   PROVE  id \notin Coming(task[g])
        BY <3>5
      <4>1. Placed(task[g]) \cap Looked(k) = {}
        BY <1>1 DEF Apart
      <4>2. Coming(task[g]) \subseteq Placed(task[g])
        BY UnrestedIsPlaced
      <4> QED
        BY <2>2, <4>1, <4>2
    <3>7. \A i \in orders' : \/ i \in RestingIds' \cup Unrest(to)
                             \/ i \in orders /\ i \notin RestingIds \cup Unrest(task[h])
      BY <2>1, <2>2, <3>3, <3>5
    <3> HIDE DEF out
    <3> QED
      BY <1>1, <3>2, <3>3, <3>4, <3>6, <3>7, RestMoves
  <2>7. ASSUME NEW s \in Sides, NEW e \in ToSet(book[s]), e.id = id,
               book' = [out EXCEPT ![s] = Rest(s, @, e)], Done(h)
        PROVE  Rested'
    <3>1. PICK i \in DOMAIN book[s] : e = book[s][i]
      BY DEF ToSet
    <3>2. e \in Entries /\ e.remaining > 0
      BY <1>1, <3>1 DEF BookTypeOK, Rested, Positive
    <3>3. book'[s] = Rest(s, out[s], e) /\ \A r \in Sides : r # s => book'[r] = out[r]
      BY <2>4, <2>7
    <3> HIDE DEF out
    <3>4. QueueIds(book'[s]) = QueueIds(out[s]) \cup {id} /\ Positive(book'[s])
      <4>1. out[s] \in Seq(Entries) /\ Positive(out[s])
        BY <2>4
      <4>2. QueueIds(book'[s]) = QueueIds(out[s]) \cup {e.id}
        BY <3>2, <3>3, <4>1, RestParts
      <4>3. Positive(book'[s])
        BY <3>2, <3>3, <4>1, RestPositive
      <4> QED
        BY <2>7, <4>2, <4>3
    <3>5. \A r \in Sides : Positive(book'[r]) /\ QueueIds(book[r]) \subseteq QueueIds(book'[r]) \cup {id}
      <4> SUFFICES ASSUME NEW r \in Sides
                   PROVE  Positive(book'[r]) /\ QueueIds(book[r]) \subseteq QueueIds(book'[r]) \cup {id}
        OBVIOUS
      <4>1. CASE r = s
        BY <2>4, <3>4, <4>1
      <4>2. CASE r # s
        BY <2>4, <3>3, <4>2
      <4> QED
        BY <4>1, <4>2
    <3>6. RestingIds \subseteq RestingIds'
      <4>1. id \in RestingIds'
        BY <3>4, NextRestingSides DEF Sides
      <4>2. RestingIds \subseteq RestingIds' \cup {id}
        BY <3>5, RestingSides, NextRestingSides DEF Sides
      <4> QED
        BY <4>1, <4>2
    <3>7. \A o \in orders' : \/ o \in RestingIds' \cup Unrest(Idle)
                             \/ o \in orders /\ o \notin RestingIds \cup Unrest(task[h])
      BY <2>1, <2>2, <3>6
    <3>8. Goes(h, Idle) /\ Coming(Idle) \subseteq RestingIds'
      BY <1>2, <2>7 DEF Done
    <3>9. \A g \in Handlers : g # h => Coming(task[g]) \cap RestingIds \subseteq RestingIds'
      BY <3>6
    <3>10. \A r \in Sides : Positive(book'[r])
      BY <3>5
    <3> QED
      BY <1>1, <3>7, <3>8, <3>9, <3>10, RestMoves
  <2> HIDE DEF out
  <2> QED
    BY <2>3, <2>5, <2>6, <2>7
<1>4. CASE CancelRefund(h)
  <2> DEFINE to == [k EXCEPT !.at = "untrack"]
  <2>1. k.at = "refund" /\ UNCHANGED <<book, orders>> /\ Goes(h, to)
    BY <1>4 DEF CancelRefund, trackVars
  <2>2. k \in Cancelled
    BY <1>1, <2>1, TaskParts, TaskShape
  <2>3. to.at = "untrack" /\ to.entry = k.entry
    BY <2>2 DEF Cancelled
  <2> HIDE DEF to
  <2>4. Unrest(to) = Unrest(k) /\ Coming(to) = {}
    BY <2>1, <2>3 DEF Unrest, Out, Leaving, Coming, Comes, Settles
  <2> QED
    BY <2>1, <2>4, QuietRests
<1>5. CASE CancelUntrack(h)
  <2>1. /\ k.at = "untrack" /\ UNCHANGED book /\ orders' = orders \ {k.entry.id}
        /\ Goes(h, Idle)
    BY <1>5 DEF CancelUntrack, Done
  <2>2. Unrest(k) = {k.entry.id}
    BY <2>1 DEF Unrest, Out, Leaving
  <2>3. orders' \subseteq orders /\ Unrest(k) \cap orders' = {}
    BY <2>1, <2>2
  <2> QED
    BY <1>2, <2>1, <2>3, QuietRests
<1> QED
  BY <1>3, <1>4, <1>5

\* No settlement panics, so none leaves a filled order tracked.
LEMMA NeverPanics ==
  ASSUME LimitOnly, VetInv, NEW h \in Handlers
  PROVE  ~Panic(h)
<1> SUFFICES ASSUME Panic(h)
             PROVE  FALSE
  OBVIOUS
<1>1. task[h].at = "quote" /\ Overflows(NextFill(h).quantity, NextFill(h).price)
  BY DEF Panic
<1>2. task[h].next \in DOMAIN task[h].fills /\ VettedFills(task[h].fills)
  BY <1>1, FillsAreVetted, TaskParts DEF VetInv, IInv
<1> QED
  BY <1>1, <1>2 DEF VettedFills, NextFill

\* At the start nothing is tracked and nothing rests.
LEMMA StartRests == AtStart => Rested
<1> SUFFICES ASSUME AtStart
             PROVE  Rested
  OBVIOUS
<1>1. /\ \A s \in Sides : book[s] = <<>>
      /\ \A h \in Handlers : task[h] = Idle
      /\ orders = {}
  BY DEF AtStart, AllIdle
<1> QED
  BY <1>1, IdleKnows DEF Rested, Positive

\* The same after a restart.
LEMMA StartRestsNext == AtStart' => Rested'
BY StartRests, PTL

\* Every step keeps what is tracked at rest or on its way out.
LEMMA NextRests == LimitOnly /\ RestInv /\ [Next]_vars => RestInv'
<1> SUFFICES ASSUME LimitOnly, RestInv, [Next]_vars
             PROVE  RestInv'
  OBVIOUS
<1>1. TrackInv'
  BY NextTrack DEF RestInv
<1>2. ASSUME NEW h \in Handlers, NEW o \in Incoming, PlaceOrder(h, o)
      PROVE  Rested'
  BY <1>2, OpeningRests
<1>3. ASSUME NEW h \in Handlers, NEW u \in Users, NEW id \in 1..issued,
             CancelOrder(h, u, id)
      PROVE  Rested'
  BY <1>3, OpeningRests
<1>4. ASSUME NEW h \in Handlers, Step(h)
      PROVE  Rested'
  <2>1. ~Panic(h)
    BY NeverPanics DEF RestInv, TrackInv
  <2> QED
    BY <1>4, <2>1, OpeningRests, MatchOrderRests, SettlingRests, FinishPlaceRests,
       EvictionRests, CancelRests DEF Step
<1>5. CASE UNCHANGED <<book, orders, task>>
  <2>1. RestingIds' = RestingIds
    BY <1>5 DEF RestingIds
  <2>2. Rested'
    BY <1>5, <2>1 DEF RestInv, Rested
  <2> QED
    BY <1>1, <2>2 DEF RestInv
<1>6. ASSUME NEW u \in Users, NEW t \in Tokens, DepositFunds(u, t) \/ WithdrawFunds(u, t)
      PROVE  RestInv'
  BY <1>5, <1>6 DEF DepositFunds, WithdrawFunds, trackVars
<1>7. CASE UNCHANGED vars
  BY <1>5, <1>7 DEF vars, trackVars
<1>8. CASE Restart
  <2>1. AtStart'
    <3>1. issued' \in Nat
      BY <1>1 DEF TrackInv, VetInv, IInv, TaskTypeOK
    <3> QED
      BY <1>8, <3>1 DEF Restart, AllIdle, AtStart
  <2> QED
    BY <1>1, <2>1, StartRestsNext DEF RestInv
<1>9. \A h \in Handlers, id \in 1..MaxOrders : CancelRejected(h, id) => UNCHANGED vars
  BY DEF CancelRejected
<1> QED
  BY <1>1, <1>2, <1>3, <1>4, <1>6, <1>7, <1>8, <1>9 DEF Next, RestInv

\* The invariant of the test C2, when no market order comes in: whenever e.mu is
\* free, a tracked order rests, or a cancel has just taken it out.
THEOREM TrackedOrdersRest == LimitOnly => (Spec => []TrackedRests)
<1> SUFFICES ASSUME LimitOnly
             PROVE  Spec => []TrackedRests
  OBVIOUS
<1>1. Init => RestInv
  <2> SUFFICES ASSUME Init
               PROVE  RestInv
    OBVIOUS
  <2>1. AtStart
    BY DEF Init, AtStart, AllIdle
  <2> QED
    BY <2>1, InitTrack, StartRests DEF RestInv
<1>2. RestInv /\ [Next]_vars => RestInv'
  BY NextRests
<1>3. RestInv => TrackedRests
  <2> SUFFICES ASSUME RestInv, mu = Free, NEW i \in orders, i \notin RestingIds
               PROVE  i \in Cancelling
    BY DEF TrackedRests
  <2>1. PICK h \in Handlers : i \in Unrest(task[h])
    BY DEF RestInv, Rested
  <2>2. task[h].at \notin Locking
    BY FreeMeansSettled DEF RestInv
  <2>3. task[h].at \in {"refund", "untrack"} /\ i = task[h].entry.id
    BY <2>1, <2>2 DEF Unrest, Out, Leaving, Locking
  <2> QED
    BY <2>3 DEF Cancelling
<1> QED
  BY <1>1, <1>2, <1>3, PTL DEF Spec

=============================================================================
