------------------------------ MODULE MarketData ------------------------------
(***************************************************************************)
(* Market data and how the page draws it, as pure functions: the candle    *)
(* rings the TEE rolls (handlers.go, pkg/orderbook/ring.go), the bars the  *)
(* browser makes of them (lib/candles.ts), the incremental chart update    *)
(* (Chart.tsx), and the figures of OrderBook, MarketStats and RecentTrades. *)
(* Prices stay in raw units: formatPrice divides both sides of every       *)
(* comparison by the same constant.                                        *)
(***************************************************************************)
EXTENDS UnitSum, Integers, Sequences, SequencesExt, FiniteSetsExt

CONSTANTS RingSize,     \* MaxCandlesPerTF
          CandleLimit,  \* the limit the browser asks for
          MaxBars,      \* maxCandles of fromServerCandles
          Rows,         \* ROWS of OrderBook
          TapeRows      \* the rows of RecentTrades

ASSUME MarketDataAssumption ==
  /\ {RingSize, CandleLimit, MaxBars} \subseteq Nat \ {0, 1}
  /\ {Rows, TapeRows} \subseteq Nat \ {0}

-----------------------------------------------------------------------------
(* The rings of the TEE.                                                   *)

Bucket(time, tf) == time - (time % tf)

\* Ring.Push: the oldest entry goes when the ring is full.
Push(ring, c, size) == LET all == Append(ring, c)
                       IN IF Len(all) > size THEN Tail(all) ELSE all

\* Mutant: a later trade of the bucket does not lower the candle.
RollKeepingLow(ring, tf, time, price) ==
  LET t == Bucket(time, tf)
      last == ring[Len(ring)]
      open == IF ring = <<>> THEN price ELSE last.close
  IN IF ring = <<>> \/ last.openTime # t
     THEN Push(ring, [openTime |-> t, open |-> open, high |-> Max({open, price}),
                      low |-> Min({open, price}), close |-> price, trades |-> 1], RingSize)
     ELSE [ring EXCEPT ![Len(ring)] =
             [last EXCEPT !.high = Max({@, price}), !.close = price, !.trades = @ + 1]]
\* updateCandles for one timeframe: the newest candle takes the trade when it
\* is of the trade's bucket; otherwise a candle opens at the last close.
RollCandles(ring, tf, time, price) ==
  LET t == Bucket(time, tf)
      last == ring[Len(ring)]
      open == IF ring = <<>> THEN price ELSE last.close
  IN IF ring = <<>> \/ last.openTime # t
     THEN Push(ring, [openTime |-> t, open |-> open, high |-> Max({open, price}),
                      low |-> Min({open, price}), close |-> price, trades |-> 1], RingSize)
     ELSE [ring EXCEPT ![Len(ring)] =
             [last EXCEPT !.high = Max({@, price}), !.low = Min({@, price}),
                       !.close = price, !.trades = @ + 1]]

\* Mutant: the oldest entries are kept.
OldestKept(seq, n) == IF Len(seq) > n THEN SubSeq(seq, 1, n) ELSE seq
Newest(seq, n) == IF Len(seq) > n THEN SubSeq(seq, Len(seq) - n + 1, Len(seq)) ELSE seq

\* GET_CANDLES: oldest first, the newest `CandleLimit' of them.
CandlesAnswer(ring) == Newest(ring, CandleLimit)

\* Ring.SnapshotNewestFirst of trades that are kept newest first.
FirstOf(seq, n) == SubSeq(seq, 1, Min({Len(seq), n}))

-----------------------------------------------------------------------------
(* lib/candles.ts.                                                         *)

\* Mutant: no candles for the intervals without a trade.
BarsWithGaps(candles, tf) ==
  [i \in DOMAIN candles |-> [time |-> candles[i].openTime, open |-> candles[i].open,
     high |-> candles[i].high, low |-> candles[i].low, close |-> candles[i].close]]

\* fromServerCandles: one bar per bucket from the first to the last; of two
\* candles of one bucket the later counts; an interval without a candle is flat
\* at the close before it.
FromServerCandles(candles, tf) ==
  IF candles = <<>> THEN <<>>
  ELSE
  LET times == {candles[i].openTime : i \in DOMAIN candles}
      first == Min(times)
      count == (Max(times) - first) \div tf + 1
      ByTime(t) == candles[Max({i \in DOMAIN candles : candles[i].openTime = t})]
      LastBefore(t) == Max({x \in times : x <= t})
      Flat(t, p) == [time |-> t, open |-> p, high |-> p, low |-> p, close |-> p]
      Bar(t) == LET c == ByTime(LastBefore(t))
                IN IF c.openTime = t
                   THEN [time |-> t, open |-> c.open, high |-> c.high, low |-> c.low, close |-> c.close]
                   ELSE Flat(t, c.close)
  IN Newest([i \in 1..count |-> Bar(first + (i - 1) * tf)], MaxBars)

-----------------------------------------------------------------------------
(* Chart.tsx.                                                              *)

NoTf == 0
NoPair == "none"

\* The first effect: a chart and an empty series; its cleanup forgets which
\* pair and timeframe were drawn, and keeps the bars drawn last.
NewChart == [series |-> <<>>, prev |-> <<>>, lastTf |-> NoTf, lastPair |-> NoPair, broken |-> FALSE]

\* Mutant: a cleanup that resets neither reference.
RemadeForgetful(ch) == [ch EXCEPT !.series = <<>>]
Remade(ch) == [ch EXCEPT !.series = <<>>, !.lastTf = NoTf, !.lastPair = NoPair]

\* series.update: replace the last bar, append a later one, refuse an earlier one.
UpdateSeries(ch, bar) ==
  LET s == ch.series
      lastTime == IF s = <<>> THEN bar.time ELSE s[Len(s)].time
  IN CASE s = <<>> \/ bar.time > lastTime -> [ch EXCEPT !.series = Append(s, bar)]
       [] s # <<>> /\ bar.time = lastTime -> [ch EXCEPT !.series[Len(s)] = bar]
       [] OTHER -> [ch EXCEPT !.broken = TRUE]

\* The second effect, after a render with other candles, pair or timeframe.
Drawn(ch, bars, pair, tf) ==
  LET n == Len(bars)
      changed == ch.lastTf # tf \/ ch.lastPair # pair
      differing == {i \in 1..n : bars[i] # ch.prev[i]}
      redraw == [ch EXCEPT !.series = bars, !.prev = bars, !.lastTf = tf, !.lastPair = pair]
  IN IF ~changed /\ n > 0 /\ n = Len(ch.prev)
     THEN CASE differing = {} -> [ch EXCEPT !.prev = bars]
            [] differing = {n} -> [UpdateSeries(ch, bars[n]) EXCEPT !.prev = bars]
            [] OTHER -> redraw
     ELSE redraw

\* Mounting runs the effects twice under StrictMode.
Mounted(bars, pair, tf) == Drawn(Remade(Drawn(NewChart, bars, pair, tf)), bars, pair, tf)

-----------------------------------------------------------------------------
(* OrderBook.tsx: levels are records [price, quantity].                    *)

Prices(levels) == {l.price : l \in levels}
\* Depth has one level per price; the i-th from the best has i - 1 before it.
ByPrice(levels, up) ==
  LET before(p) == {q \in Prices(levels) : IF up THEN q < p ELSE q > p}
  IN  [i \in 1..Cardinality(Prices(levels)) |->
         CHOOSE l \in levels : Cardinality(before(l.price)) = i - 1]
FirstRows(seq) == FirstOf(seq, Rows)

\* One side of the ladder: the best ROWS levels with the sizes summed outward.
BookSide(levels, up) ==
  LET rows == FirstRows(ByPrice(levels, up))
      Sum[i \in 0..Len(rows)] == IF i = 0 THEN 0 ELSE Sum[i - 1] + rows[i].quantity
  IN [i \in DOMAIN rows |-> [price |-> rows[i].price, quantity |-> rows[i].quantity, cum |-> Sum[i]]]

BestOf(side) == IF side = <<>> THEN 0 ELSE side[1].price
TotalOf(side) == IF side = <<>> THEN 0 ELSE side[Len(side)].cum

\* Twice the mid, so that it stays a number; asks are drawn best at the bottom.
BookView(bids, asks) ==
  LET b == BookSide(bids, FALSE)
      a == BookSide(asks, TRUE)
      both == b # <<>> /\ a # <<>>
  IN [bids |-> b, asks |-> Reverse(a),
      mid2 |-> IF both THEN BestOf(b) + BestOf(a) ELSE 0,
      spread |-> IF both THEN BestOf(a) - BestOf(b) ELSE 0,
      maxCum |-> Max({TotalOf(b), TotalOf(a), 1})]

\* MarketStats: trades are newest first.
StatsView(bids, asks, trades) ==
  LET mid2 == IF bids = {} \/ asks = {} THEN 0 ELSE Max(Prices(bids)) + Min(Prices(asks))
      traded == {trades[i] : i \in DOMAIN trades}
      last2 == IF trades = <<>> THEN mid2 ELSE 2 * trades[1]
      ref == IF Len(trades) > 1 THEN trades[Len(trades)] ELSE 0
  IN [high |-> IF traded = {} THEN 0 ELSE Max(traded),
      low |-> IF traded = {} THEN 0 ELSE Min(traded),
      last2 |-> last2,
      change2 |-> IF ref # 0 /\ last2 # 0 THEN last2 - 2 * ref ELSE 0]

\* RecentTrades: each row is compared with the next older one shown, and a row
\* at the same price takes that row's direction to be up.
TapeView(trades) ==
  LET recent == FirstOf(trades, TapeRows)
  IN [i \in DOMAIN recent |->
        [price |-> recent[i],
         dir |-> IF i < Len(recent) /\ recent[i] < recent[i + 1] THEN "dn" ELSE "up"]]
=============================================================================
