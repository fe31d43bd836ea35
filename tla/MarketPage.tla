------------------------------ MODULE MarketPage ------------------------------
(***************************************************************************)
(* The trading page (pages/Trade.tsx) as a reader of the market: the pair, *)
(* the timeframe and the layout it keeps in localStorage, the pair         *)
(* selector, the two polled queries, and the chart it updates              *)
(* incrementally, against a TEE whose market moves, whose clock may step   *)
(* back and which forgets its candles and trades when it restarts.         *)
(*                                                                         *)
(* A query is an answer taken at one moment and applied at a later one, or *)
(* never; react-query keeps one cached answer per key.                     *)
(***************************************************************************)
EXTENDS MarketData

CONSTANTS Pairs, Timeframes,
          PairPrices,        \* pair |-> the prices it trades at
          PairBooks,         \* pair |-> the books it can have: records [bids, asks]
          MatchLimit,        \* the trades of one answer: DefaultBookMatchLimit
          DefaultPair, DefaultTimeframe,
          MaxTime, MaxTrades,            \* bounds: clock, trades
          MaxSteps,                      \* bound: the user's steps, changes of a book,
                                         \* restarts and setbacks of the clock together
          MaxEvents,                     \* bound: trades and those steps together
          MaxInflight                    \* bound: answers under way at once

ASSUME MarketPageAssumption ==
  /\ Timeframes \subseteq Nat \ {0} /\ DefaultPair \in Pairs /\ DefaultTimeframe \in Timeframes
  /\ \A p \in Pairs :
       /\ PairPrices[p] \subseteq Nat \ {0} /\ PairBooks[p] # {}
       /\ \A b \in PairBooks[p] : \A side \in {b.bids, b.asks} :
            /\ IsFiniteSet(side) /\ Prices(side) \subseteq Nat \ {0}
            /\ \A l, m \in side : l.price = m.price => l = m
  /\ MatchLimit \in Nat \ {0}
  /\ {MaxTime, MaxTrades, MaxSteps, MaxEvents, MaxInflight} \subseteq Nat

VARIABLES
  tee,      \* [clock, rings, trades, book, traded, back, restarts] of the server: trades
            \* are all since it started, newest first, of which its ring holds the newest;
            \* the last two remember that the clock stepped back, that it restarted
  page,     \* Trade's state: [pair, tf, prefill, panels]
  form,     \* the price field of OrderForm, as far as clicks in the ladder fill it
  stored,   \* localStorage: the page's state as last saved
  books,    \* react-query, per pair: the last answer of ["bookState", pair]
  candles,  \* react-query, per pair and timeframe: ["candles", pair, tf, 240]
  inflight, \* answers under way: set of [key, data]
  chart,    \* the chart's refs and series
  steps     \* how many of the user's steps and of the TEE's accidents have happened

vars == <<tee, page, form, stored, books, candles, inflight, chart, steps>>

Panels == {"chart", "book", "tape", "entry"}
NoAnswer == [pair |-> "none"]
NoPrefill == 0

-----------------------------------------------------------------------------
(* What the page keeps between visits.                                     *)

\* The three effects that save the pair, the timeframe and the layout.
Saved(pg) == [pair |-> pg.pair, tf |-> pg.tf, panels |-> pg.panels]

\* What an earlier visit may have left: a pair and a timeframe offered no more, and
\* the panel of the order form closed.
OldVisit == [pair |-> "gone", tf |-> 0, panels |-> Panels \ {"entry"}]

\* Mutant: what was saved is taken as it is.
LoadedUnchecked(s) ==
  [pair |-> s.pair, tf |-> s.tf, prefill |-> NoPrefill, panels |-> s.panels]
\* loadPair, loadTimeframe, loadLayout: what was saved if it is still offered.
Loaded(s) ==
  [pair |-> IF s.pair \in Pairs THEN s.pair ELSE DefaultPair,
   tf |-> IF s.tf \in Timeframes THEN s.tf ELSE DefaultTimeframe,
   prefill |-> NoPrefill, panels |-> s.panels]

\* Header: the chips that bring hidden panels back.
HiddenPanels == Panels \ page.panels

-----------------------------------------------------------------------------
(* What the queries return and what the page makes of it.                  *)

BookKey(p) == <<"bookState", p>>
CandlesKey(p, tf) == <<"candles", p, tf>>
ActiveKeys == {BookKey(page.pair)}
                \cup (IF "chart" \in page.panels THEN {CandlesKey(page.pair, page.tf)} ELSE {})

\* GET_BOOK_STATE returns the newest MatchLimit trades; known is a history, of how
\* many trades there were.
Answer(key) ==
  IF key[1] = "bookState"
  THEN [pair |-> key[2], book |-> tee.book[key[2]], known |-> Len(tee.trades[key[2]]),
        trades |-> FirstOf(tee.trades[key[2]], MatchLimit)]
  ELSE [pair |-> key[2], tf |-> key[3], candles |-> CandlesAnswer(tee.rings[key[2]][key[3]])]

\* useBookState: the cached answer of the selected pair, empty without one.
ShownBook(bk, pair) == IF bk[pair] = NoAnswer THEN [bids |-> {}, asks |-> {}] ELSE bk[pair].book
ShownTrades(bk, pair) == IF bk[pair] = NoAnswer THEN <<>> ELSE bk[pair].trades

\* Chart: the memoised bars of the selected pair and timeframe.
BarsOf(cs, pair, tf) ==
  IF cs[pair][tf] = NoAnswer THEN <<>> ELSE FromServerCandles(cs[pair][tf].candles, tf)

Ladder == BookView(ShownBook(books, page.pair).bids, ShownBook(books, page.pair).asks)
Stats == StatsView(ShownBook(books, page.pair).bids, ShownBook(books, page.pair).asks,
                   ShownTrades(books, page.pair))
Tape == TapeView(ShownTrades(books, page.pair))

\* The render that follows a step runs the chart's effect.
Rendered(pg, cs, ch) ==
  chart' = IF "chart" \notin pg.panels THEN ch ELSE Drawn(ch, BarsOf(cs, pg.pair, pg.tf), pg.pair, pg.tf)

\* A chart that threw takes the page with it: there is no error boundary.
Alive == ~chart.broken

-----------------------------------------------------------------------------
NoRings == [p \in Pairs |-> [tf \in Timeframes |-> <<>>]]

NoBooks == [p \in Pairs |-> NoAnswer]
NoCandles == [p \in Pairs |-> [tf \in Timeframes |-> NoAnswer]]
FirstChart(pg) == IF "chart" \in pg.panels THEN Mounted(<<>>, pg.pair, pg.tf) ELSE NewChart

Init ==
  /\ tee = [clock |-> 1, rings |-> NoRings, trades |-> [p \in Pairs |-> <<>>],
            book |-> [p \in Pairs |-> CHOOSE b \in PairBooks[p] : TRUE],
            traded |-> 0, back |-> FALSE, restarts |-> FALSE]
  /\ page = Loaded(OldVisit) /\ stored = Saved(page) /\ form = NoPrefill
  /\ books = NoBooks /\ candles = NoCandles /\ inflight = {}
  /\ chart = FirstChart(page)
  /\ steps = 0

Eventful == steps + tee.traded < MaxEvents
Step == Eventful /\ steps < MaxSteps /\ steps' = steps + 1
User == Alive /\ Step /\ UNCHANGED tee

\* OrderForm's effect on [prefillPrice] copies a price into the form's own state when
\* it has changed or the form is new, and ignores null: the field then keeps what it
\* had, another pair's price too, until the form is closed.
Copies(pg) ==
  pg.prefill # NoPrefill /\ (pg.prefill # page.prefill \/ "entry" \notin page.panels)
FormPrice(pg) ==
  IF "entry" \notin pg.panels THEN NoPrefill
  ELSE IF Copies(pg) THEN pg.prefill ELSE form

\* The page's own state changed: its effects save it, fill the form and redraw.
SetPage(pg, ch) ==
  /\ page' = pg /\ stored' = Saved(pg) /\ form' = FormPrice(pg)
  /\ Rendered(pg, candles, ch)

\* Mutant: the page's clicked price survives the change of pair.
PairChangedKeepingPrice(p) == [page EXCEPT !.pair = p]
\* setPair and the effect on [pair]: the page forgets the clicked price, the form
\* does not.
PairChanged(p) == [page EXCEPT !.pair = p, !.prefill = IF p = page.pair THEN @ ELSE NoPrefill]

\* PairSelector: open the list, perhaps search it, choose.  What the list and its
\* search field hold in between is read by nothing else.
SelectPair(p) ==
  /\ User
  /\ SetPage(PairChanged(p), chart)
  /\ UNCHANGED <<books, candles, inflight>>

SelectTimeframe(tf) ==
  /\ User /\ "chart" \in page.panels /\ tf # page.tf
  /\ SetPage([page EXCEPT !.tf = tf], chart)
  /\ UNCHANGED <<books, candles, inflight>>

\* A click on a row of the ladder: the price goes to the form, or to the next one.
ClickRow ==
  /\ User /\ "book" \in page.panels
  /\ \E side \in {Ladder.bids, Ladder.asks} : \E i \in DOMAIN side :
        SetPage([page EXCEPT !.prefill = side[i].price], chart)
  /\ UNCHANGED <<books, candles, inflight>>

\* A panel's close button, ...
ClosePanel(id) ==
  /\ User /\ id \in page.panels
  /\ SetPage([page EXCEPT !.panels = @ \ {id}], IF id = "chart" THEN NewChart ELSE chart)
  /\ UNCHANGED <<books, candles, inflight>>
\* ... and its chip in the header; the chart panel comes back with a new chart.
RestorePanel(id) ==
  /\ User /\ id \in HiddenPanels
  /\ SetPage([page EXCEPT !.panels = @ \cup {id}],
             IF id # "chart" THEN chart
             ELSE Mounted(BarsOf(candles, page.pair, page.tf), page.pair, page.tf))
  /\ UNCHANGED <<books, candles, inflight>>

\* The page is loaded again, from what it saved.
Reload ==
  /\ Step
  /\ page' = Loaded(stored) /\ stored' = Saved(Loaded(stored)) /\ form' = NoPrefill
  /\ books' = NoBooks /\ candles' = NoCandles /\ inflight' = {}
  /\ chart' = FirstChart(Loaded(stored))
  /\ UNCHANGED tee

-----------------------------------------------------------------------------
(* Queries.                                                                *)

\* The TEE answers an active key; the answer replaces one still under way.
TakeAnswer(key) ==
  /\ Alive /\ key \in ActiveKeys
  /\ inflight' = {x \in inflight : x.key # key} \cup {[key |-> key, data |-> Answer(key)]}
  /\ inflight' # inflight /\ Cardinality(inflight') <= MaxInflight
  /\ UNCHANGED <<tee, page, form, stored, books, candles, chart, steps>>

\* Mutant: one cache entry for all pairs.
BooksAfterUnkeyed(x) == IF x.key[1] = "bookState" THEN [p \in Pairs |-> x.data] ELSE books
\* The answer goes to its own key, whatever is selected by now.
BooksAfter(x) == IF x.key[1] = "bookState" THEN [books EXCEPT ![x.key[2]] = x.data] ELSE books
CandlesAfter(x) ==
  IF x.key[1] = "candles" THEN [candles EXCEPT ![x.key[2]][x.key[3]] = x.data] ELSE candles

ApplyAnswer(x) ==
  /\ Alive
  /\ inflight' = inflight \ {x}
  /\ books' = BooksAfter(x)
  /\ candles' = CandlesAfter(x)
  /\ Rendered(page, CandlesAfter(x), chart)
  /\ UNCHANGED <<tee, page, form, stored, steps>>

-----------------------------------------------------------------------------
(* The TEE.                                                                *)

Market(t) == tee' = t /\ UNCHANGED <<page, form, stored, books, candles, inflight, chart>>

\* processMatch, some time later: the trade is recorded and every timeframe's ring
\* rolled.  Only a trade reads the clock, so it moves when one happens.
Trade(p, price, time) ==
  /\ Eventful /\ tee.traded < MaxTrades /\ time >= tee.clock /\ UNCHANGED steps
  /\ Market([tee EXCEPT !.clock = time, !.traded = @ + 1, !.trades[p] = <<price>> \o @,
       !.rings[p] = [tf \in Timeframes |-> RollCandles(@[tf], tf, time, price)]])

BookMoves(p) ==
  Step /\ \E b \in PairBooks[p] : b # tee.book[p] /\ Market([tee EXCEPT !.book[p] = b])

ClockStepsBack == Step /\ tee.clock > 1 /\ Market([tee EXCEPT !.clock = @ - 1, !.back = TRUE])

\* Candles and trades live in memory only.
TeeRestarts ==
  /\ Step /\ tee.rings # NoRings
  /\ Market([tee EXCEPT !.restarts = TRUE, !.rings = NoRings, !.trades = [p \in Pairs |-> <<>>]])

Next ==
  \/ ClickRow \/ Reload
  \/ \E p \in Pairs : SelectPair(p) \/ BookMoves(p) \/ (\E x \in PairPrices[p], t \in 1..MaxTime : Trade(p, x, t))
  \/ \E tf \in Timeframes : SelectTimeframe(tf)
  \/ \E id \in Panels : ClosePanel(id) \/ RestorePanel(id)
  \/ \E key \in ActiveKeys : TakeAnswer(key)
  \/ \E x \in inflight : ApplyAnswer(x)
  \/ ClockStepsBack \/ TeeRestarts

Spec == Init /\ [][Next]_vars

-----------------------------------------------------------------------------
\* Candles as the TEE sends them and as the chart draws them.
ServerCandle == [openTime : Nat, open : Nat \ {0}, high : Nat \ {0}, low : Nat \ {0},
                 close : Nat \ {0}, trades : Nat \ {0}]
Bar == [time : Nat, open : Nat \ {0}, high : Nat \ {0}, low : Nat \ {0}, close : Nat \ {0}]

TypeOK ==
  /\ page.pair \in Pairs /\ page.tf \in Timeframes /\ page.panels \subseteq Panels /\ form \in Nat
  /\ \A i \in DOMAIN chart.series : chart.series[i] \in Bar
  /\ \A p \in Pairs, tf \in Timeframes : \A i \in DOMAIN tee.rings[p][tf] : tee.rings[p][tf][i] \in ServerCandle

\* The trades that some candles of a ring stand for.
TradesIn(ring, parts) == Total([k \in parts |-> ring[k].trades])

\* The ring has not dropped a candle since the TEE started.
NothingDropped(p, tf) == TradesIn(tee.rings[p][tf], DOMAIN tee.rings[p][tf]) = Len(tee.trades[p])

Bars == BarsOf(candles, page.pair, page.tf)

\* However the bars changed since the last drawing, one at the end or many, after
\* changes of pair, timeframe, panel or page, the series on screen is what a full
\* redraw would show.  A TEE that restarted may leave an older bar before them.  The
\* chart library refuses a bar older than the last one, and the refusal takes the page
\* down: that needs both a restart of the TEE and a clock that stepped back.
ChartShowsBars ==
  /\ (Alive /\ "chart" \in page.panels) =>
       IF ~tee.restarts THEN chart.series = Bars
       ELSE \E k \in 0..Len(chart.series) : Bars = SubSeq(chart.series, k + 1, Len(chart.series))
  /\ ~Alive => tee.back /\ tee.restarts

\* The bars handed to the chart are one per interval in ascending order; unless the
\* clock stepped back each opens where the one before it closed, across empty
\* intervals and candles that the ring has dropped.
BarsContinuous ==
  \A i \in 1..(Len(Bars) - 1) :
     /\ Bars[i + 1].time = Bars[i].time + page.tf
     /\ ~tee.back => Bars[i + 1].open = Bars[i].close

\* The fine candles of one interval of a coarser timeframe, and a candle as the merge
\* of some.
PartsOf(fine, time, c) == {k \in 1..Len(fine) : Bucket(fine[k].openTime, c) = time}
MergeOf(e, fine, parts) ==
  /\ e.open = fine[Min(parts)].open
  /\ e.close = fine[Max(parts)].close
  /\ e.high = Max({fine[k].high : k \in parts})
  /\ e.low = Min({fine[k].low : k \in parts})
  /\ e.trades = TradesIn(fine, parts)

\* The rings of the timeframes tell one story: a coarse candle is the merge of the
\* fine candles of its interval, while the ring still holds them all.
TimeframesAgree ==
  ~tee.back =>
  \A p \in Pairs : \A f, c \in Timeframes : f < c /\ c % f = 0 =>
    \A e \in {tee.rings[p][c][i] : i \in DOMAIN tee.rings[p][c]} :
       LET parts == PartsOf(tee.rings[p][f], e.openTime, c)
       IN parts # {} /\ (Min(parts) > 1 \/ NothingDropped(p, f)) => MergeOf(e, tee.rings[p][f], parts)

\* The ladder, the tape and the figures are the selected pair's, whichever answers
\* arrived after the selection changed.
ShownIsSelected ==
  /\ {Ladder.bids[i].price : i \in DOMAIN Ladder.bids} \cup {Ladder.asks[i].price : i \in DOMAIN Ladder.asks}
       \subseteq UNION {Prices(b.bids) \cup Prices(b.asks) : b \in PairBooks[page.pair]}
  /\ {Tape[i].price : i \in DOMAIN Tape} \subseteq PairPrices[page.pair]
  /\ Stats.high \in PairPrices[page.pair] \cup {0}

\* The prices a click in the ladder of a pair can give.
Clickable(p) == UNION {Prices(b.bids) \cup Prices(b.asks) : b \in PairBooks[p]}

\* OrderForm's effect on [prefillPrice]: a price that is put into the form is one of
\* the ladder of the pair selected at that moment: neither a late click nor a form
\* that is opened again after a change of pair brings the other pair's price.  (What
\* the form holds already it keeps over a change of pair.)
PrefillOfSelectedPair ==
  [][form' # form /\ form' # NoPrefill => form' \in Clickable(page'.pair)]_vars

\* The newest trade of the tape is the close of the newest bar whenever the two
\* answers were given after the same trades and no candle has been dropped, however
\* many trades the answer's limit cut off.
TapeMeetsChart ==
  LET bs == books[page.pair]
      cs == candles[page.pair][page.tf]
  IN (~tee.back /\ ~tee.restarts /\ cs # NoAnswer /\ bs # NoAnswer /\ Bars # <<>>
        /\ NothingDropped(page.pair, page.tf) /\ Len(tee.rings[page.pair][page.tf]) <= CandleLimit
        /\ TradesIn(cs.candles, DOMAIN cs.candles) = bs.known)
     => /\ Bars[Len(Bars)].close = Tape[1].price
        /\ Stats.last2 = 2 * Bars[Len(Bars)].close
=============================================================================
